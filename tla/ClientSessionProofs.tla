------------------------ MODULE ClientSessionProofs -------------------------
(***************************************************************************)
(* Safety of the client's sessions, for any set of counters, any number of *)
(* devices and any bounds on the clock and on the intervals, and the proof *)
(* that the library and the server implement IntervalRecorder.             *)
(***************************************************************************)
EXTENDS ClientSession, SequenceTheorems, TLAPS

Waiting(c, name) == stage = "wait" /\ on = c /\ op = name

\* The call in progress, and the connections it may be on.
CallInv ==
    /\ exited => stage = "idle" /\ \A c \in Counters : sock[c] # "open"
    /\ stage = "idle" => op = "none" /\ on = Nobody
    /\ stage = "wait" =>
          on \in Counters /\ sock[on] = "open" /\ op \in Operations \cup {"CREATE"}
    /\ stage = "query" =>
          \/ op = "CREATE" /\ on \in Counters /\ sock[on] = "open" /\ asked = dev[on]
          \/ op \in {"INFO_DEVICE", "LIST_DEVICES"} /\ on = Nobody

\* Never both a request and a reply, also after the client has exited.
OneAtATime == \A c \in Counters : request[c] = "none" \/ reply[c] = "none"

\* What is on a counter's connection belongs to the call in progress.
ChannelInv ==
    /\ OneAtATime /\ InStep
    /\ \A c \in Counters : sock[c] = "none" => request[c] = "none" /\ reply[c] = "none"

\* Nothing has been recorded by a session that does not serve yet, or never.
Blank(c) == sets[c] = <<>> /\ energy[c] = <<>> /\ status[c] = "INACTIVE"

CreateInv ==
    \A c \in Counters :
        /\ request[c] = "CREATE" \/ sock[c] = "none" => session[c] = "none"
        /\ session[c] \in {"none", "refused"} => Blank(c)
        /\ ~exited /\ op = "CREATE" /\ on = c => Blank(c) /\ next_timing[c] = 0
        /\ sock[c] = "none" => next_timing[c] = 0

\* Only the set of a counter that records is open, and it is the last one.
SetsOf(c) ==
    /\ status[c] = "ACTIVE" => Len(sets[c]) > 0
    /\ \A i \in 1 .. Len(sets[c]) :
          /\ sets[c][i].first <= now
          /\ i < Len(sets[c]) \/ status[c] = "INACTIVE" => sets[c][i].second # 0

SetsInv == \A c \in Counters : SetsOf(c)

\* A get's reply holds the sets as they still are.
DataInv ==
    \A c \in Counters : reply[c] = "data" =>
        /\ reply_sets[c] = sets[c] /\ status[c] = "INACTIVE"
        /\ session[c] \notin {"none", "refused"}
        /\ ~exited => op = "GET"

\* pm_stop_counter has counted an interval that the session has not closed.
Stopping(c) == Waiting(c, "STOP") /\ reply[c] # "SUCCESS"

\* The session has started anew and pm_start_counter has not noticed yet.
Restarting(c) == Waiting(c, "START") /\ reply[c] = "SUCCESS"

Resuming(c) == Waiting(c, "CONTINUE") /\ reply[c] = "SUCCESS"

\* The intervals on which both ends are through.
Closed(c) ==
    IF Stopping(c) THEN next_timing[c] - 1
    ELSE IF Restarting(c) THEN 0 ELSE next_timing[c]

Alive(c) == ~exited /\ sock[c] = "open"

\* IntervalsMatchSets inside of calls too.
CountOf(c) ==
    /\ Len(sets[c]) = Closed(c) + (IF status[c] = "ACTIVE" THEN 1 ELSE 0)
    /\ Closed(c) >= 0

CountInv == \A c \in Counters : Alive(c) => CountOf(c)

\* Interval i as the client stamped it, within the set with that number.
Within(c, i) ==
    /\ sets[c][i].first <= IntervalStart(c, i)
    /\ IntervalStart(c, i) <= IntervalStop(c, i)
    /\ IntervalStop(c, i) <= sets[c][i].second

ClosedInv == \A c \in Counters : Alive(c) => \A i \in 1 .. Closed(c) : Within(c, i)

\* The interval in progress began after its set was opened, and ends before
\* the set is closed.
OpenOf(c) ==
    /\ ~Restarting(c) /\ ~Resuming(c) =>
          sets[c][Len(sets[c])].first <= IntervalStart(c, Len(sets[c]))
    /\ Stopping(c) =>
          IntervalStart(c, Len(sets[c])) <= IntervalStop(c, Len(sets[c]))

OpenInv == \A c \in Counters : Alive(c) /\ status[c] = "ACTIVE" => OpenOf(c)

StampsInv == \A c \in Counters : \A i \in Index(c) : timing[c][i] <= now

\* All that the server sends in answer to the query in progress.
Fields == IF op = "LIST_DEVICES" THEN list_devices ELSE info_device(asked)

\* What was read and what is on its way are the beginning of the answer.
QueryInv ==
    /\ stage # "query" => info = "none"
    /\ stage = "query" => info # "none"
    /\ info # "answered" => wire = <<>> /\ got = <<>>
    /\ info = "answered" =>
          /\ Len(got) + Len(wire) <= Len(Fields)
          /\ \A i \in 1 .. Len(got) : got[i] = Fields[i]
          /\ \A i \in 1 .. Len(wire) : wire[i] = Fields[Len(got) + i]

\* QueriesAnswered's second part inside of calls too.
LinesInv ==
    \A c \in Counters : Alive(c) /\ ~(op = "CREATE" /\ on = c) =>
        num_lines[c] = get_num_lines(dev[c])

(***************************************************************************)
(* The inductive invariant.  The properties speak of a counter between two *)
(* calls; to be kept by every step they must also say what holds while a   *)
(* call is under way, on either side of the moment at which the session    *)
(* handles it (Closed, CountInv, ClosedInv, OpenInv).  That rests on the   *)
(* connection carrying one message at a time, of the call in progress      *)
(* (CallInv, ChannelInv), and on nothing having been recorded before a     *)
(* counter is created (CreateInv).                                         *)
(***************************************************************************)
Inv ==
    /\ TypeOK /\ CallInv /\ ChannelInv /\ CreateInv
    /\ SetsInv /\ DataInv /\ CountInv /\ ClosedInv /\ OpenInv /\ StampsInv
    /\ QueryInv /\ LinesInv

----------------------------------------------------------------------------
\* The two outcomes of Counter::Counter.
Admit(c, answer) ==
    /\ Answer(c, "CREATE", answer)
    /\ answer = "SUCCESS" => dev[c] \in Devices
    /\ session' = [session EXCEPT ![c] = IF answer = "SUCCESS" THEN "serving" ELSE "refused"]
    /\ UNCHANGED <<status, sets, reply_sets>>

\* Counter::Counter admits the counter or refuses it.
LEMMA CreateCases ==
    ASSUME NEW c \in Counters, Create(c)
    PROVE  \E answer \in {"SUCCESS", "ERROR"} : Admit(c, answer)
<1>1. CASE Answer(c, "CREATE", "SUCCESS")
  BY <1>1 DEF Create, Admit, Answer
<1>2. CASE Answer(c, "CREATE", "ERROR")
  BY <1>2 DEF Create, Admit, Answer
<1> QED BY <1>1, <1>2 DEF Create

\* A request that the session's status does not allow.
Refuse(c, name) ==
    /\ session[c] = "serving" /\ Answer(c, name, "ERROR")
    /\ status[c] = (IF name = "STOP" THEN "INACTIVE" ELSE "ACTIVE")
    /\ UNCHANGED <<session, status, sets, reply_sets>>

\* What the session refuses is one of the requests of Server::connection.
LEMMA RejectCases ==
    ASSUME NEW c \in Counters, Reject(c)
    PROVE  \E name \in Operations : Refuse(c, name)
<1>1. ASSUME status[c] = "ACTIVE", NEW name \in Operations \ {"STOP"}, Answer(c, name, "ERROR")
      PROVE  Refuse(c, name)
  BY <1>1 DEF Refuse, Reject
<1>2. ASSUME status[c] = "INACTIVE", Answer(c, "STOP", "ERROR")
      PROVE  Refuse(c, "STOP")
  BY <1>2 DEF Refuse, Reject
<1> QED BY <1>1, <1>2 DEF Reject, Operations

\* The elements of timing that hold interval n + 1.
LEMMA IndexOfInterval ==
    ASSUME NEW c \in Counters, NEW n \in Nat, n <= MaxIntervals[c]
    PROVE  2 * n \in Index(c) /\ 2 * n + 1 \in Index(c)
<1>1. MaxIntervals[c] \in Nat
  BY ClientSessionAssumption
<1> QED BY <1>1 DEF Index

\* A change of next_timing that leaves it within its bound.
LEMMA CountType ==
    ASSUME StampsOK, NEW c \in Counters, NEW n \in Nat, n <= MaxIntervals[c],
           next_timing' = [next_timing EXCEPT ![c] = n]
    PROVE  /\ next_timing' \in [Counters -> Nat]
           /\ \A k \in Counters : next_timing'[k] <= MaxIntervals[k]
<1>1. next_timing \in [Counters -> Nat] /\ \A k \in Counters : next_timing[k] <= MaxIntervals[k]
  BY DEF StampsOK
<1> QED BY <1>1

\* A stamp of an interval that timing has room for.
LEMMA StampType ==
    ASSUME TypeOK, StampsOK, NEW c \in Counters, NEW i \in Index(c),
           timing' = [timing EXCEPT ![c][i] = now],
           next_timing' \in [Counters -> Nat],
           \A k \in Counters : next_timing'[k] <= MaxIntervals[k]
    PROVE  StampsOK'
<1>1. now \in 0 .. MaxTime
  BY ClientSessionAssumption DEF TypeOK
<1> QED BY <1>1 DEF StampsOK

\* list_devices sends the number of devices, then each name in turn.
LEMMA ListFields ==
    /\ list_devices \in Seq(Int) /\ Len(list_devices) = 1 + 2 * NDevices
    /\ list_devices[1] = NDevices
    /\ \A d \in Devices : list_devices[2 * d + 1] = d
<1> DEFINE names == [i \in 1 .. 2 * NDevices |-> SendString((i + 1) \div 2)[2 - (i % 2)]]
<1>1. NDevices \in Nat /\ 2 * NDevices \in Nat
  BY ClientSessionAssumption
<1>2. ASSUME NEW i \in 1 .. 2 * NDevices PROVE SendString((i + 1) \div 2)[2 - (i % 2)] \in Int
  <2>1. i % 2 = 0 \/ i % 2 = 1
    BY <1>1
  <2>2. (i + 1) \div 2 \in Int
    BY <1>1
  <2> QED BY <2>1, <2>2 DEF SendString
<1>3. names \in Seq(Int) /\ Len(names) = 2 * NDevices
  BY <1>1, <1>2
<1>4. \A d \in Devices : names[2 * d] = d
  <2>1. ASSUME NEW d \in Devices PROVE names[2 * d] = d
    <3>1. d \in Int /\ 2 * d \in 1 .. 2 * NDevices /\ (2 * d) % 2 = 0 /\ (2 * d + 1) \div 2 = d
      BY <1>1 DEF Devices
    <3>2. names[2 * d] = SendString(d)[2]
      BY <3>1
    <3> QED BY <3>2 DEF SendString
  <2> QED BY <2>1
<1>5. <<NDevices>> \in Seq(Int) /\ Len(<<NDevices>>) = 1 /\ <<NDevices>>[1] = NDevices
  BY <1>1
<1>6. list_devices = <<NDevices>> \o names
  BY DEF list_devices
<1> HIDE DEF names
<1>7. /\ list_devices \in Seq(Int) /\ Len(list_devices) = 1 + 2 * NDevices
      /\ \A i \in 1 .. 1 + 2 * NDevices :
            list_devices[i] = IF i <= 1 THEN <<NDevices>>[i] ELSE names[i - 1]
  BY <1>3, <1>5, <1>6, ConcatProperties
<1>8. ASSUME NEW d \in Devices PROVE list_devices[2 * d + 1] = d
  <2>1. /\ 2 * d + 1 \in 1 .. 1 + 2 * NDevices /\ ~(2 * d + 1 <= 1)
        /\ (2 * d + 1) - 1 = 2 * d
    BY <1>1 DEF Devices
  <2> QED BY <1>4, <1>7, <2>1
<1>9. 1 \in 1 .. 1 + 2 * NDevices
  BY <1>1
<1> QED BY <1>5, <1>7, <1>8, <1>9

\* info_device sends the four fields of a device, or an error code alone.
LEMMA InfoFields ==
    ASSUME NEW d \in 0 .. NDevices
    PROVE  /\ info_device(d) \in Seq(Int) /\ Len(info_device(d)) \in {1, 4}
           /\ Len(info_device(d)) = 4 =>
                 info_device(d)[2] = get_num_lines(d) /\ info_device(d)[4] = d
<1>1. NDevices \in Nat /\ d \in Int
  BY ClientSessionAssumption
<1>2. CASE d \in Devices
  <2> DEFINE lines == <<1000 * d, 10 * d>>
             name == <<1, d>>
  <2>1. info_device(d) = lines \o name
    BY <1>2 DEF info_device, get_max_freq, get_num_lines, SendString
  <2>2. /\ lines \in Seq(Int) /\ Len(lines) = 2 /\ lines[2] = 10 * d
        /\ name \in Seq(Int) /\ Len(name) = 2 /\ name[2] = d
    BY <1>1
  <2> HIDE DEF lines, name
  <2>3. /\ lines \o name \in Seq(Int) /\ Len(lines \o name) = Len(lines) + Len(name)
        /\ \A i \in 1 .. Len(lines) + Len(name) :
              (lines \o name)[i] = IF i <= Len(lines) THEN lines[i] ELSE name[i - Len(lines)]
    BY <2>2, ConcatProperties
  <2>4. Len(lines \o name) = 4 /\ (lines \o name)[2] = 10 * d /\ (lines \o name)[4] = d
    BY <2>2, <2>3
  <2> QED BY <2>1, <2>3, <2>4 DEF get_num_lines
<1>3. CASE d \notin Devices
  BY <1>3 DEF info_device
<1> QED BY <1>2, <1>3

\* Whatever the query asks, the server has an answer of numbers.
LEMMA FieldsType == TypeOK => Fields \in Seq(Int)
  BY ListFields, InfoFields DEF TypeOK, Fields

\* A step that stamps nothing.
LEMMA SameStamps == StampsOK /\ UNCHANGED <<next_timing, timing>> => StampsOK'
  BY DEF StampsOK

\* Every step keeps the types.
LEMMA TypeStep == TypeOK /\ CallInv /\ SetsInv /\ [Next]_vars => TypeOK'
<1> SUFFICES ASSUME TypeOK, CallInv, SetsInv, [Next]_vars PROVE TypeOK'
  OBVIOUS
<1> USE DEF call_vars, handle_vars, server_vars, channel_vars, query_vars
<1> USE ClientSessionAssumption, SameStamps DEF TypeOK, Operations
<1>1. CASE UNCHANGED vars
  BY <1>1 DEF vars
<1>2. ASSUME NEW c \in Counters, pm_create_counter(c) PROVE TypeOK'
  BY <1>2 DEF pm_create_counter, Begin, CanCall
<1>3. ASSUME NEW c \in Counters, pm_start_counter(c) PROVE TypeOK'
  BY <1>3 DEF pm_start_counter, Send, Begin, CanCall
<1>4. ASSUME NEW c \in Counters, pm_continue_counter(c) PROVE TypeOK'
  BY <1>4 DEF pm_continue_counter, Send, Begin, CanCall, Room
<1>5. ASSUME NEW c \in Counters, pm_get_counter_data(c) PROVE TypeOK'
  BY <1>5 DEF pm_get_counter_data, Send, Begin, CanCall
<1>6. ASSUME NEW c \in Counters, pm_finalize_counter(c) PROVE TypeOK'
  BY <1>6 DEF pm_finalize_counter, Send, Begin, CanCall
<1>7. ASSUME NEW c \in Counters, Stopped(c) PROVE TypeOK'
  BY <1>7 DEF Stopped, Read, Returned
<1>8. ASSUME NEW c \in Counters, Got(c) PROVE TypeOK'
  BY <1>8 DEF Got, Read, Returned
<1>9. ASSUME NEW c \in Counters, Finalized(c) PROVE TypeOK'
  BY <1>9 DEF Finalized, Read, Returned
<1>10. ASSUME NEW c \in Counters, Created(c) PROVE TypeOK'
  BY <1>10 DEF Created, Read
<1>11. ASSUME NEW c \in Counters, Get(c) PROVE TypeOK'
  BY <1>11 DEF Get, Answer
<1>12. ASSUME NEW c \in Counters, Finalize(c) PROVE TypeOK'
  BY <1>12 DEF Finalize, Answer
<1>13. ASSUME NEW c \in Counters, ReceiveFails(c) PROVE TypeOK'
  BY <1>13 DEF ReceiveFails
<1>14. ASSUME NEW c \in Counters, NEW answer \in {"SUCCESS", "ERROR"}, Admit(c, answer)
       PROVE  TypeOK'
  BY <1>14 DEF Admit, Answer
<1>15. ASSUME NEW c \in Counters, NEW name \in Operations, Refuse(c, name)
       PROVE  TypeOK'
  BY <1>15 DEF Refuse, Answer
<1>16. CASE Exit
  <2>1. StampsOK'
    <3> HIDE DEF TypeOK, Operations
    <3> QED BY <1>16 DEF StampsOK, Exit
  <2>2. sock' \in [Counters -> {"none", "open", "closed"}] /\ num_lines' \in [Counters -> Int]
    BY <1>16 DEF Exit
  <2>3. <<>> \in Seq(Int) /\ 0 \in 0 .. NDevices
    OBVIOUS
  <2> QED BY <1>16, <2>1, <2>2, <2>3 DEF Exit, Forget
<1>17. CASE pm_get_device_info
  BY <1>17 DEF pm_get_device_info, Begin, CanCall
<1>18. CASE pm_get_devices
  BY <1>18 DEF pm_get_devices, Begin, CanCall
<1>19. CASE Tick
  BY <1>19 DEF Tick
<1> HIDE ClientSessionAssumption, SameStamps DEF TypeOK, Operations
<1>20. ASSUME NEW c \in Counters, pm_stop_counter(c) PROVE TypeOK'
  <2>1. next_timing[c] \in Nat /\ next_timing[c] <= MaxIntervals[c]
    BY DEF TypeOK, StampsOK
  <2>2. 2 * next_timing[c] \in Index(c) /\ 2 * next_timing[c] + 1 \in Index(c)
    BY <2>1, IndexOfInterval
  <2>3. /\ next_timing' \in [Counters -> Nat]
        /\ \A k \in Counters : next_timing'[k] <= MaxIntervals[k]
    <3>1. next_timing[c] + 1 \in Nat /\ next_timing[c] + 1 <= MaxIntervals[c]
      BY <1>20, <2>1, ClientSessionAssumption DEF pm_stop_counter, Room
    <3> QED BY <1>20, <3>1, CountType DEF TypeOK, pm_stop_counter
  <2>4. StampsOK'
    BY <1>20, <2>2, <2>3, StampType DEF TypeOK, pm_stop_counter
  <2> QED BY SameStamps, <1>20, <2>4 DEF TypeOK, Operations, pm_stop_counter, Send, Begin
<1>21. ASSUME NEW c \in Counters, Started(c) PROVE TypeOK'
  <2>1. MaxIntervals[c] \in Nat /\ 2 * 0 \in Index(c)
    BY ClientSessionAssumption, IndexOfInterval
  <2>2. /\ next_timing' \in [Counters -> Nat]
        /\ \A k \in Counters : next_timing'[k] <= MaxIntervals[k]
    <3>1. next_timing' = [next_timing EXCEPT ![c] = 0] /\ 0 <= MaxIntervals[c]
      BY <1>21, <2>1 DEF Started, FirstTiming
    <3> QED BY <3>1, CountType DEF TypeOK
  <2>3. StampsOK'
    BY <1>21, <2>1, <2>2, StampType DEF TypeOK, Started, FirstTiming
  <2> QED BY SameStamps, <1>21, <2>3 DEF TypeOK, Operations, Started, Read, Returned
<1>22. ASSUME NEW c \in Counters, Continued(c) PROVE TypeOK'
  <2>1. next_timing[c] \in Nat /\ next_timing[c] <= MaxIntervals[c]
    BY DEF TypeOK, StampsOK
  <2>2. 2 * next_timing[c] \in Index(c) /\ 2 * next_timing[c] + 1 \in Index(c)
    BY <2>1, IndexOfInterval
  <2>3. StampsOK'
    BY <1>22, <2>2, StampType DEF TypeOK, StampsOK, Continued
  <2> QED BY SameStamps, <1>22, <2>3 DEF TypeOK, Operations, Continued, Read, Returned
<1>23. ASSUME NEW c \in Counters, Start(c) PROVE TypeOK'
  <2>1. <<OpenSet>> \in Seq(Window)
    BY ClientSessionAssumption DEF OpenSet, Window, TypeOK
  <2> QED BY SameStamps, <1>23, <2>1 DEF TypeOK, Operations, Start, Answer
<1>24. ASSUME NEW c \in Counters, Restart(c) PROVE TypeOK'
  <2>1. OpenSet \in Window
    BY ClientSessionAssumption DEF OpenSet, Window, TypeOK
  <2>2. Append(sets[c], OpenSet) \in Seq(Window)
    BY <2>1, AppendProperties DEF TypeOK
  <2> QED BY SameStamps, <1>24, <2>2 DEF TypeOK, Operations, Restart, Answer
<1>25. ASSUME NEW c \in Counters, Stop(c) PROVE TypeOK'
  <2> DEFINE n == Len(sets[c])
  <2>1. sets[c] \in Seq(Window) /\ n \in 1 .. n /\ sets[c][n] \in Window /\ now \in 0 .. MaxTime
    BY <1>25 DEF TypeOK, SetsInv, SetsOf, Stop
  <2>2. [sets[c][n] EXCEPT !.second = now] \in Window
    BY <2>1 DEF Window
  <2>3. [sets[c] EXCEPT ![n].second = now] \in Seq(Window)
    BY <2>1, <2>2
  <2> QED BY SameStamps, <1>25, <2>3 DEF TypeOK, Operations, Stop, Answer
<1>26. CASE ReadField
  <2>1. Head(wire) \in Int /\ wire' \in Seq(Int)
    BY <1>26, HeadTailProperties DEF TypeOK, ReadField
  <2>2. got' \in Seq(Int)
    BY <1>26, <2>1, AppendProperties DEF TypeOK, ReadField
  <2> QED BY SameStamps, <1>26, <2>1, <2>2 DEF TypeOK, Operations, ReadField
<1>27. CASE QueryDone
  <2>1. CASE op = "CREATE"
    <3>1. on \in Counters
      BY <1>27, <2>1 DEF CallInv, QueryDone, Operations
    <3>2. Len(got) = 4 /\ got \in Seq(Int)
      BY <1>27, <2>1 DEF TypeOK, QueryDone, Expected
    <3>3. num_lines' = [num_lines EXCEPT ![on] = got[2]] /\ got[2] \in Int
      BY <1>27, <2>1, <3>2 DEF QueryDone
    <3>4. StampsOK'
      <4>1. 0 <= MaxIntervals[on]
        BY <3>1, ClientSessionAssumption
      <4>2. next_timing' = [next_timing EXCEPT ![on] = 0] /\ timing' = timing
        BY <1>27, <2>1 DEF QueryDone
      <4> QED BY <3>1, <4>1, <4>2, CountType DEF TypeOK, StampsOK
    <3>5. energy' \in [Counters -> Seq(Window)]
      BY <1>27, <2>1, <3>1 DEF TypeOK, QueryDone
    <3>6. num_lines' \in [Counters -> Int]
      BY <3>3 DEF TypeOK
    <3>7. <<>> \in Seq(Int) /\ 0 \in 0 .. NDevices
      BY ClientSessionAssumption
    <3> QED BY <1>27, <3>4, <3>5, <3>6, <3>7
       DEF TypeOK, Operations, QueryDone, Returned, Forget
  <2>2. CASE op # "CREATE"
    BY <1>27, <2>2, ClientSessionAssumption, SameStamps
       DEF TypeOK, Operations, QueryDone, Returned, Forget
  <2> QED BY <2>1, <2>2
<1>28. CASE InfoRun
  <2>1. wire' = Fields
    BY <1>28 DEF InfoRun, Fields
  <2>2. wire' \in Seq(Int)
    BY <2>1, FieldsType
  <2> QED BY SameStamps, <1>28, <2>2 DEF TypeOK, Operations, InfoRun
<1>29. CASE ServerDies
  <2>1. PICK sent \in 0 .. Len(wire) : wire' = SubSeq(wire, 1, sent)
    BY <1>29 DEF ServerDies
  <2>2. wire' \in Seq(Int)
    BY <2>1 DEF TypeOK
  <2> QED BY SameStamps, <1>29, <2>2 DEF TypeOK, StampsOK, ServerDies
<1> QED BY <1>1, <1>2, <1>3, <1>4, <1>5, <1>6, <1>7, <1>8, <1>9, <1>10, <1>11,
       <1>12, <1>13, <1>14, <1>15, <1>16, <1>17, <1>18, <1>19, <1>20, <1>21, <1>22, <1>23,
       <1>24, <1>25, <1>26, <1>27, <1>28, <1>29, CreateCases, RejectCases
       DEF Next, Calls, Replies, Session, Query, CreatedTooLate, Refused,
           ConnectionLost,
           CannotConnect, RecvFails, ReadError, QueryLost

\* Calls are made one at a time.
LEMMA CallStep == TypeOK /\ CallInv /\ [Next]_vars => CallInv'
<1> SUFFICES ASSUME TypeOK, CallInv, [Next]_vars PROVE CallInv'
  OBVIOUS
<1> USE DEF call_vars, handle_vars, server_vars, channel_vars, query_vars
<1> USE ClientSessionAssumption DEF TypeOK, CallInv, Operations
<1>1. CASE UNCHANGED vars
  BY <1>1 DEF vars
<1>2. ASSUME NEW c \in Counters, pm_create_counter(c) PROVE CallInv'
  BY <1>2 DEF pm_create_counter, Begin, CanCall
<1>3. ASSUME NEW c \in Counters, pm_start_counter(c) PROVE CallInv'
  BY <1>3 DEF pm_start_counter, Send, Begin, CanCall
<1>4. ASSUME NEW c \in Counters, pm_continue_counter(c) PROVE CallInv'
  BY <1>4 DEF pm_continue_counter, Send, Begin, CanCall, Room
<1>5. ASSUME NEW c \in Counters, pm_stop_counter(c) PROVE CallInv'
  BY <1>5 DEF pm_stop_counter, Send, Begin, CanCall, Room
<1>6. ASSUME NEW c \in Counters, pm_get_counter_data(c) PROVE CallInv'
  BY <1>6 DEF pm_get_counter_data, Send, Begin, CanCall
<1>7. ASSUME NEW c \in Counters, pm_finalize_counter(c) PROVE CallInv'
  BY <1>7 DEF pm_finalize_counter, Send, Begin, CanCall
<1>8. ASSUME NEW c \in Counters, Started(c) PROVE CallInv'
  BY <1>8 DEF Started, Read, Returned, FirstTiming
<1>9. ASSUME NEW c \in Counters, Continued(c) PROVE CallInv'
  BY <1>9 DEF Continued, Read, Returned
<1>10. ASSUME NEW c \in Counters, Stopped(c) PROVE CallInv'
  BY <1>10 DEF Stopped, Read, Returned
<1>11. ASSUME NEW c \in Counters, Got(c) PROVE CallInv'
  BY <1>11 DEF Got, Read, Returned
<1>12. ASSUME NEW c \in Counters, Finalized(c) PROVE CallInv'
  BY <1>12 DEF Finalized, Read, Returned
<1>13. ASSUME NEW c \in Counters, Created(c) PROVE CallInv'
  BY <1>13 DEF Created, Read
<1>14. ASSUME NEW c \in Counters, Start(c) PROVE CallInv'
  BY <1>14 DEF Start, Answer, OpenSet
<1>15. ASSUME NEW c \in Counters, Restart(c) PROVE CallInv'
  BY <1>15 DEF Restart, Answer, OpenSet
<1>16. ASSUME NEW c \in Counters, Stop(c) PROVE CallInv'
  BY <1>16 DEF Stop, Answer
<1>17. ASSUME NEW c \in Counters, Get(c) PROVE CallInv'
  BY <1>17 DEF Get, Answer
<1>18. ASSUME NEW c \in Counters, Finalize(c) PROVE CallInv'
  BY <1>18 DEF Finalize, Answer
<1>19. ASSUME NEW c \in Counters, ReceiveFails(c) PROVE CallInv'
  BY <1>19 DEF ReceiveFails
<1>20. ASSUME NEW c \in Counters, NEW answer \in {"SUCCESS", "ERROR"}, Admit(c, answer)
       PROVE  CallInv'
  BY <1>20 DEF Admit, Answer
<1>21. ASSUME NEW c \in Counters, NEW name \in Operations, Refuse(c, name)
       PROVE  CallInv'
  BY <1>21 DEF Refuse, Answer
<1>22. CASE Exit
  BY <1>22 DEF Exit, Forget
<1>23. CASE pm_get_device_info
  BY <1>23 DEF pm_get_device_info, Begin, CanCall
<1>24. CASE pm_get_devices
  BY <1>24 DEF pm_get_devices, Begin, CanCall
<1>25. CASE ReadField
  BY <1>25 DEF ReadField
<1>26. CASE QueryDone
  BY <1>26 DEF QueryDone, Returned, Forget
<1>27. CASE InfoRun
  BY <1>27 DEF InfoRun
<1>28. CASE ServerDies
  BY <1>28 DEF ServerDies
<1>29. CASE Tick
  BY <1>29 DEF Tick
<1> HIDE ClientSessionAssumption DEF TypeOK, CallInv, Operations
<1> QED BY <1>1, <1>2, <1>3, <1>4, <1>5, <1>6, <1>7, <1>8, <1>9, <1>10, <1>11,
       <1>12, <1>13, <1>14, <1>15, <1>16, <1>17, <1>18, <1>19, <1>20, <1>21, <1>22, <1>23,
       <1>24, <1>25, <1>26, <1>27, <1>28, <1>29, CreateCases, RejectCases
       DEF Next, Calls, Replies, Session, Query, CreatedTooLate, Refused,
           ConnectionLost,
           CannotConnect, RecvFails, ReadError, QueryLost

\* Requests and replies stay in step with the calls.
LEMMA ChannelStep == TypeOK /\ CallInv /\ ChannelInv /\ [Next]_vars => ChannelInv'
<1> SUFFICES ASSUME TypeOK, CallInv, ChannelInv, [Next]_vars PROVE ChannelInv'
  OBVIOUS
<1> USE DEF call_vars, handle_vars, server_vars, channel_vars, query_vars
<1> USE ClientSessionAssumption
    DEF TypeOK, CallInv, ChannelInv, OneAtATime, InStep, Operations
<1>1. CASE UNCHANGED vars
  BY <1>1 DEF vars
<1>2. ASSUME NEW c \in Counters, pm_create_counter(c) PROVE ChannelInv'
  BY <1>2 DEF pm_create_counter, Begin, CanCall
<1>3. ASSUME NEW c \in Counters, pm_start_counter(c) PROVE ChannelInv'
  BY <1>3 DEF pm_start_counter, Send, Begin, CanCall
<1>4. ASSUME NEW c \in Counters, pm_continue_counter(c) PROVE ChannelInv'
  BY <1>4 DEF pm_continue_counter, Send, Begin, CanCall, Room
<1>5. ASSUME NEW c \in Counters, pm_stop_counter(c) PROVE ChannelInv'
  BY <1>5 DEF pm_stop_counter, Send, Begin, CanCall, Room
<1>6. ASSUME NEW c \in Counters, pm_get_counter_data(c) PROVE ChannelInv'
  BY <1>6 DEF pm_get_counter_data, Send, Begin, CanCall
<1>7. ASSUME NEW c \in Counters, pm_finalize_counter(c) PROVE ChannelInv'
  BY <1>7 DEF pm_finalize_counter, Send, Begin, CanCall
<1>8. ASSUME NEW c \in Counters, Started(c) PROVE ChannelInv'
  BY <1>8 DEF Started, Read, Returned, FirstTiming
<1>9. ASSUME NEW c \in Counters, Continued(c) PROVE ChannelInv'
  BY <1>9 DEF Continued, Read, Returned
<1>10. ASSUME NEW c \in Counters, Stopped(c) PROVE ChannelInv'
  BY <1>10 DEF Stopped, Read, Returned
<1>11. ASSUME NEW c \in Counters, Got(c) PROVE ChannelInv'
  BY <1>11 DEF Got, Read, Returned
<1>12. ASSUME NEW c \in Counters, Finalized(c) PROVE ChannelInv'
  BY <1>12 DEF Finalized, Read, Returned
<1>13. ASSUME NEW c \in Counters, Created(c) PROVE ChannelInv'
  BY <1>13 DEF Created, Read
<1>14. ASSUME NEW c \in Counters, Start(c) PROVE ChannelInv'
  BY <1>14, SMTT(30) DEF Start, Answer, OpenSet
<1>15. ASSUME NEW c \in Counters, Restart(c) PROVE ChannelInv'
  BY <1>15, SMTT(30) DEF Restart, Answer, OpenSet
<1>16. ASSUME NEW c \in Counters, Stop(c) PROVE ChannelInv'
  BY <1>16, SMTT(30) DEF Stop, Answer
<1>17. ASSUME NEW c \in Counters, Get(c) PROVE ChannelInv'
  BY <1>17, SMTT(30) DEF Get, Answer
<1>18. ASSUME NEW c \in Counters, Finalize(c) PROVE ChannelInv'
  BY <1>18, SMTT(30) DEF Finalize, Answer
<1>19. ASSUME NEW c \in Counters, ReceiveFails(c) PROVE ChannelInv'
  BY <1>19 DEF ReceiveFails
<1>20. ASSUME NEW c \in Counters, NEW answer \in {"SUCCESS", "ERROR"}, Admit(c, answer)
       PROVE  ChannelInv'
  BY <1>20, SMTT(90) DEF Admit, Answer
<1>21. ASSUME NEW c \in Counters, NEW name \in Operations, Refuse(c, name)
       PROVE  ChannelInv'
  BY <1>21, SMTT(90) DEF Refuse, Answer
<1>22. CASE Exit
  BY <1>22 DEF Exit, Forget
<1>23. CASE pm_get_device_info
  BY <1>23 DEF pm_get_device_info, Begin, CanCall
<1>24. CASE pm_get_devices
  BY <1>24 DEF pm_get_devices, Begin, CanCall
<1>25. CASE ReadField
  BY <1>25 DEF ReadField
<1>26. CASE QueryDone
  BY <1>26 DEF QueryDone, Returned, Forget
<1>27. CASE InfoRun
  BY <1>27 DEF InfoRun
<1>28. CASE ServerDies
  BY <1>28 DEF ServerDies
<1>29. CASE Tick
  BY <1>29 DEF Tick
<1> HIDE ClientSessionAssumption
    DEF TypeOK, CallInv, ChannelInv, OneAtATime, InStep, Operations
<1> QED BY <1>1, <1>2, <1>3, <1>4, <1>5, <1>6, <1>7, <1>8, <1>9, <1>10, <1>11,
       <1>12, <1>13, <1>14, <1>15, <1>16, <1>17, <1>18, <1>19, <1>20, <1>21, <1>22, <1>23,
       <1>24, <1>25, <1>26, <1>27, <1>28, <1>29, CreateCases, RejectCases
       DEF Next, Calls, Replies, Session, Query, CreatedTooLate, Refused,
           ConnectionLost,
           CannotConnect, RecvFails, ReadError, QueryLost

\* Nothing is recorded before the counter is created.
LEMMA CreateStep ==
    TypeOK /\ CallInv /\ ChannelInv /\ DataInv /\ CreateInv /\ [Next]_vars => CreateInv'
<1> SUFFICES ASSUME TypeOK, CallInv, ChannelInv, DataInv, CreateInv, [Next]_vars
             PROVE  CreateInv'
  OBVIOUS
<1> USE DEF call_vars, handle_vars, server_vars, channel_vars, query_vars
<1> USE ClientSessionAssumption
    DEF TypeOK, CallInv, ChannelInv, OneAtATime, InStep, CreateInv, Blank,
        Operations, StampsOK
<1>1. CASE UNCHANGED vars
  BY <1>1 DEF vars
<1>2. ASSUME NEW c \in Counters, pm_create_counter(c) PROVE CreateInv'
  BY <1>2, SMTT(30) DEF pm_create_counter, Begin, CanCall
<1>3. ASSUME NEW c \in Counters, pm_start_counter(c) PROVE CreateInv'
  BY <1>3 DEF pm_start_counter, Send, Begin, CanCall
<1>4. ASSUME NEW c \in Counters, pm_continue_counter(c) PROVE CreateInv'
  BY <1>4 DEF pm_continue_counter, Send, Begin, CanCall, Room
<1>5. ASSUME NEW c \in Counters, pm_stop_counter(c) PROVE CreateInv'
  BY <1>5 DEF pm_stop_counter, Send, Begin, CanCall, Room
<1>6. ASSUME NEW c \in Counters, pm_get_counter_data(c) PROVE CreateInv'
  BY <1>6 DEF pm_get_counter_data, Send, Begin, CanCall
<1>7. ASSUME NEW c \in Counters, pm_finalize_counter(c) PROVE CreateInv'
  BY <1>7 DEF pm_finalize_counter, Send, Begin, CanCall
<1>8. ASSUME NEW c \in Counters, Started(c) PROVE CreateInv'
  BY <1>8 DEF Started, Read, Returned, FirstTiming
<1>9. ASSUME NEW c \in Counters, Continued(c) PROVE CreateInv'
  BY <1>9 DEF Continued, Read, Returned
<1>10. ASSUME NEW c \in Counters, Stopped(c) PROVE CreateInv'
  BY <1>10 DEF Stopped, Read, Returned
<1>11. ASSUME NEW c \in Counters, Finalized(c) PROVE CreateInv'
  BY <1>11 DEF Finalized, Read, Returned
<1>12. ASSUME NEW c \in Counters, Created(c) PROVE CreateInv'
  BY <1>12 DEF Created, Read
<1>13. ASSUME NEW c \in Counters, Start(c) PROVE CreateInv'
  BY <1>13 DEF Start, Answer, OpenSet
<1>14. ASSUME NEW c \in Counters, Restart(c) PROVE CreateInv'
  BY <1>14 DEF Restart, Answer, OpenSet
<1>15. ASSUME NEW c \in Counters, Stop(c) PROVE CreateInv'
  BY <1>15 DEF Stop, Answer
<1>16. ASSUME NEW c \in Counters, Get(c) PROVE CreateInv'
  BY <1>16 DEF Get, Answer
<1>17. ASSUME NEW c \in Counters, Finalize(c) PROVE CreateInv'
  BY <1>17 DEF Finalize, Answer
<1>18. ASSUME NEW c \in Counters, ReceiveFails(c) PROVE CreateInv'
  BY <1>18 DEF ReceiveFails
<1>19. ASSUME NEW c \in Counters, NEW answer \in {"SUCCESS", "ERROR"}, Admit(c, answer)
       PROVE  CreateInv'
  BY <1>19, SMTT(30) DEF Admit, Answer
<1>20. ASSUME NEW c \in Counters, NEW name \in Operations, Refuse(c, name)
       PROVE  CreateInv'
  BY <1>20 DEF Refuse, Answer
<1>21. CASE Exit
  BY <1>21 DEF Exit, Forget
<1>22. CASE pm_get_device_info
  BY <1>22 DEF pm_get_device_info, Begin, CanCall
<1>23. CASE pm_get_devices
  BY <1>23 DEF pm_get_devices, Begin, CanCall
<1>24. CASE ReadField
  BY <1>24 DEF ReadField
<1>25. CASE QueryDone
  BY <1>25 DEF QueryDone, Returned, Forget
<1>26. CASE InfoRun
  BY <1>26 DEF InfoRun
<1>27. CASE ServerDies
  BY <1>27 DEF ServerDies
<1>28. CASE Tick
  BY <1>28 DEF Tick
<1> HIDE ClientSessionAssumption
    DEF TypeOK, CallInv, ChannelInv, OneAtATime, InStep, CreateInv, Blank,
        Operations, StampsOK
<1>29. ASSUME NEW c \in Counters, Got(c) PROVE CreateInv'
  BY <1>29, ClientSessionAssumption
     DEF TypeOK, CallInv, ChannelInv, OneAtATime, InStep, DataInv, CreateInv, Blank,
         Operations,
         StampsOK, Got, Read, Returned
<1> QED BY <1>1, <1>2, <1>3, <1>4, <1>5, <1>6, <1>7, <1>8, <1>9, <1>10, <1>11,
       <1>12, <1>13, <1>14, <1>15, <1>16, <1>17, <1>18, <1>19, <1>20, <1>21, <1>22, <1>23,
       <1>24, <1>25, <1>26, <1>27, <1>28, <1>29, CreateCases, RejectCases
       DEF Next, Calls, Replies, Session, Query, CreatedTooLate, Refused,
           ConnectionLost,
           CannotConnect, RecvFails, ReadError, QueryLost

\* Only the last set is open
LEMMA SetsStep == TypeOK /\ SetsInv /\ [Next]_vars => SetsInv'
<1> SUFFICES ASSUME TypeOK, SetsInv, [Next]_vars PROVE SetsInv'
  OBVIOUS
<1> USE DEF call_vars, handle_vars, server_vars, channel_vars, query_vars
<1> USE ClientSessionAssumption DEF TypeOK, SetsInv, SetsOf
<1>1. CASE UNCHANGED vars
  BY <1>1 DEF vars
<1>2. ASSUME NEW c \in Counters, pm_create_counter(c) PROVE SetsInv'
  BY <1>2 DEF pm_create_counter, Begin, CanCall
<1>3. ASSUME NEW c \in Counters, pm_start_counter(c) PROVE SetsInv'
  BY <1>3 DEF pm_start_counter, Send, Begin, CanCall
<1>4. ASSUME NEW c \in Counters, pm_continue_counter(c) PROVE SetsInv'
  BY <1>4 DEF pm_continue_counter, Send, Begin, CanCall, Room
<1>5. ASSUME NEW c \in Counters, pm_stop_counter(c) PROVE SetsInv'
  BY <1>5 DEF pm_stop_counter, Send, Begin, CanCall, Room
<1>6. ASSUME NEW c \in Counters, pm_get_counter_data(c) PROVE SetsInv'
  BY <1>6 DEF pm_get_counter_data, Send, Begin, CanCall
<1>7. ASSUME NEW c \in Counters, pm_finalize_counter(c) PROVE SetsInv'
  BY <1>7 DEF pm_finalize_counter, Send, Begin, CanCall
<1>8. ASSUME NEW c \in Counters, Started(c) PROVE SetsInv'
  BY <1>8 DEF Started, Read, Returned, FirstTiming
<1>9. ASSUME NEW c \in Counters, Continued(c) PROVE SetsInv'
  BY <1>9 DEF Continued, Read, Returned
<1>10. ASSUME NEW c \in Counters, Stopped(c) PROVE SetsInv'
  BY <1>10 DEF Stopped, Read, Returned
<1>11. ASSUME NEW c \in Counters, Got(c) PROVE SetsInv'
  BY <1>11 DEF Got, Read, Returned
<1>12. ASSUME NEW c \in Counters, Finalized(c) PROVE SetsInv'
  BY <1>12 DEF Finalized, Read, Returned
<1>13. ASSUME NEW c \in Counters, Created(c) PROVE SetsInv'
  BY <1>13 DEF Created, Read
<1>14. ASSUME NEW c \in Counters, Get(c) PROVE SetsInv'
  BY <1>14 DEF Get, Answer
<1>15. ASSUME NEW c \in Counters, Finalize(c) PROVE SetsInv'
  BY <1>15 DEF Finalize, Answer
<1>16. ASSUME NEW c \in Counters, ReceiveFails(c) PROVE SetsInv'
  BY <1>16 DEF ReceiveFails
<1>17. ASSUME NEW c \in Counters, NEW answer \in {"SUCCESS", "ERROR"}, Admit(c, answer)
       PROVE  SetsInv'
  BY <1>17 DEF Admit, Answer
<1>18. ASSUME NEW c \in Counters, NEW name \in Operations, Refuse(c, name)
       PROVE  SetsInv'
  BY <1>18 DEF Refuse, Answer
<1>19. CASE Exit
  BY <1>19 DEF Exit, Forget
<1>20. CASE pm_get_device_info
  BY <1>20 DEF pm_get_device_info, Begin, CanCall
<1>21. CASE pm_get_devices
  BY <1>21 DEF pm_get_devices, Begin, CanCall
<1>22. CASE ReadField
  BY <1>22 DEF ReadField
<1>23. CASE QueryDone
  BY <1>23 DEF QueryDone, Returned, Forget
<1>24. CASE InfoRun
  BY <1>24 DEF InfoRun
<1>25. CASE ServerDies
  BY <1>25 DEF ServerDies
<1> HIDE ClientSessionAssumption DEF TypeOK, SetsInv, SetsOf
<1>26. ASSUME NEW c \in Counters, Start(c) PROVE SetsInv'
  <2>1. sets' = [sets EXCEPT ![c] = <<OpenSet>>] /\ status' = [status EXCEPT ![c] = "ACTIVE"]
    BY <1>26 DEF Start
  <2>2. sets'[c] = <<OpenSet>> /\ status'[c] = "ACTIVE" /\ now' = now /\ now \in Int
    BY <1>26, <2>1 DEF TypeOK, Start, Answer
  <2>3. SetsOf(c)'
    BY <2>2 DEF SetsOf, OpenSet
  <2>4. ASSUME NEW k \in Counters, k # c PROVE SetsOf(k)'
    BY <1>26, <2>4 DEF TypeOK, SetsInv, SetsOf, Start, Answer
  <2> QED BY <2>3, <2>4 DEF SetsInv
<1>27. ASSUME NEW c \in Counters, Restart(c) PROVE SetsInv'
  <2>1. sets[c] \in Seq(Window) /\ now' = now /\ now \in Int /\ SetsOf(c) /\ status[c] = "INACTIVE"
    BY <1>27 DEF TypeOK, SetsInv, Restart, Answer
  <2>2. sets'[c] = Append(sets[c], OpenSet) /\ status'[c] = "ACTIVE"
    BY <1>27 DEF TypeOK, Restart
  <2>3. SetsOf(c)'
    BY <2>1, <2>2 DEF SetsOf, OpenSet
  <2>4. ASSUME NEW k \in Counters, k # c PROVE SetsOf(k)'
    BY <1>27, <2>4 DEF TypeOK, SetsInv, SetsOf, Restart, Answer
  <2> QED BY <2>3, <2>4 DEF SetsInv
<1>28. ASSUME NEW c \in Counters, Stop(c) PROVE SetsInv'
  <2> DEFINE n == Len(sets[c])
  <2>1. /\ sets[c] \in Seq(Window) /\ now' = now /\ now \in Int /\ now > 0
        /\ SetsOf(c) /\ status[c] = "ACTIVE"
    BY <1>28 DEF TypeOK, SetsInv, Stop, Answer
  <2>2. sets'[c] = [sets[c] EXCEPT ![n].second = now] /\ status'[c] = "INACTIVE"
    BY <1>28 DEF TypeOK, Stop
  <2>3. n \in 1 .. n /\ sets[c][n] \in Window
    BY <2>1 DEF SetsOf
  <2>4. /\ sets'[c][n] = [sets[c][n] EXCEPT !.second = now] /\ Len(sets'[c]) = n
        /\ \A i \in 1 .. n : i # n => sets'[c][i] = sets[c][i]
    BY <2>1, <2>2, <2>3
  <2>5. sets'[c][n].first = sets[c][n].first /\ sets'[c][n].second = now
    BY <2>3, <2>4 DEF Window
  <2>6. SetsOf(c)'
    BY <2>1, <2>2, <2>3, <2>4, <2>5 DEF SetsOf
  <2>7. ASSUME NEW k \in Counters, k # c PROVE SetsOf(k)'
    BY <1>28, <2>7 DEF TypeOK, SetsInv, SetsOf, Stop, Answer
  <2> QED BY <2>6, <2>7 DEF SetsInv
<1>29. CASE Tick
  <2> SUFFICES ASSUME NEW k \in Counters PROVE SetsOf(k)'
    BY DEF SetsInv
  <2>1. sets[k] \in Seq(Window)
    BY DEF TypeOK
  <2>2. \A i \in 1 .. Len(sets[k]) : sets[k][i] \in Window
    BY <2>1
  <2>3. \A i \in 1 .. Len(sets[k]) : sets[k][i].first \in Int
    BY <2>2, ClientSessionAssumption DEF Window
  <2>4. now' = now + 1 /\ now \in Int /\ sets' = sets /\ status' = status
    BY <1>29 DEF TypeOK, Tick
  <2> QED BY <2>3, <2>4 DEF SetsInv, SetsOf
<1> QED BY <1>1, <1>2, <1>3, <1>4, <1>5, <1>6, <1>7, <1>8, <1>9, <1>10, <1>11,
       <1>12, <1>13, <1>14, <1>15, <1>16, <1>17, <1>18, <1>19, <1>20, <1>21, <1>22, <1>23,
       <1>24, <1>25, <1>26, <1>27, <1>28, <1>29, CreateCases, RejectCases
       DEF Next, Calls, Replies, Session, Query, CreatedTooLate, Refused,
           ConnectionLost,
           CannotConnect, RecvFails, ReadError, QueryLost

\* A get's reply stays true.
LEMMA DataStep ==
    TypeOK /\ CallInv /\ ChannelInv /\ DataInv /\ [Next]_vars => DataInv'
<1> SUFFICES ASSUME TypeOK, CallInv, ChannelInv, DataInv, [Next]_vars PROVE DataInv'
  OBVIOUS
<1> USE DEF call_vars, handle_vars, server_vars, channel_vars, query_vars
<1> USE ClientSessionAssumption
    DEF TypeOK, CallInv, ChannelInv, OneAtATime, InStep, DataInv
<1>1. CASE UNCHANGED vars
  BY <1>1 DEF vars
<1>2. ASSUME NEW c \in Counters, pm_create_counter(c) PROVE DataInv'
  BY <1>2 DEF pm_create_counter, Begin, CanCall
<1>3. ASSUME NEW c \in Counters, pm_start_counter(c) PROVE DataInv'
  BY <1>3 DEF pm_start_counter, Send, Begin, CanCall
<1>4. ASSUME NEW c \in Counters, pm_continue_counter(c) PROVE DataInv'
  BY <1>4 DEF pm_continue_counter, Send, Begin, CanCall, Room
<1>5. ASSUME NEW c \in Counters, pm_stop_counter(c) PROVE DataInv'
  BY <1>5 DEF pm_stop_counter, Send, Begin, CanCall, Room
<1>6. ASSUME NEW c \in Counters, pm_get_counter_data(c) PROVE DataInv'
  BY <1>6 DEF pm_get_counter_data, Send, Begin, CanCall
<1>7. ASSUME NEW c \in Counters, pm_finalize_counter(c) PROVE DataInv'
  BY <1>7 DEF pm_finalize_counter, Send, Begin, CanCall
<1>8. ASSUME NEW c \in Counters, Started(c) PROVE DataInv'
  BY <1>8 DEF Started, Read, Returned, FirstTiming
<1>9. ASSUME NEW c \in Counters, Continued(c) PROVE DataInv'
  BY <1>9 DEF Continued, Read, Returned
<1>10. ASSUME NEW c \in Counters, Stopped(c) PROVE DataInv'
  BY <1>10 DEF Stopped, Read, Returned
<1>11. ASSUME NEW c \in Counters, Got(c) PROVE DataInv'
  BY <1>11 DEF Got, Read, Returned
<1>12. ASSUME NEW c \in Counters, Finalized(c) PROVE DataInv'
  BY <1>12 DEF Finalized, Read, Returned
<1>13. ASSUME NEW c \in Counters, Created(c) PROVE DataInv'
  BY <1>13 DEF Created, Read
<1>14. ASSUME NEW c \in Counters, Start(c) PROVE DataInv'
  BY <1>14 DEF Start, Answer, OpenSet
<1>15. ASSUME NEW c \in Counters, Restart(c) PROVE DataInv'
  BY <1>15 DEF Restart, Answer, OpenSet
<1>16. ASSUME NEW c \in Counters, Stop(c) PROVE DataInv'
  BY <1>16 DEF Stop, Answer
<1>17. ASSUME NEW c \in Counters, Get(c) PROVE DataInv'
  BY <1>17, SMTT(30) DEF Get, Answer
<1>18. ASSUME NEW c \in Counters, Finalize(c) PROVE DataInv'
  BY <1>18 DEF Finalize, Answer
<1>19. ASSUME NEW c \in Counters, ReceiveFails(c) PROVE DataInv'
  BY <1>19 DEF ReceiveFails
<1>20. ASSUME NEW c \in Counters, NEW answer \in {"SUCCESS", "ERROR"}, Admit(c, answer)
       PROVE  DataInv'
  BY <1>20, SMTT(30) DEF Admit, Answer
<1>21. ASSUME NEW c \in Counters, NEW name \in Operations, Refuse(c, name)
       PROVE  DataInv'
  BY <1>21 DEF Refuse, Answer
<1>22. CASE Exit
  BY <1>22 DEF Exit, Forget
<1>23. CASE pm_get_device_info
  BY <1>23 DEF pm_get_device_info, Begin, CanCall
<1>24. CASE pm_get_devices
  BY <1>24 DEF pm_get_devices, Begin, CanCall
<1>25. CASE ReadField
  BY <1>25 DEF ReadField
<1>26. CASE QueryDone
  BY <1>26 DEF QueryDone, Returned, Forget
<1>27. CASE InfoRun
  BY <1>27 DEF InfoRun
<1>28. CASE ServerDies
  BY <1>28 DEF ServerDies
<1>29. CASE Tick
  BY <1>29 DEF Tick
<1> HIDE ClientSessionAssumption
    DEF TypeOK, CallInv, ChannelInv, OneAtATime, InStep, DataInv
<1> QED BY <1>1, <1>2, <1>3, <1>4, <1>5, <1>6, <1>7, <1>8, <1>9, <1>10, <1>11,
       <1>12, <1>13, <1>14, <1>15, <1>16, <1>17, <1>18, <1>19, <1>20, <1>21, <1>22, <1>23,
       <1>24, <1>25, <1>26, <1>27, <1>28, <1>29, CreateCases, RejectCases
       DEF Next, Calls, Replies, Session, Query, CreatedTooLate, Refused,
           ConnectionLost,
           CannotConnect, RecvFails, ReadError, QueryLost

\* No stamp is in the future.
LEMMA StampsStep == TypeOK /\ StampsInv /\ [Next]_vars => StampsInv'
<1> SUFFICES ASSUME TypeOK, StampsInv, [Next]_vars PROVE StampsInv'
  OBVIOUS
<1> USE DEF call_vars, handle_vars, server_vars, channel_vars, query_vars
<1> USE ClientSessionAssumption DEF TypeOK, StampsOK, StampsInv
<1>1. CASE UNCHANGED vars
  BY <1>1 DEF vars
<1>2. ASSUME NEW c \in Counters, pm_create_counter(c) PROVE StampsInv'
  BY <1>2 DEF pm_create_counter, Begin, CanCall
<1>3. ASSUME NEW c \in Counters, pm_start_counter(c) PROVE StampsInv'
  BY <1>3 DEF pm_start_counter, Send, Begin, CanCall
<1>4. ASSUME NEW c \in Counters, pm_continue_counter(c) PROVE StampsInv'
  BY <1>4 DEF pm_continue_counter, Send, Begin, CanCall, Room
<1>5. ASSUME NEW c \in Counters, pm_stop_counter(c) PROVE StampsInv'
  BY <1>5 DEF pm_stop_counter, Send, Begin, CanCall, Room
<1>6. ASSUME NEW c \in Counters, pm_get_counter_data(c) PROVE StampsInv'
  BY <1>6 DEF pm_get_counter_data, Send, Begin, CanCall
<1>7. ASSUME NEW c \in Counters, pm_finalize_counter(c) PROVE StampsInv'
  BY <1>7 DEF pm_finalize_counter, Send, Begin, CanCall
<1>8. ASSUME NEW c \in Counters, Started(c) PROVE StampsInv'
  BY <1>8 DEF Started, Read, Returned, FirstTiming
<1>9. ASSUME NEW c \in Counters, Continued(c) PROVE StampsInv'
  BY <1>9 DEF Continued, Read, Returned
<1>10. ASSUME NEW c \in Counters, Stopped(c) PROVE StampsInv'
  BY <1>10 DEF Stopped, Read, Returned
<1>11. ASSUME NEW c \in Counters, Got(c) PROVE StampsInv'
  BY <1>11 DEF Got, Read, Returned
<1>12. ASSUME NEW c \in Counters, Finalized(c) PROVE StampsInv'
  BY <1>12 DEF Finalized, Read, Returned
<1>13. ASSUME NEW c \in Counters, Created(c) PROVE StampsInv'
  BY <1>13 DEF Created, Read
<1>14. ASSUME NEW c \in Counters, Start(c) PROVE StampsInv'
  BY <1>14 DEF Start, Answer, OpenSet
<1>15. ASSUME NEW c \in Counters, Restart(c) PROVE StampsInv'
  BY <1>15 DEF Restart, Answer, OpenSet
<1>16. ASSUME NEW c \in Counters, Stop(c) PROVE StampsInv'
  BY <1>16 DEF Stop, Answer
<1>17. ASSUME NEW c \in Counters, Get(c) PROVE StampsInv'
  BY <1>17 DEF Get, Answer
<1>18. ASSUME NEW c \in Counters, Finalize(c) PROVE StampsInv'
  BY <1>18 DEF Finalize, Answer
<1>19. ASSUME NEW c \in Counters, ReceiveFails(c) PROVE StampsInv'
  BY <1>19 DEF ReceiveFails
<1>20. ASSUME NEW c \in Counters, NEW answer \in {"SUCCESS", "ERROR"}, Admit(c, answer)
       PROVE  StampsInv'
  BY <1>20 DEF Admit, Answer
<1>21. ASSUME NEW c \in Counters, NEW name \in Operations, Refuse(c, name)
       PROVE  StampsInv'
  BY <1>21 DEF Refuse, Answer
<1>22. CASE Exit
  BY <1>22 DEF Exit, Forget
<1>23. CASE pm_get_device_info
  BY <1>23 DEF pm_get_device_info, Begin, CanCall
<1>24. CASE pm_get_devices
  BY <1>24 DEF pm_get_devices, Begin, CanCall
<1>25. CASE ReadField
  BY <1>25 DEF ReadField
<1>26. CASE QueryDone
  BY <1>26 DEF QueryDone, Returned, Forget
<1>27. CASE InfoRun
  BY <1>27 DEF InfoRun
<1>28. CASE ServerDies
  BY <1>28 DEF ServerDies
<1>29. CASE Tick
  BY <1>29 DEF Tick
<1> HIDE ClientSessionAssumption DEF TypeOK, StampsOK, StampsInv
<1> QED BY <1>1, <1>2, <1>3, <1>4, <1>5, <1>6, <1>7, <1>8, <1>9, <1>10, <1>11,
       <1>12, <1>13, <1>14, <1>15, <1>16, <1>17, <1>18, <1>19, <1>20, <1>21, <1>22, <1>23,
       <1>24, <1>25, <1>26, <1>27, <1>28, <1>29, CreateCases, RejectCases
       DEF Next, Calls, Replies, Session, Query, CreatedTooLate, Refused,
           ConnectionLost,
           CannotConnect, RecvFails, ReadError, QueryLost

\* What the intervals of counter k consist of is left alone.
Same(k) ==
    /\ Alive(k) /\ Closed(k)' = Closed(k) /\ next_timing'[k] = next_timing[k]
    /\ sets'[k] = sets[k] /\ status'[k] = status[k] /\ timing'[k] = timing[k]
    /\ Stopping(k)' = Stopping(k)
    /\ Restarting(k)' = Restarting(k) /\ Resuming(k)' = Resuming(k)

\* The steps that do change it.
Changed(k) ==
    \/ pm_create_counter(k) \/ pm_stop_counter(k) \/ Started(k) \/ Continued(k)
    \/ Start(k) \/ Restart(k) \/ Stop(k)

\* A counter's intervals are changed by its own calls and session only.
LEMMA OnlyOwnSteps ==
    ASSUME TypeOK, CallInv, ChannelInv, CreateInv, [Next]_vars, NEW k \in Counters, Alive(k)'
    PROVE  Changed(k) \/ Same(k)
<1> USE DEF call_vars, handle_vars, server_vars, channel_vars, query_vars
<1> USE ClientSessionAssumption
    DEF TypeOK, StampsOK, CallInv, ChannelInv, OneAtATime, InStep, CreateInv,
        Same, Closed, Stopping, Restarting, Resuming, Waiting, Alive
<1>1. CASE UNCHANGED vars
  BY <1>1 DEF vars
<1>2. ASSUME NEW c \in Counters, pm_start_counter(c) PROVE Changed(k) \/ Same(k)
  BY <1>2 DEF pm_start_counter, Send, Begin, CanCall
<1>3. ASSUME NEW c \in Counters, pm_continue_counter(c) PROVE Changed(k) \/ Same(k)
  BY <1>3 DEF pm_continue_counter, Send, Begin, CanCall, Room
<1>4. ASSUME NEW c \in Counters, pm_get_counter_data(c) PROVE Changed(k) \/ Same(k)
  BY <1>4 DEF pm_get_counter_data, Send, Begin, CanCall
<1>5. ASSUME NEW c \in Counters, pm_finalize_counter(c) PROVE Changed(k) \/ Same(k)
  BY <1>5 DEF pm_finalize_counter, Send, Begin, CanCall
<1>6. ASSUME NEW c \in Counters, Stopped(c) PROVE Changed(k) \/ Same(k)
  BY <1>6 DEF Stopped, Read, Returned
<1>7. ASSUME NEW c \in Counters, Got(c) PROVE Changed(k) \/ Same(k)
  BY <1>7 DEF Got, Read, Returned
<1>8. ASSUME NEW c \in Counters, Finalized(c) PROVE Changed(k) \/ Same(k)
  BY <1>8 DEF Finalized, Read, Returned
<1>9. ASSUME NEW c \in Counters, Created(c) PROVE Changed(k) \/ Same(k)
  BY <1>9 DEF Created, Read
<1>10. ASSUME NEW c \in Counters, Get(c) PROVE Changed(k) \/ Same(k)
  BY <1>10 DEF Get, Answer
<1>11. ASSUME NEW c \in Counters, Finalize(c) PROVE Changed(k) \/ Same(k)
  BY <1>11 DEF Finalize, Answer
<1>12. ASSUME NEW c \in Counters, ReceiveFails(c) PROVE Changed(k) \/ Same(k)
  BY <1>12 DEF ReceiveFails
<1>13. ASSUME NEW c \in Counters, NEW answer \in {"SUCCESS", "ERROR"}, Admit(c, answer)
       PROVE  Changed(k) \/ Same(k)
  BY <1>13 DEF Admit, Answer
<1>14. CASE Exit
  BY <1>14 DEF Exit, Forget
<1>15. CASE pm_get_device_info
  BY <1>15 DEF pm_get_device_info, Begin, CanCall
<1>16. CASE pm_get_devices
  BY <1>16 DEF pm_get_devices, Begin, CanCall
<1>17. CASE ReadField
  BY <1>17 DEF ReadField
<1>18. CASE QueryDone
  BY <1>18 DEF QueryDone, Returned, Forget
<1>19. CASE InfoRun
  BY <1>19 DEF InfoRun
<1>20. CASE ServerDies
  BY <1>20 DEF ServerDies
<1>21. CASE Tick
  BY <1>21 DEF Tick
<1> HIDE ClientSessionAssumption
    DEF TypeOK, StampsOK, CallInv, ChannelInv, OneAtATime, InStep, CreateInv,
        Same, Closed, Stopping, Restarting, Resuming, Waiting, Alive
<1>22. ASSUME NEW c \in Counters, pm_create_counter(c) PROVE Changed(k) \/ Same(k)
  <2>1. CASE c = k
    BY <1>22, <2>1 DEF Changed
  <2>2. CASE c # k
    BY <1>22, <2>2, ClientSessionAssumption
       DEF TypeOK, StampsOK, CallInv, ChannelInv, OneAtATime, InStep, CreateInv, Same,
           Closed, Stopping, Restarting, Resuming, Waiting, Alive,
           pm_create_counter, Begin, CanCall
  <2> QED BY <2>1, <2>2
<1>23. ASSUME NEW c \in Counters, pm_stop_counter(c) PROVE Changed(k) \/ Same(k)
  <2>1. CASE c = k
    BY <1>23, <2>1 DEF Changed
  <2>2. CASE c # k
    BY <1>23, <2>2, ClientSessionAssumption
       DEF TypeOK, StampsOK, CallInv, ChannelInv, OneAtATime, InStep, CreateInv, Same,
           Closed, Stopping, Restarting, Resuming, Waiting, Alive,
           pm_stop_counter, Send, Begin, CanCall, Room
  <2> QED BY <2>1, <2>2
<1>24. ASSUME NEW c \in Counters, Started(c) PROVE Changed(k) \/ Same(k)
  <2>1. CASE c = k
    BY <1>24, <2>1 DEF Changed
  <2>2. CASE c # k
    BY <1>24, <2>2, ClientSessionAssumption
       DEF TypeOK, StampsOK, CallInv, ChannelInv, OneAtATime, InStep, CreateInv, Same,
           Closed, Stopping, Restarting, Resuming, Waiting, Alive,
           Started, Read, Returned, FirstTiming
  <2> QED BY <2>1, <2>2
<1>25. ASSUME NEW c \in Counters, Continued(c) PROVE Changed(k) \/ Same(k)
  <2>1. CASE c = k
    BY <1>25, <2>1 DEF Changed
  <2>2. CASE c # k
    BY <1>25, <2>2, ClientSessionAssumption
       DEF TypeOK, StampsOK, CallInv, ChannelInv, OneAtATime, InStep, CreateInv, Same,
           Closed, Stopping, Restarting, Resuming, Waiting, Alive,
           Continued, Read, Returned
  <2> QED BY <2>1, <2>2
<1>26. ASSUME NEW c \in Counters, Start(c) PROVE Changed(k) \/ Same(k)
  <2>1. CASE c = k
    BY <1>26, <2>1 DEF Changed
  <2>2. CASE c # k
    BY <1>26, <2>2, ClientSessionAssumption
       DEF TypeOK, StampsOK, CallInv, ChannelInv, OneAtATime, InStep, CreateInv, Same,
           Closed, Stopping, Restarting, Resuming, Waiting, Alive,
           Start, Answer, OpenSet
  <2> QED BY <2>1, <2>2
<1>27. ASSUME NEW c \in Counters, Restart(c) PROVE Changed(k) \/ Same(k)
  <2>1. CASE c = k
    BY <1>27, <2>1 DEF Changed
  <2>2. CASE c # k
    BY <1>27, <2>2, ClientSessionAssumption
       DEF TypeOK, StampsOK, CallInv, ChannelInv, OneAtATime, InStep, CreateInv, Same,
           Closed, Stopping, Restarting, Resuming, Waiting, Alive,
           Restart, Answer, OpenSet
  <2> QED BY <2>1, <2>2
<1>28. ASSUME NEW c \in Counters, Stop(c) PROVE Changed(k) \/ Same(k)
  <2>1. CASE c = k
    BY <1>28, <2>1 DEF Changed
  <2>2. CASE c # k
    BY <1>28, <2>2, ClientSessionAssumption
       DEF TypeOK, StampsOK, CallInv, ChannelInv, OneAtATime, InStep, CreateInv, Same,
           Closed, Stopping, Restarting, Resuming, Waiting, Alive,
           Stop, Answer
  <2> QED BY <2>1, <2>2
<1>29. ASSUME NEW c \in Counters, NEW name \in Operations, Refuse(c, name)
       PROVE  Changed(k) \/ Same(k)
  BY <1>29, ClientSessionAssumption
     DEF Operations, TypeOK, StampsOK, CallInv, ChannelInv, OneAtATime, InStep,
         CreateInv, Same, Closed, Stopping, Restarting, Resuming, Waiting, Alive,
         Refuse, Answer
<1> QED BY <1>1, <1>2, <1>3, <1>4, <1>5, <1>6, <1>7, <1>8, <1>9, <1>10, <1>11,
       <1>12, <1>13, <1>14, <1>15, <1>16, <1>17, <1>18, <1>19, <1>20, <1>21, <1>22, <1>23,
       <1>24, <1>25, <1>26, <1>27, <1>28, <1>29, CreateCases, RejectCases
       DEF Next, Calls, Replies, Session, Query, CreatedTooLate, Refused,
           ConnectionLost,
           CannotConnect, RecvFails, ReadError, QueryLost

\* The types of what the intervals of a counter consist of.
LEMMA IntervalTypes ==
    ASSUME TypeOK, NEW k \in Counters
    PROVE  /\ next_timing[k] \in Nat /\ sets[k] \in Seq(Window) /\ Len(sets[k]) \in Nat
           /\ status[k] \in {"INACTIVE", "ACTIVE"} /\ now \in Int
           /\ \A i \in 1 .. Len(sets[k]) : sets[k][i] \in Window
           /\ \A i \in 1 .. Len(sets[k]) : sets[k][i].first \in Int /\ sets[k][i].second \in Int
           /\ \A n \in Nat : n <= next_timing[k] => 2 * n \in Index(k) /\ 2 * n + 1 \in Index(k)
           /\ timing[k] \in [Index(k) -> Int]
<1>1. /\ next_timing[k] \in Nat /\ next_timing[k] <= MaxIntervals[k]
      /\ timing[k] \in [Index(k) -> 0 .. MaxTime]
  BY DEF TypeOK, StampsOK
<1>2. sets[k] \in Seq(Window) /\ status[k] \in {"INACTIVE", "ACTIVE"} /\ now \in Int
  BY DEF TypeOK
<1>3. \A i \in 1 .. Len(sets[k]) : sets[k][i] \in Window
  BY <1>2
<1>4. \A i \in 1 .. Len(sets[k]) : sets[k][i].first \in Int /\ sets[k][i].second \in Int
  BY <1>3, ClientSessionAssumption DEF Window
<1>5. \A n \in Nat : n <= next_timing[k] => 2 * n \in Index(k) /\ 2 * n + 1 \in Index(k)
  BY <1>1, IndexOfInterval, ClientSessionAssumption
<1>6. timing[k] \in [Index(k) -> Int]
  BY <1>1, ClientSessionAssumption
<1> QED BY <1>1, <1>2, <1>3, <1>4, <1>5, <1>6

\* A session answers the call that its client is in, unless that has exited.
LEMMA AnswerIsAwaited ==
    ASSUME TypeOK, ChannelInv, NEW k \in Counters, Alive(k)', NEW name \in Operations,
           NEW answer, Answer(k, name, answer)
    PROVE  /\ Alive(k) /\ Waiting(k, name) /\ Waiting(k, name)'
           /\ next_timing' = next_timing /\ timing' = timing /\ now' = now
           /\ reply[k] = "none" /\ reply'[k] = answer
  BY
     DEF Answer, Alive, Waiting, ChannelInv, InStep, TypeOK, Operations, call_vars,
         handle_vars

\* The client's count of intervals keeps up with the session's sets.
LEMMA CountStep ==
    TypeOK /\ CallInv /\ ChannelInv /\ CreateInv /\ CountInv /\ [Next]_vars => CountInv'
<1> SUFFICES ASSUME TypeOK, CallInv, ChannelInv, CreateInv, CountInv, [Next]_vars,
                    NEW k \in Counters, Alive(k)'
             PROVE  CountOf(k)'
  BY DEF CountInv
<1> USE DEF CountOf, Closed, Stopping, Restarting, Waiting
<1>1. /\ next_timing[k] \in Nat /\ sets[k] \in Seq(Window) /\ Len(sets[k]) \in Nat
      /\ status[k] \in {"INACTIVE", "ACTIVE"}
  BY IntervalTypes
<1>2. CASE Same(k)
  BY <1>2 DEF Same, CountInv
<1>3. CASE pm_create_counter(k)
  <2>1. next_timing'[k] = 0 /\ sets'[k] = <<>> /\ status'[k] = "INACTIVE" /\ op' = "CREATE"
    BY <1>3 DEF pm_create_counter, Begin, CreateInv, Blank
  <2> QED BY <2>1
<1>4. CASE pm_stop_counter(k)
  <2>1. /\ stage = "idle" /\ Alive(k) /\ reply'[k] = "none"
        /\ next_timing'[k] = next_timing[k] + 1 /\ sets'[k] = sets[k] /\ status'[k] = status[k]
        /\ op' = "STOP" /\ on' = k /\ stage' = "wait"
    BY <1>4
       DEF pm_stop_counter, Send, Begin, CanCall, Alive, ChannelInv, InStep, TypeOK,
           StampsOK,
                server_vars
  <2> QED BY <1>1, <2>1 DEF CountInv
<1>5. CASE Started(k)
  <2>1. /\ Alive(k) /\ stage = "wait" /\ on = k /\ op = "START" /\ reply[k] = "SUCCESS"
        /\ next_timing'[k] = 0 /\ sets'[k] = sets[k] /\ status'[k] = status[k] /\ stage' = "idle"
    BY <1>5
       DEF Started, Read, Returned, Alive, FirstTiming, TypeOK, StampsOK, server_vars
  <2> QED BY <1>1, <2>1 DEF CountInv
<1>6. CASE Continued(k)
  <2>1. /\ Alive(k) /\ stage = "wait" /\ on = k /\ op = "CONTINUE" /\ stage' = "idle"
        /\ next_timing'[k] = next_timing[k] /\ sets'[k] = sets[k] /\ status'[k] = status[k]
    BY <1>6 DEF Continued, Read, Returned, Alive, server_vars
  <2> QED BY <1>1, <2>1 DEF CountInv
<1>7. CASE Start(k)
  <2>1. /\ Waiting(k, "START") /\ Waiting(k, "START")' /\ reply'[k] = "SUCCESS"
        /\ next_timing'[k] = next_timing[k]
    BY <1>7, AnswerIsAwaited DEF Start, Operations
  <2>2. sets'[k] = <<OpenSet>> /\ status'[k] = "ACTIVE"
    BY <1>7 DEF Start, TypeOK
  <2> QED BY <1>1, <2>1, <2>2
<1>8. CASE Restart(k)
  <2>1. /\ Waiting(k, "CONTINUE") /\ Waiting(k, "CONTINUE")' /\ reply'[k] = "SUCCESS" /\ Alive(k)
        /\ next_timing'[k] = next_timing[k]
    BY <1>8, AnswerIsAwaited DEF Restart, Operations
  <2>2. Len(sets'[k]) = Len(sets[k]) + 1 /\ status[k] = "INACTIVE" /\ status'[k] = "ACTIVE"
    BY <1>1, <1>8 DEF Restart, TypeOK
  <2> QED BY <1>1, <2>1, <2>2 DEF CountInv
<1>9. CASE Stop(k)
  <2>1. /\ Waiting(k, "STOP") /\ Waiting(k, "STOP")' /\ reply[k] = "none" /\ reply'[k] = "SUCCESS"
        /\ Alive(k) /\ next_timing'[k] = next_timing[k]
    BY <1>9, AnswerIsAwaited DEF Stop, Operations
  <2>2. Len(sets'[k]) = Len(sets[k]) /\ status[k] = "ACTIVE" /\ status'[k] = "INACTIVE"
    BY <1>1, <1>9 DEF Stop, TypeOK
  <2> QED BY <1>1, <2>1, <2>2 DEF CountInv
<1> QED BY <1>2, <1>3, <1>4, <1>5, <1>6, <1>7, <1>8, <1>9, OnlyOwnSteps DEF Changed

\* A stamp changes one element of timing and no other.
LEMMA Stamped ==
    ASSUME TypeOK, NEW k \in Counters, NEW j \in Index(k),
           timing' = [timing EXCEPT ![k][j] = now]
    PROVE  /\ timing'[k][j] = now
           /\ \A i \in Index(k) : i # j => timing'[k][i] = timing[k][i]
<1>1. k \in DOMAIN timing /\ timing[k] \in [Index(k) -> 0 .. MaxTime]
  BY DEF TypeOK, StampsOK
<1> QED BY <1>1

\* An interval that was within its set stays so: neither changes any more.
LEMMA ClosedStep ==
    /\ TypeOK /\ CallInv /\ ChannelInv /\ CreateInv /\ CountInv /\ SetsInv
    /\ ClosedInv /\ OpenInv /\ StampsInv /\ [Next]_vars
    => ClosedInv'
<1> SUFFICES ASSUME TypeOK, CallInv, ChannelInv, CreateInv, CountInv, SetsInv,
                    ClosedInv, OpenInv, StampsInv, [Next]_vars,
                    NEW k \in Counters, Alive(k)', NEW i \in 1 .. Closed(k)'
             PROVE  Within(k, i)'
  BY DEF ClosedInv
<1> DEFINE n == next_timing[k]
<1>1. n \in Nat /\ sets[k] \in Seq(Window) /\ Len(sets[k]) \in Nat /\ now \in Int
  BY IntervalTypes
<1>2. CASE Same(k)
  <2>1. Alive(k) /\ Closed(k)' = Closed(k) /\ sets'[k] = sets[k] /\ timing'[k] = timing[k]
    BY <1>2 DEF Same
  <2>2. Within(k, i)
    BY <2>1 DEF ClosedInv
  <2> QED BY <2>1, <2>2 DEF Within, IntervalStart, IntervalStop
<1>3. CASE pm_create_counter(k)
  <2>1. next_timing'[k] = 0 /\ op' = "CREATE"
    BY <1>3 DEF pm_create_counter, Begin, CreateInv
  <2> QED BY <2>1 DEF Closed, Stopping, Restarting, Waiting
<1>4. CASE pm_stop_counter(k)
  <2>1. /\ stage = "idle" /\ Alive(k) /\ reply'[k] = "none"
        /\ next_timing'[k] = n + 1 /\ sets'[k] = sets[k]
        /\ op' = "STOP" /\ on' = k /\ stage' = "wait"
    BY <1>4
       DEF pm_stop_counter, Send, Begin, CanCall, Alive, ChannelInv, InStep, TypeOK,
           StampsOK,
                server_vars
  <2>2. Closed(k) = n /\ Closed(k)' = n
    BY <1>1, <2>1 DEF Closed, Stopping, Restarting, Waiting
  <2>3. i \in 1 .. n /\ Within(k, i)
    BY <2>1, <2>2 DEF ClosedInv
  <2>4. 2 * (i - 1) \in Index(k) /\ 2 * (i - 1) + 1 \in Index(k) /\ 2 * n + 1 \in Index(k)
    <3>1. i - 1 \in Nat /\ i - 1 <= n /\ n <= n
      BY <1>1, <2>3
    <3> QED BY <1>1, <3>1, IntervalTypes
  <2>5. timing'[k][2 * (i - 1)] = timing[k][2 * (i - 1)]
        /\ timing'[k][2 * (i - 1) + 1] = timing[k][2 * (i - 1) + 1]
    BY <1>1, <1>4, <2>3, <2>4, Stamped DEF pm_stop_counter
  <2> QED BY <2>1, <2>3, <2>5 DEF Within, IntervalStart, IntervalStop
<1>5. CASE Started(k)
  <2>1. next_timing'[k] = 0 /\ stage' = "idle"
    BY <1>5 DEF Started, Returned, FirstTiming, TypeOK, StampsOK
  <2> QED BY <2>1 DEF Closed, Stopping, Restarting, Waiting
<1>6. CASE Continued(k)
  <2>1. /\ Alive(k) /\ stage = "wait" /\ on = k /\ op = "CONTINUE" /\ stage' = "idle"
        /\ next_timing'[k] = n /\ sets'[k] = sets[k]
    BY <1>6 DEF Continued, Read, Returned, Alive, server_vars
  <2>2. Closed(k) = n /\ Closed(k)' = n
    BY <2>1 DEF Closed, Stopping, Restarting, Waiting
  <2>3. i \in 1 .. n /\ Within(k, i)
    BY <2>1, <2>2 DEF ClosedInv
  <2>4. 2 * (i - 1) \in Index(k) /\ 2 * (i - 1) + 1 \in Index(k) /\ 2 * n \in Index(k)
    <3>1. i - 1 \in Nat /\ i - 1 <= n /\ n <= n
      BY <1>1, <2>3
    <3> QED BY <1>1, <3>1, IntervalTypes
  <2>5. timing'[k][2 * (i - 1)] = timing[k][2 * (i - 1)]
        /\ timing'[k][2 * (i - 1) + 1] = timing[k][2 * (i - 1) + 1]
    BY <1>1, <1>6, <2>3, <2>4, Stamped DEF Continued
  <2> QED BY <2>1, <2>3, <2>5 DEF Within, IntervalStart, IntervalStop
<1>7. CASE Start(k)
  <2>1. Waiting(k, "START")' /\ reply'[k] = "SUCCESS"
    BY <1>7, AnswerIsAwaited DEF Start, Operations
  <2> QED BY <2>1 DEF Closed, Stopping, Restarting, Waiting
<1>8. CASE Restart(k)
  <2>1. /\ Waiting(k, "CONTINUE") /\ Waiting(k, "CONTINUE")' /\ Alive(k)
        /\ next_timing'[k] = n /\ timing'[k] = timing[k]
    BY <1>8, AnswerIsAwaited DEF Restart, Operations
  <2>2. Closed(k) = n /\ Closed(k)' = n
    BY <2>1 DEF Closed, Stopping, Restarting, Waiting
  <2>3. i \in 1 .. n /\ Within(k, i)
    BY <2>1, <2>2 DEF ClosedInv
  <2>4. Len(sets[k]) = n
    BY <1>1, <1>8, <2>1, <2>2 DEF CountInv, CountOf, Restart
  <2>5. sets'[k] = Append(sets[k], OpenSet)
    BY <1>8 DEF Restart, TypeOK
  <2>6. sets'[k][i] = sets[k][i]
    BY <1>1, <2>3, <2>4, <2>5
  <2> QED BY <2>1, <2>3, <2>6 DEF Within, IntervalStart, IntervalStop
<1>9. CASE Stop(k)
  <2>1. /\ Waiting(k, "STOP") /\ Waiting(k, "STOP")' /\ reply[k] = "none" /\ reply'[k] = "SUCCESS"
        /\ Alive(k) /\ next_timing'[k] = n /\ timing'[k] = timing[k]
    BY <1>9, AnswerIsAwaited DEF Stop, Operations
  <2>2. Stopping(k) /\ ~Restarting(k) /\ ~Resuming(k) /\ Closed(k) = n - 1 /\ Closed(k)' = n
    BY <2>1 DEF Closed, Stopping, Restarting, Resuming, Waiting
  <2>3. status[k] = "ACTIVE" /\ Len(sets[k]) = n /\ n > 0
    BY <1>1, <1>9, <2>1, <2>2 DEF CountInv, CountOf, Stop
  <2>4. sets'[k] = [sets[k] EXCEPT ![n].second = now]
    BY <1>9, <2>3 DEF Stop, TypeOK
  <2>5. CASE i # n
    <3>1. i \in 1 .. n - 1 /\ Within(k, i) /\ sets'[k][i] = sets[k][i]
      BY <1>1, <2>1, <2>2, <2>3, <2>4, <2>5 DEF ClosedInv
    <3> QED BY <2>1, <3>1 DEF Within, IntervalStart, IntervalStop
  <2>6. CASE i = n
    <3>1. n \in 1 .. Len(sets[k]) /\ sets[k][n] \in Window
      BY <1>1, <2>3, IntervalTypes
    <3>2. sets'[k][n].first = sets[k][n].first /\ sets'[k][n].second = now
      BY <1>1, <2>4, <3>1 DEF Window
    <3>3. /\ sets[k][n].first <= IntervalStart(k, n)
          /\ IntervalStart(k, n) <= IntervalStop(k, n)
      BY <2>1, <2>2, <2>3 DEF OpenInv, OpenOf
    <3>4. 2 * (n - 1) + 1 \in Index(k)
      BY <1>1, <2>3, IntervalTypes
    <3>5. IntervalStop(k, n) <= now
      BY <3>4 DEF StampsInv, IntervalStop
    <3> QED BY <2>1, <2>6, <3>2, <3>3, <3>5 DEF Within, IntervalStart, IntervalStop
  <2> QED BY <2>5, <2>6
<1> QED BY <1>2, <1>3, <1>4, <1>5, <1>6, <1>7, <1>8, <1>9, OnlyOwnSteps DEF Changed

\* The interval in progress stays within the set in progress.
LEMMA OpenStep ==
    /\ TypeOK /\ CallInv /\ ChannelInv /\ CreateInv /\ CountInv /\ SetsInv
    /\ OpenInv /\ StampsInv /\ [Next]_vars
    => OpenInv'
<1> SUFFICES ASSUME TypeOK, CallInv, ChannelInv, CreateInv, CountInv, SetsInv,
                    OpenInv, StampsInv, [Next]_vars,
                    NEW k \in Counters, Alive(k)', status'[k] = "ACTIVE"
             PROVE  OpenOf(k)'
  BY DEF OpenInv
<1> DEFINE n == next_timing[k]
<1>1. n \in Nat /\ sets[k] \in Seq(Window) /\ Len(sets[k]) \in Nat /\ now \in Int
  BY IntervalTypes
<1>2. CASE Same(k)
  <2>1. /\ Alive(k) /\ sets'[k] = sets[k] /\ timing'[k] = timing[k] /\ status[k] = "ACTIVE"
        /\ Stopping(k)' = Stopping(k)
        /\ Restarting(k)' = Restarting(k) /\ Resuming(k)' = Resuming(k)
    BY <1>2 DEF Same
  <2>2. OpenOf(k)
    BY <2>1 DEF OpenInv
  <2> QED BY <2>1, <2>2 DEF OpenOf, IntervalStart, IntervalStop
<1>3. CASE pm_create_counter(k)
  BY <1>3 DEF pm_create_counter, CreateInv, Blank
<1>4. CASE pm_stop_counter(k)
  <2>1. /\ stage = "idle" /\ Alive(k) /\ sets'[k] = sets[k] /\ status[k] = "ACTIVE"
        /\ op' = "STOP" /\ on' = k /\ stage' = "wait"
    BY <1>4 DEF pm_stop_counter, Send, Begin, CanCall, Alive, server_vars
  <2>2. Closed(k) = n /\ ~Restarting(k) /\ ~Resuming(k)
    BY <1>1, <2>1 DEF Closed, Stopping, Restarting, Resuming, Waiting
  <2>3. Len(sets[k]) = n + 1 /\ sets[k][n + 1].first <= IntervalStart(k, n + 1)
    BY <1>1, <2>1, <2>2 DEF CountInv, CountOf, OpenInv, OpenOf
  <2>4. 2 * n \in Index(k) /\ 2 * n + 1 \in Index(k)
    BY <1>1, IntervalTypes
  <2>5. timing'[k][2 * n] = timing[k][2 * n] /\ timing'[k][2 * n + 1] = now
    <3>1. timing' = [timing EXCEPT ![k][2 * n + 1] = now] /\ 2 * n # 2 * n + 1
      BY <1>1, <1>4 DEF pm_stop_counter
    <3> QED BY <2>4, <3>1, Stamped
  <2>6. timing[k][2 * n] <= now
    BY <2>4 DEF StampsInv
  <2>7. 2 * ((n + 1) - 1) = 2 * n
    BY <1>1
  <2> QED BY <2>1, <2>3, <2>5, <2>6, <2>7 DEF OpenOf, IntervalStart, IntervalStop
<1>5. CASE Started(k)
  <2>1. /\ Alive(k) /\ Restarting(k) /\ sets'[k] = sets[k] /\ status[k] = "ACTIVE"
        /\ stage' = "idle"
    BY <1>5 DEF Started, Read, Returned, Alive, Restarting, Waiting, server_vars
  <2>2. Len(sets[k]) = 1 /\ sets[k][1].first <= now
    <3>1. Closed(k) = 0
      BY <2>1 DEF Closed, Stopping, Restarting, Waiting
    <3>2. Len(sets[k]) = 1
      <4>1. CountOf(k)
        BY <2>1 DEF CountInv
      <4> QED BY <2>1, <3>1, <4>1 DEF CountOf
    <3> QED BY <3>2 DEF SetsInv, SetsOf
  <2>3. 2 * 0 \in Index(k)
    BY <1>1, IntervalTypes
  <2>4. timing'[k][2 * 0] = now
    BY <1>5, <2>3, Stamped DEF Started, FirstTiming
  <2> QED BY <2>1, <2>2, <2>4 DEF OpenOf, IntervalStart, Stopping, Waiting
<1>6. CASE Continued(k)
  <2>1. /\ Alive(k) /\ stage = "wait" /\ on = k /\ op = "CONTINUE" /\ stage' = "idle"
        /\ sets'[k] = sets[k] /\ status[k] = "ACTIVE"
    BY <1>6 DEF Continued, Read, Returned, Alive, server_vars
  <2>2. Len(sets[k]) = n + 1
    BY <1>1, <2>1 DEF CountInv, CountOf, Closed, Stopping, Restarting, Waiting
  <2>3. sets[k][n + 1].first <= now
    BY <1>1, <2>2 DEF SetsInv, SetsOf
  <2>4. 2 * n \in Index(k)
    BY <1>1, IntervalTypes
  <2>5. timing'[k][2 * n] = now /\ 2 * ((n + 1) - 1) = 2 * n
    <3>1. timing' = [timing EXCEPT ![k][2 * n] = now] /\ 2 * ((n + 1) - 1) = 2 * n
      BY <1>1, <1>6 DEF Continued
    <3> QED BY <2>4, <3>1, Stamped
  <2> QED BY <2>1, <2>2, <2>3, <2>5 DEF OpenOf, IntervalStart, Stopping, Waiting
<1>7. CASE Start(k)
  <2>1. Waiting(k, "START")' /\ reply'[k] = "SUCCESS"
    BY <1>7, AnswerIsAwaited DEF Start, Operations
  <2> QED BY <2>1 DEF OpenOf, Stopping, Restarting, Waiting
<1>8. CASE Restart(k)
  <2>1. Waiting(k, "CONTINUE")' /\ reply'[k] = "SUCCESS"
    BY <1>8, AnswerIsAwaited DEF Restart, Operations
  <2> QED BY <2>1 DEF OpenOf, Stopping, Resuming, Waiting
<1>9. CASE Stop(k)
  BY <1>9 DEF Stop, TypeOK
<1> QED BY <1>2, <1>3, <1>4, <1>5, <1>6, <1>7, <1>8, <1>9, OnlyOwnSteps DEF Changed

(***************************************************************************)
(* A query whose fields have all been read has the answer: the list of all *)
(* devices, or what the device that was asked about is.                    *)
(***************************************************************************)
LEMMA QueryResult ==
    ASSUME TypeOK, QueryInv, stage = "query", Len(got) = Expected(got)
    PROVE  IF op = "LIST_DEVICES" THEN got[1] = NDevices /\ \A d \in Devices : got[2 * d + 1] = d
           ELSE got[2] = get_num_lines(asked) /\ got[4] = asked
<1>1. got \in Seq(Int) /\ wire \in Seq(Int) /\ Len(got) \in Nat /\ Len(wire) \in Nat
  BY DEF TypeOK
<1>2. got # <<>>
  <2> SUFFICES ASSUME got = <<>> PROVE Len(got) # Expected(got)
    OBVIOUS
  <2>1. Len(got) = 0
    OBVIOUS
  <2>2. Expected(got) \in {1, 4}
    BY DEF Expected
  <2> QED BY <2>1, <2>2
<1>3. /\ Len(got) <= Len(Fields) /\ Len(got) > 0 /\ Len(Fields) \in Nat
      /\ \A i \in 1 .. Len(got) : got[i] = Fields[i]
  BY <1>1, <1>2, FieldsType DEF QueryInv
<1>4. CASE op = "LIST_DEVICES"
  <2>1. Fields = list_devices /\ got[1] = NDevices
    BY <1>3, <1>4, ListFields DEF Fields
  <2>2. Len(got) = 1 + 2 * NDevices
    BY <1>2, <1>4, <2>1 DEF Expected
  <2>3. ASSUME NEW d \in Devices PROVE 2 * d + 1 \in 1 .. Len(got)
    BY <2>2, ClientSessionAssumption DEF Devices
  <2> QED BY <1>3, <1>4, <2>1, <2>3, ListFields
<1>5. CASE op # "LIST_DEVICES"
  <2>1. Fields = info_device(asked) /\ Len(got) = 4
    BY <1>5 DEF Fields, Expected
  <2>2. Len(Fields) = 4
    BY <1>3, <2>1, InfoFields DEF TypeOK
  <2>3. Fields[2] = get_num_lines(asked) /\ Fields[4] = asked
    BY <2>1, <2>2, InfoFields DEF TypeOK
  <2> QED BY <1>3, <1>5, <2>1, <2>3
<1> QED BY <1>4, <1>5

\* A counter that can be used knows the lines of its own device.
LEMMA LinesStep ==
    TypeOK /\ CallInv /\ QueryInv /\ LinesInv /\ [Next]_vars => LinesInv'
<1> SUFFICES ASSUME TypeOK, CallInv, QueryInv, LinesInv, [Next]_vars PROVE LinesInv'
  OBVIOUS
<1> USE DEF call_vars, handle_vars, server_vars, channel_vars, query_vars
<1> USE ClientSessionAssumption DEF TypeOK, CallInv, LinesInv, Alive
<1>1. CASE UNCHANGED vars
  BY <1>1 DEF vars
<1>2. ASSUME NEW c \in Counters, pm_create_counter(c) PROVE LinesInv'
  BY <1>2 DEF pm_create_counter, Begin, CanCall
<1>3. ASSUME NEW c \in Counters, pm_start_counter(c) PROVE LinesInv'
  BY <1>3 DEF pm_start_counter, Send, Begin, CanCall
<1>4. ASSUME NEW c \in Counters, pm_continue_counter(c) PROVE LinesInv'
  BY <1>4 DEF pm_continue_counter, Send, Begin, CanCall, Room
<1>5. ASSUME NEW c \in Counters, pm_stop_counter(c) PROVE LinesInv'
  BY <1>5 DEF pm_stop_counter, Send, Begin, CanCall, Room
<1>6. ASSUME NEW c \in Counters, pm_get_counter_data(c) PROVE LinesInv'
  BY <1>6 DEF pm_get_counter_data, Send, Begin, CanCall
<1>7. ASSUME NEW c \in Counters, pm_finalize_counter(c) PROVE LinesInv'
  BY <1>7 DEF pm_finalize_counter, Send, Begin, CanCall
<1>8. ASSUME NEW c \in Counters, Started(c) PROVE LinesInv'
  BY <1>8 DEF Started, Read, Returned, FirstTiming
<1>9. ASSUME NEW c \in Counters, Continued(c) PROVE LinesInv'
  BY <1>9 DEF Continued, Read, Returned
<1>10. ASSUME NEW c \in Counters, Stopped(c) PROVE LinesInv'
  BY <1>10 DEF Stopped, Read, Returned
<1>11. ASSUME NEW c \in Counters, Got(c) PROVE LinesInv'
  BY <1>11 DEF Got, Read, Returned
<1>12. ASSUME NEW c \in Counters, Finalized(c) PROVE LinesInv'
  BY <1>12 DEF Finalized, Read, Returned
<1>13. ASSUME NEW c \in Counters, Created(c) PROVE LinesInv'
  BY <1>13 DEF Created, Read
<1>14. ASSUME NEW c \in Counters, Start(c) PROVE LinesInv'
  BY <1>14 DEF Start, Answer, OpenSet
<1>15. ASSUME NEW c \in Counters, Restart(c) PROVE LinesInv'
  BY <1>15 DEF Restart, Answer, OpenSet
<1>16. ASSUME NEW c \in Counters, Stop(c) PROVE LinesInv'
  BY <1>16 DEF Stop, Answer
<1>17. ASSUME NEW c \in Counters, Get(c) PROVE LinesInv'
  BY <1>17 DEF Get, Answer
<1>18. ASSUME NEW c \in Counters, Finalize(c) PROVE LinesInv'
  BY <1>18 DEF Finalize, Answer
<1>19. ASSUME NEW c \in Counters, ReceiveFails(c) PROVE LinesInv'
  BY <1>19 DEF ReceiveFails
<1>20. ASSUME NEW c \in Counters, NEW answer \in {"SUCCESS", "ERROR"}, Admit(c, answer)
       PROVE  LinesInv'
  BY <1>20 DEF Admit, Answer
<1>21. ASSUME NEW c \in Counters, NEW name \in Operations, Refuse(c, name)
       PROVE  LinesInv'
  BY <1>21 DEF Refuse, Answer
<1>22. CASE Exit
  BY <1>22 DEF Exit, Forget
<1>23. CASE pm_get_device_info
  BY <1>23 DEF pm_get_device_info, Begin, CanCall
<1>24. CASE pm_get_devices
  BY <1>24 DEF pm_get_devices, Begin, CanCall
<1>25. CASE ReadField
  BY <1>25 DEF ReadField
<1>26. CASE InfoRun
  BY <1>26 DEF InfoRun
<1>27. CASE ServerDies
  BY <1>27 DEF ServerDies
<1>28. CASE Tick
  BY <1>28 DEF Tick
<1> HIDE ClientSessionAssumption DEF TypeOK, CallInv, LinesInv, Alive
<1>29. CASE QueryDone
  <2>1. CASE op = "CREATE"
    <3>1. /\ on \in Counters /\ asked = dev[on] /\ got[2] = get_num_lines(asked)
          /\ num_lines' = [num_lines EXCEPT ![on] = got[2]]
      BY <1>29, <2>1, QueryResult DEF CallInv, QueryDone
    <3>2. num_lines'[on] = get_num_lines(dev[on])
      BY <3>1 DEF TypeOK
    <3>3. ASSUME NEW k \in Counters, k # on PROVE num_lines'[k] = num_lines[k]
      BY <3>1, <3>3 DEF TypeOK
    <3> QED BY <1>29, <2>1, <3>2, <3>3 DEF LinesInv, Alive, QueryDone, Returned
  <2>2. CASE op # "CREATE"
    BY <1>29, <2>2 DEF LinesInv, Alive, QueryDone, Returned
  <2> QED BY <2>1, <2>2
<1> QED BY <1>1, <1>2, <1>3, <1>4, <1>5, <1>6, <1>7, <1>8, <1>9, <1>10, <1>11,
       <1>12, <1>13, <1>14, <1>15, <1>16, <1>17, <1>18, <1>19, <1>20, <1>21, <1>22, <1>23,
       <1>24, <1>25, <1>26, <1>27, <1>28, <1>29, CreateCases, RejectCases
       DEF Next, Calls, Replies, Session, Query, CreatedTooLate, Refused,
           ConnectionLost,
           CannotConnect, RecvFails, ReadError, QueryLost

\* What is read of an answer is its beginning.
LEMMA QueryStep == TypeOK /\ CallInv /\ QueryInv /\ [Next]_vars => QueryInv'
<1> SUFFICES ASSUME TypeOK, CallInv, QueryInv, [Next]_vars PROVE QueryInv'
  OBVIOUS
<1> USE DEF call_vars, handle_vars, server_vars, channel_vars, query_vars
<1> USE ClientSessionAssumption DEF TypeOK, CallInv, QueryInv, Fields
<1>1. CASE UNCHANGED vars
  BY <1>1 DEF vars
<1>2. ASSUME NEW c \in Counters, pm_create_counter(c) PROVE QueryInv'
  BY <1>2 DEF pm_create_counter, Begin, CanCall
<1>3. ASSUME NEW c \in Counters, pm_start_counter(c) PROVE QueryInv'
  BY <1>3 DEF pm_start_counter, Send, Begin, CanCall
<1>4. ASSUME NEW c \in Counters, pm_continue_counter(c) PROVE QueryInv'
  BY <1>4 DEF pm_continue_counter, Send, Begin, CanCall, Room
<1>5. ASSUME NEW c \in Counters, pm_stop_counter(c) PROVE QueryInv'
  BY <1>5 DEF pm_stop_counter, Send, Begin, CanCall, Room
<1>6. ASSUME NEW c \in Counters, pm_get_counter_data(c) PROVE QueryInv'
  BY <1>6 DEF pm_get_counter_data, Send, Begin, CanCall
<1>7. ASSUME NEW c \in Counters, pm_finalize_counter(c) PROVE QueryInv'
  BY <1>7 DEF pm_finalize_counter, Send, Begin, CanCall
<1>8. ASSUME NEW c \in Counters, Started(c) PROVE QueryInv'
  BY <1>8 DEF Started, Read, Returned, FirstTiming
<1>9. ASSUME NEW c \in Counters, Continued(c) PROVE QueryInv'
  BY <1>9 DEF Continued, Read, Returned
<1>10. ASSUME NEW c \in Counters, Stopped(c) PROVE QueryInv'
  BY <1>10 DEF Stopped, Read, Returned
<1>11. ASSUME NEW c \in Counters, Got(c) PROVE QueryInv'
  BY <1>11 DEF Got, Read, Returned
<1>12. ASSUME NEW c \in Counters, Finalized(c) PROVE QueryInv'
  BY <1>12 DEF Finalized, Read, Returned
<1>13. ASSUME NEW c \in Counters, Created(c) PROVE QueryInv'
  BY <1>13 DEF Created, Read
<1>14. ASSUME NEW c \in Counters, Start(c) PROVE QueryInv'
  BY <1>14 DEF Start, Answer, OpenSet
<1>15. ASSUME NEW c \in Counters, Restart(c) PROVE QueryInv'
  BY <1>15 DEF Restart, Answer, OpenSet
<1>16. ASSUME NEW c \in Counters, Stop(c) PROVE QueryInv'
  BY <1>16 DEF Stop, Answer
<1>17. ASSUME NEW c \in Counters, Get(c) PROVE QueryInv'
  BY <1>17 DEF Get, Answer
<1>18. ASSUME NEW c \in Counters, Finalize(c) PROVE QueryInv'
  BY <1>18 DEF Finalize, Answer
<1>19. ASSUME NEW c \in Counters, ReceiveFails(c) PROVE QueryInv'
  BY <1>19 DEF ReceiveFails
<1>20. ASSUME NEW c \in Counters, NEW answer \in {"SUCCESS", "ERROR"}, Admit(c, answer)
       PROVE  QueryInv'
  BY <1>20 DEF Admit, Answer
<1>21. ASSUME NEW c \in Counters, NEW name \in Operations, Refuse(c, name)
       PROVE  QueryInv'
  BY <1>21 DEF Refuse, Answer
<1>22. CASE Exit
  BY <1>22 DEF Exit, Forget
<1>23. CASE pm_get_device_info
  BY <1>23 DEF pm_get_device_info, Begin, CanCall
<1>24. CASE pm_get_devices
  BY <1>24 DEF pm_get_devices, Begin, CanCall
<1>25. CASE QueryDone
  BY <1>25 DEF QueryDone, Returned, Forget
<1>26. CASE InfoRun
  BY <1>26 DEF InfoRun
<1>27. CASE Tick
  BY <1>27 DEF Tick
<1> HIDE ClientSessionAssumption DEF TypeOK, CallInv, QueryInv, Fields
<1>28. CASE ReadField
  <2> DEFINE n == Len(got)
  <2>1. wire \in Seq(Int) /\ got \in Seq(Int) /\ Len(wire) \in Nat /\ n \in Nat /\ wire # <<>>
    BY <1>28 DEF TypeOK, ReadField
  <2>2. /\ wire' = Tail(wire) /\ got' = Append(got, Head(wire)) /\ info = "answered"
        /\ info' = info /\ stage' = stage /\ stage = "query"
    BY <1>28 DEF ReadField, QueryInv
  <2>3. Fields' = Fields /\ Len(Fields) \in Nat
    BY <1>28, FieldsType DEF Fields, ReadField
  <2>4. /\ Len(wire') = Len(wire) - 1 /\ Head(wire) \in Int /\ Head(wire) = wire[1]
        /\ \A i \in 1 .. Len(wire') : wire'[i] = wire[i + 1]
    BY <2>1, <2>2, HeadTailProperties
  <2>5. Len(got') = n + 1 /\ got'[n + 1] = wire[1] /\ \A i \in 1 .. n : got'[i] = got[i]
    BY <2>1, <2>2, <2>4, AppendProperties
  <2>6. /\ n + Len(wire) <= Len(Fields) /\ Len(wire) > 0 /\ wire[1] = Fields[n + 1]
        /\ \A i \in 1 .. n : got[i] = Fields[i]
        /\ \A i \in 1 .. Len(wire) : wire[i] = Fields[n + i]
    BY <2>1, <2>2 DEF QueryInv
  <2>7. ASSUME NEW i \in 1 .. n + 1 PROVE got'[i] = Fields[i]
    <3>1. i = n + 1 \/ i \in 1 .. n
      BY <2>1
    <3>2. CASE i = n + 1
      BY <2>5, <2>6, <3>2
    <3>3. CASE i \in 1 .. n
      BY <2>5, <2>6, <3>3
    <3> QED BY <3>1, <3>2, <3>3
  <2>8. ASSUME NEW i \in 1 .. Len(wire') PROVE wire'[i] = Fields[(n + 1) + i]
    <3>1. i + 1 \in 1 .. Len(wire) /\ n + (i + 1) = (n + 1) + i
      BY <2>1, <2>4
    <3> QED BY <2>4, <2>6, <3>1
  <2> QED BY <2>1, <2>2, <2>3, <2>4, <2>5, <2>6, <2>7, <2>8 DEF QueryInv
<1>29. CASE ServerDies
  <2>1. PICK sent \in 0 .. Len(wire) : wire' = SubSeq(wire, 1, sent)
    BY <1>29 DEF ServerDies
  <2>2. wire \in Seq(Int) /\ got \in Seq(Int) /\ Len(wire) \in Nat /\ Len(got) \in Nat
    BY DEF TypeOK
  <2>3. \A i \in 1 .. sent : wire[i] \in Int
    BY <2>2
  <2>4. Len(wire') = sent /\ \A i \in 1 .. sent : wire'[i] = wire[i]
    BY <2>1, <2>2, <2>3, SubSeqProperties
  <2>5. wire = <<>> => wire' = <<>>
    BY <2>1, <2>2, <2>4
  <2>6. Fields' = Fields /\ Len(Fields) \in Nat
    BY <1>29, FieldsType DEF Fields, ServerDies
  <2> QED BY <1>29, <2>2, <2>4, <2>5, <2>6 DEF QueryInv, ServerDies
<1> QED BY <1>1, <1>2, <1>3, <1>4, <1>5, <1>6, <1>7, <1>8, <1>9, <1>10, <1>11,
       <1>12, <1>13, <1>14, <1>15, <1>16, <1>17, <1>18, <1>19, <1>20, <1>21, <1>22, <1>23,
       <1>24, <1>25, <1>26, <1>27, <1>28, <1>29, CreateCases, RejectCases
       DEF Next, Calls, Replies, Session, Query, CreatedTooLate, Refused,
           ConnectionLost,
           CannotConnect, RecvFails, ReadError, QueryLost

----------------------------------------------------------------------------
\* No counter exists when the program starts.
LEMMA InitInv == Init => Inv
<1> SUFFICES ASSUME Init PROVE Inv
  OBVIOUS
<1>1. TypeOK
  <2>1. StampsOK
    BY ClientSessionAssumption DEF Init, StampsOK
  <2>2. <<>> \in Seq(Window) /\ <<>> \in Seq(Int)
    OBVIOUS
  <2>3. /\ sets \in [Counters -> Seq(Window)] /\ reply_sets \in [Counters -> Seq(Window)]
        /\ energy \in [Counters -> Seq(Window)]
    BY <2>2 DEF Init
  <2>4. now \in 1 .. MaxTime /\ 0 \in 0 .. NDevices /\ 0 \in Int
    BY ClientSessionAssumption DEF Init
  <2> QED BY <2>1, <2>2, <2>3, <2>4 DEF Init, TypeOK, Operations
<1>2. CallInv /\ ChannelInv /\ CreateInv /\ DataInv
  BY ClientSessionAssumption
     DEF Init, CallInv, ChannelInv, OneAtATime, InStep, CreateInv, Blank, DataInv
<1>3. SetsInv
  <2>1. ASSUME NEW c \in Counters PROVE sets[c] = <<>> /\ Len(sets[c]) = 0 /\ status[c] # "ACTIVE"
    BY DEF Init
  <2>2. 1 .. 0 = {}
    OBVIOUS
  <2> QED BY <2>1, <2>2 DEF SetsInv, SetsOf
<1>4. CountInv /\ ClosedInv /\ OpenInv /\ LinesInv
  BY DEF Init, CountInv, ClosedInv, OpenInv, LinesInv, Alive
<1>5. StampsInv
  BY DEF Init, StampsInv
<1>6. QueryInv
  BY DEF Init, QueryInv
<1> QED BY <1>1, <1>2, <1>3, <1>4, <1>5, <1>6 DEF Inv

\* Every step of the client, of its sessions and of the server keeps Inv.
LEMMA InvStep == Inv /\ [Next]_vars => Inv'
  BY TypeStep, CallStep, ChannelStep, CreateStep, SetsStep, DataStep, StampsStep,
     CountStep, ClosedStep, OpenStep, QueryStep, LinesStep, Zenon DEF Inv

(***************************************************************************)
(* The client and the server are always in a state that Inv describes, for *)
(* any program that uses the library.                                      *)
(***************************************************************************)
THEOREM Invariance == Spec => []Inv
  BY InitInv, InvStep, PTL DEF Spec

(***************************************************************************)
(* Type correctness: in particular pm_start_counter, pm_continue_counter   *)
(* and pm_stop_counter stamp only elements that timing has.                *)
(***************************************************************************)
THEOREM TypeCorrect == Spec => []TypeOK
<1>1. Inv => TypeOK
  BY DEF Inv
<1> QED BY <1>1, Invariance, PTL

(***************************************************************************)
(* Requests and replies never get out of step on a counter's connection.   *)
(***************************************************************************)
THEOREM StaysInStep == Spec => []InStep
<1>1. Inv => InStep
  BY DEF Inv, ChannelInv
<1> QED BY <1>1, Invariance, PTL

(***************************************************************************)
(* Between calls the client has counted the intervals that the session has *)
(* recorded.                                                               *)
(***************************************************************************)
THEOREM CountsAgree == Spec => []IntervalsMatchSets
<1>1. Inv => IntervalsMatchSets
  <2> SUFFICES ASSUME Inv, NEW c \in Counters, Quiet(c)
               PROVE  Len(sets[c]) = next_timing[c] + (IF status[c] = "ACTIVE" THEN 1 ELSE 0)
    BY DEF IntervalsMatchSets
  <2>1. Alive(c) /\ Closed(c) = next_timing[c]
    BY DEF Quiet, Alive, Closed, Stopping, Restarting, Waiting
  <2> QED BY <2>1 DEF Inv, CountInv, CountOf
<1> QED BY <1>1, Invariance, PTL

(***************************************************************************)
(* Every interval the client stamped lies within the set the server        *)
(* recorded for it.                                                        *)
(***************************************************************************)
THEOREM IntervalsCovered == Spec => []IntervalsWithinSets
<1>1. Inv => IntervalsWithinSets
  <2> SUFFICES ASSUME Inv, NEW c \in Counters, Quiet(c), NEW i \in 1 .. next_timing[c]
               PROVE  Within(c, i)
    BY DEF IntervalsWithinSets, Within
  <2>1. Alive(c) /\ Closed(c) = next_timing[c]
    BY DEF Quiet, Alive, Closed, Stopping, Restarting, Waiting
  <2> QED BY <2>1 DEF Inv, ClosedInv
<1> QED BY <1>1, Invariance, PTL

(***************************************************************************)
(* What Counter::get answers is one closed set per interval the client     *)
(* stamped.                                                                *)
(***************************************************************************)
THEOREM RepliesComplete == Spec => []RepliesAreComplete
<1>1. Inv => RepliesAreComplete
  <2> SUFFICES ASSUME Inv, NEW c \in Counters, reply[c] = "data"
               PROVE  /\ ~exited => Len(reply_sets[c]) = next_timing[c]
                      /\ \A i \in 1 .. Len(reply_sets[c]) : reply_sets[c][i].second # 0
    BY DEF RepliesAreComplete
  <2>1. reply_sets[c] = sets[c] /\ status[c] = "INACTIVE" /\ (~exited => op = "GET")
    BY DEF Inv, DataInv
  <2>2. ASSUME ~exited PROVE Len(sets[c]) = next_timing[c]
    <3>1. Alive(c)
      BY <2>2 DEF Inv, ChannelInv, InStep, CallInv, Alive
    <3>2. Closed(c) = next_timing[c]
      BY <2>1, <2>2 DEF Closed, Stopping, Restarting, Waiting
    <3>3. next_timing[c] \in Nat /\ CountOf(c)
      BY <3>1, IntervalTypes DEF Inv, CountInv
    <3> QED BY <2>1, <3>2, <3>3 DEF CountOf
  <2>3. \A i \in 1 .. Len(sets[c]) : sets[c][i].second # 0
    BY <2>1 DEF Inv, SetsInv, SetsOf
  <2> QED BY <2>1, <2>2, <2>3
<1> QED BY <1>1, Invariance, PTL

(***************************************************************************)
(* pm_get_devices, pm_get_device_info and pm_create_counter take each      *)
(* field that Info sends for what it is.                                   *)
(***************************************************************************)
THEOREM QueriesCorrect == Spec => []QueriesAnswered
<1>1. Inv => QueriesAnswered
  <2> SUFFICES ASSUME Inv PROVE QueriesAnswered
    OBVIOUS
  <2>1. ASSUME stage = "query", Len(got) = Expected(got)
        PROVE  IF op = "LIST_DEVICES" THEN got[1] = NDevices /\ \A d \in Devices : got[2 * d + 1] = d
               ELSE got[2] = get_num_lines(asked) /\ got[4] = asked
    BY <2>1, QueryResult DEF Inv
  <2>2. ASSUME NEW c \in Counters, Quiet(c) PROVE num_lines[c] = get_num_lines(dev[c])
    <3>1. Alive(c) /\ ~(op = "CREATE" /\ on = c)
      BY <2>2, ClientSessionAssumption DEF Quiet, Alive, Inv, TypeOK, CallInv
    <3> QED BY <3>1 DEF Inv, LinesInv
  <2> QED BY <2>1, <2>2 DEF QueriesAnswered
<1> QED BY <1>1, Invariance, PTL

----------------------------------------------------------------------------
\* A step after which mode differs for counter c alone, if at all.
LEMMA ModeMoves ==
    ASSUME NEW c \in Counters, \A k \in Counters : k # c => mode'[k] = mode[k]
    PROVE  mode' = [mode EXCEPT ![c] = mode'[c]]
<1>1. mode = [k \in Counters |-> mode[k]] /\ mode' = [k \in Counters |-> mode'[k]]
  BY DEF mode
<1> QED BY <1>1

\* A step that leaves the sessions alone leaves their modes alone.
LEMMA SameMode == session' = session /\ status' = status => mode' = mode
  BY DEF mode, Mode

\* A step that leaves replies and energy alone.
LEMMA SameFetched ==
    reply' = reply /\ reply_sets' = reply_sets /\ energy' = energy => fetched' = fetched
  BY DEF fetched

\* A session's answer other than data, on a connection without a reply.
LEMMA AnswerFetchesNothing ==
    ASSUME TypeOK, ChannelInv, NEW c \in Counters, NEW name \in Operations \cup {"CREATE"},
           NEW answer \in {"SUCCESS", "ERROR"}, Answer(c, name, answer), reply_sets' = reply_sets
    PROVE  fetched' = fetched
<1>1. reply[c] = "none" /\ reply' = [reply EXCEPT ![c] = answer] /\ energy' = energy
  BY DEF Answer, ChannelInv, OneAtATime, Operations, handle_vars
<1>2. reply \in [Counters -> {"none", "SUCCESS", "ERROR", "data"}]
  BY DEF TypeOK
<1> QED BY <1>1, <1>2 DEF fetched

\* The mode of one counter, in terms of its session.
LEMMA ModeIs ==
    ASSUME NEW c \in Counters
    PROVE  /\ session[c] \in {"none", "refused"} => mode[c] = "none"
           /\ session[c] = "serving" =>
                 mode[c] = IF status[c] = "ACTIVE" THEN "active" ELSE "inactive"
           /\ session[c] = "finalized" => mode[c] = "closed"
           /\ session[c] = "lost" => mode[c] = "lost"
  BY DEF mode, Mode

\* What changes the session of c does not change the mode of another counter.
LEMMA OtherModes ==
    ASSUME TypeOK, NEW c \in Counters, NEW s, NEW t,
           session' = [session EXCEPT ![c] = s], status' = [status EXCEPT ![c] = t]
    PROVE  \A k \in Counters : k # c => mode'[k] = mode[k]
<1> SUFFICES ASSUME NEW k \in Counters, k # c PROVE mode'[k] = mode[k]
  OBVIOUS
<1>1. session'[k] = session[k] /\ status'[k] = status[k]
  BY DEF TypeOK
<1>2. session[k] \in {"none", "refused", "serving", "finalized", "lost"}
  BY DEF TypeOK
<1> QED BY <1>1, <1>2 DEF mode, Mode

\* The first state of the client and the server is one of the recorder.
LEMMA RecorderInit == Init => Recorder!Init
<1> SUFFICES ASSUME Init PROVE Recorder!Init
  OBVIOUS
<1>1. mode = [c \in Counters |-> "none"]
  BY DEF Init, mode, Mode
<1>2. fetched = [c \in Counters |-> <<>>]
  BY DEF Init, fetched
<1> QED BY <1>1, <1>2 DEF Init, Recorder!Init

(***************************************************************************)
(* Every step is a step of the recorder or does not concern it: a call     *)
(* takes effect when the session handles it, and Got hands over what       *)
(* counted as fetched when the session sent it.                            *)
(***************************************************************************)
LEMMA RecorderStep == Inv /\ [Next]_vars => [Recorder!Next]_(Recorder!vars)
<1> SUFFICES ASSUME Inv, [Next]_vars
             PROVE  Recorder!Next \/ UNCHANGED <<now, mode, sets, fetched>>
  BY DEF Recorder!vars
<1> USE DEF call_vars, handle_vars, server_vars, channel_vars, query_vars
<1>0. TypeOK /\ CallInv /\ ChannelInv /\ CreateInv /\ DataInv
  BY DEF Inv
<1>1. ASSUME UNCHANGED <<now, session, status, sets, reply, reply_sets, energy>>
      PROVE  UNCHANGED <<now, mode, sets, fetched>>
  BY <1>1, SameMode, SameFetched
<1>2. ASSUME NEW c \in Counters, Calls(c)
      PROVE  UNCHANGED <<now, session, status, sets, reply, reply_sets, energy>>
  BY <1>2 DEF Calls, pm_create_counter, pm_start_counter, pm_continue_counter,
              pm_stop_counter, pm_get_counter_data, pm_finalize_counter
<1>3. CASE Exit \/ pm_get_device_info \/ pm_get_devices \/ ReadField \/ InfoRun \/ UNCHANGED vars
  BY <1>1, <1>3 DEF Exit, pm_get_device_info, pm_get_devices, ReadField, InfoRun, vars
<1>4. ASSUME NEW c \in Counters,
             Started(c) \/ Continued(c) \/ Stopped(c) \/ Finalized(c) \/ Created(c)
      PROVE  UNCHANGED <<now, mode, sets, fetched>>
  <2>1. /\ UNCHANGED <<now, session, status, sets, energy>>
        /\ reply[c] = "SUCCESS" /\ reply' = [reply EXCEPT ![c] = "none"]
        /\ reply_sets' = [reply_sets EXCEPT ![c] = <<>>]
    BY <1>4 DEF Started, Continued, Stopped, Finalized, Created, Read
  <2>2. fetched' = fetched
    BY <1>0, <2>1 DEF TypeOK, fetched
  <2> QED BY <2>1, <2>2, SameMode
<1>5. ASSUME NEW c \in Counters, Got(c) PROVE UNCHANGED <<now, mode, sets, fetched>>
  <2>1. /\ UNCHANGED <<now, session, status, sets>>
        /\ reply[c] = "data" /\ reply' = [reply EXCEPT ![c] = "none"]
        /\ reply_sets' = [reply_sets EXCEPT ![c] = <<>>]
        /\ energy' = [energy EXCEPT ![c] = reply_sets[c]]
    BY <1>5 DEF Got, Read
  <2>2. fetched' = fetched
    BY <1>0, <2>1 DEF TypeOK, fetched
  <2> QED BY <2>1, <2>2, SameMode
<1>6. CASE QueryDone
  <2>1. CASE op = "CREATE"
    <3>1. on \in Counters /\ energy[on] = <<>>
      BY <1>0, <1>6, <2>1 DEF CallInv, CreateInv, Blank, QueryDone
    <3>2. energy' = energy
      BY <1>0, <1>6, <2>1, <3>1 DEF TypeOK, QueryDone
    <3> QED BY <1>1, <1>6, <3>2 DEF QueryDone
  <2>2. CASE op # "CREATE"
    BY <1>1, <1>6, <2>2 DEF QueryDone
  <2> QED BY <2>1, <2>2
<1>7. ASSUME NEW c \in Counters, NEW answer \in {"SUCCESS", "ERROR"}, Admit(c, answer)
      PROVE  Recorder!Next \/ UNCHANGED <<now, mode, sets, fetched>>
  <2>1. session[c] = "none" /\ status[c] = "INACTIVE" /\ now' = now /\ sets' = sets
    BY <1>0, <1>7 DEF Admit, Answer, CreateInv, Blank
  <2>2. fetched' = fetched
    BY <1>0, <1>7, AnswerFetchesNothing DEF Admit
  <2>3. status' = [status EXCEPT ![c] = status[c]]
    BY <1>0, <1>7 DEF Admit, TypeOK
  <2>4. mode' = [mode EXCEPT ![c] = mode'[c]]
    BY <1>0, <1>7, <2>3, ModeMoves, OtherModes DEF Admit
  <2>5. mode[c] = "none" /\ mode'[c] = (IF answer = "SUCCESS" THEN "inactive" ELSE "none")
    BY <1>0, <1>7, <2>1 DEF Admit, TypeOK, mode, Mode
  <2>6. CASE answer = "SUCCESS"
    BY <2>1, <2>2, <2>4, <2>5, <2>6 DEF Recorder!Next, Recorder!Create, Recorder!Move
  <2>7. CASE answer = "ERROR"
    <3>1. mode' = mode
      BY <2>4, <2>5, <2>7 DEF mode
    <3> QED BY <2>1, <2>2, <3>1
  <2> QED BY <2>6, <2>7
<1>8. ASSUME NEW c \in Counters, Start(c) PROVE Recorder!Next
  <2>1. fetched' = fetched
    BY <1>0, <1>8, AnswerFetchesNothing DEF Start, Operations
  <2>2. session' = [session EXCEPT ![c] = session[c]]
    BY <1>0, <1>8 DEF Start, TypeOK
  <2>3. mode' = [mode EXCEPT ![c] = mode'[c]]
    BY <1>0, <1>8, <2>2, ModeMoves, OtherModes DEF Start
  <2>4. mode[c] = "inactive" /\ mode'[c] = "active"
    BY <1>0, <1>8 DEF Start, TypeOK, mode, Mode
  <2>5. Recorder!Start(c)
    BY <1>8, <2>1, <2>3, <2>4
       DEF Start, Answer, OpenSet, Recorder!Start, Recorder!Move, Recorder!Opened
  <2> QED BY <2>5 DEF Recorder!Next
<1>9. ASSUME NEW c \in Counters, Restart(c) PROVE Recorder!Next
  <2>1. fetched' = fetched
    BY <1>0, <1>9, AnswerFetchesNothing DEF Restart, Operations
  <2>2. session' = [session EXCEPT ![c] = session[c]]
    BY <1>0, <1>9 DEF Restart, TypeOK
  <2>3. mode' = [mode EXCEPT ![c] = mode'[c]]
    BY <1>0, <1>9, <2>2, ModeMoves, OtherModes DEF Restart
  <2>4. mode[c] = "inactive" /\ mode'[c] = "active"
    BY <1>0, <1>9 DEF Restart, TypeOK, mode, Mode
  <2>5. Recorder!Continue(c)
    BY <1>9, <2>1, <2>3, <2>4
       DEF Restart, Answer, OpenSet, Recorder!Continue, Recorder!Move, Recorder!Opened
  <2> QED BY <2>5 DEF Recorder!Next
<1>10. ASSUME NEW c \in Counters, Stop(c) PROVE Recorder!Next
  <2>1. fetched' = fetched
    BY <1>0, <1>10, AnswerFetchesNothing DEF Stop, Operations
  <2>2. session' = [session EXCEPT ![c] = session[c]]
    BY <1>0, <1>10 DEF Stop, TypeOK
  <2>3. mode' = [mode EXCEPT ![c] = mode'[c]]
    BY <1>0, <1>10, <2>2, ModeMoves, OtherModes DEF Stop
  <2>4. mode[c] = "active" /\ mode'[c] = "inactive"
    BY <1>0, <1>10 DEF Stop, TypeOK, mode, Mode
  <2>5. Recorder!Stop(c)
    BY <1>10, <2>1, <2>3, <2>4 DEF Stop, Answer, Recorder!Stop, Recorder!Move
  <2> QED BY <2>5 DEF Recorder!Next
<1>11. ASSUME NEW c \in Counters, Get(c) PROVE Recorder!Next
  <2>1. /\ UNCHANGED <<now, session, status, sets, energy>>
        /\ reply[c] = "none" /\ reply' = [reply EXCEPT ![c] = "data"]
        /\ reply_sets' = [reply_sets EXCEPT ![c] = sets[c]]
    BY <1>0, <1>11 DEF Get, Answer, ChannelInv, OneAtATime
  <2>2. fetched' = [fetched EXCEPT ![c] = sets[c]]
    BY <1>0, <2>1 DEF TypeOK, fetched
  <2>3. mode' = mode /\ mode[c] = "inactive"
    BY <1>0, <1>11, <2>1, SameMode, ModeIs DEF Get, TypeOK
  <2>4. Recorder!Get(c)
    BY <2>1, <2>2, <2>3 DEF Recorder!Get
  <2> QED BY <2>4 DEF Recorder!Next
<1>12. ASSUME NEW c \in Counters, Finalize(c) PROVE Recorder!Next
  <2>1. fetched' = fetched
    BY <1>0, <1>12, AnswerFetchesNothing DEF Finalize, Operations
  <2>2. status' = [status EXCEPT ![c] = status[c]]
    BY <1>0, <1>12 DEF Finalize, TypeOK
  <2>3. mode' = [mode EXCEPT ![c] = mode'[c]]
    BY <1>0, <1>12, <2>2, ModeMoves, OtherModes DEF Finalize
  <2>4. mode[c] = "inactive" /\ mode'[c] = "closed"
    BY <1>0, <1>12 DEF Finalize, TypeOK, mode, Mode
  <2>5. Recorder!Finalize(c)
    BY <1>12, <2>1, <2>3, <2>4 DEF Finalize, Answer, Recorder!Finalize, Recorder!Move
  <2> QED BY <2>5 DEF Recorder!Next
<1>13. ASSUME NEW c \in Counters, NEW name \in Operations, Refuse(c, name)
       PROVE  UNCHANGED <<now, mode, sets, fetched>>
  <2>1. fetched' = fetched
    BY <1>0, <1>13, AnswerFetchesNothing DEF Refuse
  <2> QED BY <1>13, <2>1, SameMode DEF Refuse, Answer
<1>14. ASSUME NEW S \in SUBSET {c \in Counters : mode[c] \in {"inactive", "active"}},
              mode' = [c \in Counters |-> IF c \in S THEN "lost" ELSE mode[c]],
              UNCHANGED <<now, sets, reply, reply_sets, energy>>
       PROVE  Recorder!Next
  <2>1. Recorder!Lose
    BY <1>14, SameFetched DEF Recorder!Lose
  <2> QED BY <2>1 DEF Recorder!Next
<1>15. ASSUME NEW c \in Counters, ReceiveFails(c) PROVE Recorder!Next
  <2>1. status' = [status EXCEPT ![c] = status[c]]
    BY <1>0, <1>15 DEF ReceiveFails, TypeOK
  <2>2. mode' = [mode EXCEPT ![c] = mode'[c]]
    BY <1>0, <1>15, <2>1, ModeMoves, OtherModes DEF ReceiveFails
  <2>3. mode[c] \in {"inactive", "active"} /\ mode'[c] = "lost"
    BY <1>0, <1>15 DEF ReceiveFails, TypeOK, mode, Mode
  <2>4. mode' = [k \in Counters |-> IF k \in {c} THEN "lost" ELSE mode[k]]
    <3>1. mode = [k \in Counters |-> mode[k]]
      BY DEF mode
    <3> QED BY <2>2, <2>3, <3>1
  <2>5. {c} \in SUBSET {k \in Counters : mode[k] \in {"inactive", "active"}}
    BY <2>3
  <2> QED BY <1>14, <1>15, <2>4, <2>5 DEF ReceiveFails
<1>16. CASE ServerDies
  <2> DEFINE S == {c \in Counters : mode[c] \in {"inactive", "active"}}
  <2>1. ASSUME NEW c \in Counters PROVE mode'[c] = IF c \in S THEN "lost" ELSE mode[c]
    BY <1>0, <1>16 DEF ServerDies, TypeOK, mode, Mode
  <2>2. mode' = [c \in Counters |-> mode'[c]]
    BY DEF mode
  <2>3. mode' = [c \in Counters |-> IF c \in S THEN "lost" ELSE mode[c]]
    BY <2>1, <2>2
  <2> QED BY <1>14, <1>16, <2>3 DEF ServerDies
<1>17. CASE Tick
  <2>1. mode' = mode /\ fetched' = fetched /\ sets' = sets /\ now' > now
    BY <1>0, <1>17, SameMode, SameFetched DEF Tick, TypeOK
  <2> QED BY <2>1 DEF Recorder!Next, Recorder!Tick
<1> QED
  BY <1>1, <1>2, <1>3, <1>4, <1>5, <1>6, <1>7, <1>8, <1>9, <1>10, <1>11, <1>12, <1>13,
     <1>15, <1>16, <1>17, CreateCases, RejectCases
  DEF Next, Replies, Session, Query, CreatedTooLate, Refused, ConnectionLost,
      CannotConnect, RecvFails, ReadError, QueryLost

(***************************************************************************)
(* The library and the server together implement the abstract recorder,    *)
(* under the refinement mapping that ClientSession states.                 *)
(***************************************************************************)
THEOREM Refinement == Spec => ImplementsRecorder
  BY RecorderInit, RecorderStep, Invariance, PTL
     DEF Spec, ImplementsRecorder, Recorder!Spec
============================================================================
