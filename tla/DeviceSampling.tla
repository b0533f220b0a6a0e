--------------------------- MODULE DeviceSampling ---------------------------
(***************************************************************************)
(* A device's samples from the meter to those who read them: the sampling  *)
(* loops of the drivers (server/devices), the queue to the consumer of     *)
(* Device::run, the copies that Info::read_device streams, and             *)
(* Info::cmd_status, which walks counter_map without counter_lock.         *)
(*                                                                         *)
(* sample[l] is the number of the cycle in which the driver last wrote the *)
(* value of line l: the driver writes the lines one by one while others    *)
(* copy them.  How the consumer fills the buffers of the lines is in       *)
(* CounterSessions; here it keeps whole samples.                           *)
(***************************************************************************)
EXTENDS Ina219, FiniteSets

CONSTANTS
    NLines,      \* lines of every driver but WattsUp, which has one
    Capacity,    \* of data_queue
    MaxCycles,   \* bound: cycles of the driver
    Words,       \* the words the bus of an APCape may deliver
    Metric,      \* Metric[l]: the metric of line l
    MaxFreq,     \* get_max_freq()
    Ids          \* the counters that may be registered

ASSUME DeviceSamplingAssumption ==
    /\ NLines \in Nat \ {0} /\ Capacity \in Nat \ {0} /\ MaxCycles \in Nat
    /\ \A w \in Words : w \in Nat /\ w < 65536
    /\ MaxFreq \in Nat /\ Ids \subseteq Nat \ {0}

Drivers == {"Dummy", "ArduPower", "LMG", "WattsUp", "APCape"}

VARIABLES
    driver, running,
    thread,      \* "opening", "waiting" for the meter, "filling" or "ended"
    sample, next,    \* next: the line the driver writes next
    cycle,
    bus,         \* the last word read from the bus in this cycle, and its reading
    queue, data,
    reader,      \* read_device: "none", "streaming" or "ended"
    copy,        \* the part of get_sample's copy made so far
    stream,      \* the vector sent last
    counter_map,
    status       \* cmd_status: where it is, what it announced and sent

driver_vars == <<driver, thread, sample, next, cycle, bus>>
queue_vars == <<queue, data>>
reader_vars == <<reader, copy, stream>>
status_vars == <<counter_map, status>>
vars == <<running, driver_vars, queue_vars, reader_vars, status_vars>>

NumLines == IF driver = "WattsUp" THEN 1 ELSE NLines
Line == 0 .. NumLines - 1
NoWord == [metric |-> "default", ok |-> FALSE, word |-> 0, reading |-> [raw |-> 0, per |-> 357142]]
Idle == [at |-> "none", it |-> 0, announced |-> 0, sent |-> 0]

Init ==
    /\ driver \in Drivers /\ running = TRUE
    /\ thread = IF driver \in {"Dummy", "ArduPower"} THEN "waiting" ELSE "opening"
    /\ sample = [l \in Line |-> 0] /\ next = 0 /\ cycle = 0 /\ bus = NoWord
    /\ queue = <<>> /\ data = <<>>
    /\ reader = "none" /\ copy = <<>> /\ stream = <<>>
    /\ counter_map = {} /\ status = Idle

Stop == running /\ running' = FALSE /\ UNCHANGED <<driver_vars, queue_vars, reader_vars, status_vars>>

----------------------------------------------------------------------------
\* The drivers' threads.

Drive == UNCHANGED <<running, driver, reader_vars, status_vars>>

\* The serial port is opened by a url that the constructor's caller owned; a
\* failure is an exception, which ends the thread.  An INA219 that cannot be
\* opened is only reported.
Open ==
    /\ thread = "opening"
    /\ thread' \in IF driver = "APCape" THEN {"waiting"} ELSE {"waiting", "ended"}
    /\ Drive /\ UNCHANGED <<sample, next, cycle, bus, queue_vars>>

\* The head of the sampling loop.
Wakes == thread = "waiting" /\ running /\ cycle < MaxCycles

LoopEnds ==
    /\ thread = "waiting" /\ ~running /\ thread' = "ended"
    /\ Drive /\ UNCHANGED <<sample, next, cycle, bus, queue_vars>>

\* (A bug: the sample is cleared before the lines are read.)
BeginsCleared ==
    /\ thread' = "filling" /\ next' = 0 /\ cycle' = cycle + 1
    /\ sample' = [l \in Line |-> 0]
    /\ Drive /\ UNCHANGED <<bus, queue_vars>>

Begins ==
    /\ thread' = "filling" /\ next' = 0 /\ cycle' = cycle + 1
    /\ Drive /\ UNCHANGED <<sample, bus, queue_vars>>

DummyCycle == driver = "Dummy" /\ Wakes /\ Begins
ArduPowerCycle == driver = "ArduPower" /\ Wakes /\ Begins
APCapeCycle == driver = "APCape" /\ Wakes /\ Begins

\* A whole frame was read, or the port failed.
LMGFrame ==
    /\ driver = "LMG" /\ Wakes
    /\ \/ Begins
       \/ thread' = "ended" /\ Drive /\ UNCHANGED <<sample, next, cycle, bus, queue_vars>>

\* A status line of 21 fields; a short one, which is skipped; or one whose
\* watts are no number, or a failure of the port, which end the thread.
WattsUpLine ==
    /\ driver = "WattsUp" /\ Wakes
    /\ \/ Begins
       \/ thread' \in {"waiting", "ended"} /\ cycle' = cycle + 1
          /\ Drive /\ UNCHANGED <<sample, next, bus, queue_vars>>

Write(l) ==
    /\ thread = "filling" /\ next = l /\ next' = l + 1
    /\ Drive /\ UNCHANGED <<thread, cycle, queue_vars>>

\* Dummy, LMG and WattsUp write every line of the sample.
FillLine(l) ==
    /\ driver \in {"Dummy", "LMG", "WattsUp"} /\ Write(l)
    /\ sample' = [sample EXCEPT ![l] = cycle] /\ UNCHANGED bus

\* ArduPower only counts in the first.
ArduPowerLine(l) ==
    /\ driver = "ArduPower" /\ Write(l)
    /\ sample' = IF l = 0 THEN [sample EXCEPT ![l] = cycle] ELSE sample
    /\ UNCHANGED bus

\* APCape reads the register of the line's metric.
APCapeLine(l) ==
    /\ driver = "APCape" /\ Write(l)
    /\ sample' = [sample EXCEPT ![l] = cycle]
    /\ \E ok \in BOOLEAN, w \in Words :
          bus' = [metric |-> Metric[l], ok |-> ok, word |-> w,
                  reading |-> ReadLine(Metric[l], ok, Bytes(w))]

\* (A bug: the sample is pushed before the last line is written.)
EarlyEnough == next >= NumLines - 1

Filled == next = NumLines

\* Device::yield: push fails on a full queue and nobody looks.
yield ==
    /\ thread = "filling" /\ Filled /\ thread' = "waiting"
    /\ queue' = IF Len(queue) < Capacity THEN Append(queue, sample) ELSE queue
    /\ bus' = NoWord
    /\ Drive /\ UNCHANGED <<sample, next, cycle, data>>

----------------------------------------------------------------------------
\* The consumer of Device::run.
pop ==
    /\ running /\ queue # <<>>
    /\ data' = Append(data, Head(queue)) /\ queue' = Tail(queue)
    /\ UNCHANGED <<running, driver_vars, reader_vars, status_vars>>

----------------------------------------------------------------------------
\* Info::read_device

Reads == UNCHANGED <<running, driver_vars, queue_vars, status_vars>>

\* The device may be unknown and the frequency too high.
read_device ==
    /\ reader = "none"
    /\ \E known \in BOOLEAN, frequency \in {0, MaxFreq, MaxFreq + 1} :
          reader' = IF known /\ frequency <= MaxFreq THEN "streaming" ELSE "ended"
    /\ Reads /\ UNCHANGED <<copy, stream>>

\* get_sample copies the vector while the driver writes it.
get_sample ==
    /\ reader = "streaming" /\ Len(copy) < NumLines
    /\ copy' = Append(copy, sample[Len(copy)])
    /\ Reads /\ UNCHANGED <<reader, stream>>

SendSample ==
    /\ reader = "streaming" /\ Len(copy) = NumLines
    /\ stream' = copy /\ copy' = <<>>
    /\ Reads /\ UNCHANGED reader

\* send throws once the client has gone.
ClientLeaves ==
    /\ reader = "streaming" /\ Len(copy) = NumLines
    /\ reader' = "ended" /\ copy' = <<>>
    /\ Reads /\ UNCHANGED stream

----------------------------------------------------------------------------
\* Info::cmd_status, one device: the lines are fixed, the counters are not.

Reports == UNCHANGED <<running, driver_vars, queue_vars, reader_vars>>

\* The iterator after that on id: the first key above it, or 0 for end().
Above(id) ==
    IF \E k \in counter_map : k > id
    THEN CHOOSE k \in counter_map : k > id /\ \A j \in counter_map : j > id => k <= j
    ELSE 0

Walk(it) == IF it = 0 THEN "sent" ELSE "walking"

StatusSize ==
    /\ status.at = "none"
    /\ status' = [at |-> Walk(Above(0)), it |-> Above(0), announced |-> Cardinality(counter_map),
                  sent |-> 0]
    /\ Reports /\ UNCHANGED counter_map

\* The element is sent and the iterator moved; an element that was erased
\* meanwhile leaves it pointing at freed memory.
StatusCounter ==
    /\ status.at = "walking"
    /\ status' = IF status.it \in counter_map
                 THEN [status EXCEPT !.sent = @ + 1, !.it = Above(status.it),
                                     !.at = Walk(Above(status.it))]
                 ELSE [status EXCEPT !.at = "undefined"]
    /\ Reports /\ UNCHANGED counter_map

\* register_counter and deregister_counter, under a lock status does not take.
Register(id) ==
    /\ id \notin counter_map /\ counter_map' = counter_map \union {id}
    /\ Reports /\ UNCHANGED status
Deregister(id) ==
    /\ id \in counter_map /\ counter_map' = counter_map \ {id}
    /\ Reports /\ UNCHANGED status

----------------------------------------------------------------------------
Driving ==
    \/ Open \/ LoopEnds
    \/ DummyCycle \/ ArduPowerCycle \/ APCapeCycle \/ LMGFrame \/ WattsUpLine
    \/ \E l \in Line : FillLine(l) \/ ArduPowerLine(l) \/ APCapeLine(l)
    \/ yield

Reading == read_device \/ get_sample \/ SendSample \/ ClientLeaves
Status == StatusSize \/ StatusCounter \/ \E id \in Ids : Register(id) \/ Deregister(id)

Next == Driving \/ pop \/ Stop \/ Reading \/ Status

Spec == Init /\ [][Next]_vars

----------------------------------------------------------------------------
\* Properties.

FillsAll == driver # "ArduPower"

\* What the consumer keeps are whole samples, every line from one cycle of the
\* driver, in the order of the cycles, though the driver goes on writing into
\* the same vector and a full queue drops samples (yield).
BufferedSamplesWhole ==
    FillsAll =>
        /\ \A i \in DOMAIN data : \A l \in Line : data[i][l] = data[i][0]
        /\ \A i, j \in DOMAIN data : i < j => data[i][0] < data[j][0]

\* A streamed vector may mix cycles, since get_sample copies without a lock,
\* but no line ever shows a value older than one already streamed, and no line
\* lags more than one cycle behind a line before it.
StreamNeverGoesBack ==
    [][stream' # stream =>
          /\ stream # <<>> => \A l \in DOMAIN stream' : stream'[l] >= stream[l]
          /\ FillsAll => \A k, l \in DOMAIN stream' : k < l => stream'[l] >= stream'[k] - 1]_vars

\* A line of an APCape shows exactly what the register holds, the flag bits of
\* the voltage dropped, as long as the register's sign bit is clear; a bus that
\* does not answer reads as zero.
NonNegativeReadingsExact ==
    LET raw == bus.reading.raw
    IN  /\ ~bus.ok => raw = 0
        /\ (bus.ok /\ bus.word < 32768) =>
              raw = IF bus.metric = "voltage" THEN 4 * (bus.word \div 8) ELSE bus.word
=============================================================================
