# A TLA+ model of PMLib

PMLib measures the power drawn by computers: a server samples power meters and
buffers what clients asked for; clients bracket a region of their program with
start and stop, and fetch the samples afterwards. This directory holds
TLA+ modules of the server, of the client library that talks to it and of the
tracing plugins built on that library, the TLC models that check them, and
TLAPS proofs. `PROJECT.json` maps every definition to the lines it models and
lists runs, properties, mutants, hazards, findings and theorems.

## Inventory

| Component | State | Operations | Hard part |
|---|---|---|---|
| `Counter` (server/counter.*) | id, lines, status, sets, sizes, registered, running | constructor, run, start, restart, stop, get, finalize, destructor | one thread per connection, exceptions at every send and receive, a client may vanish |
| `Device`, `Line` (server/device.*) | `_enabled`, `_active`, `data` per line; counter_map, counter_lock | register, deregister, start_counter, stop_counter, push_back_data, get_lines_sizes | sessions share lines; the consumer and the size reads take no lock |
| `Device::run` and drivers (server/device.cpp, server/devices) | `_working`, `_running`, sample, data_queue, two threads | start, stop, run, yield, destructor, one loop per driver | hand-over of samples, join order, a driver that blocks or throws, registers with signs and flags |
| `Server` (server/server.*) | device_map, acceptor | parse_configfile, start_devices, start_connection, stop_devices, connection | condition variables without predicates, detached connection threads, shutdown, half-read configurations |
| JSON reader (server/utils/jsoncpp.cpp) | the tokens, a stack of values | parse, readValue, readObject, readArray, recovery; accessors of Value | mutual recursion, recovery that skips tokens |
| `daemonize` (server/utils) | process | double fork | threads do not survive a fork |
| `Info` (server/info.*) | none of its own | list_devices, info_device, cmd_status, read_device | reads shared state without locks |
| Client calls (client/pm_*_counter*.c) | sock, timing, next_timing, measures | create, start, continue, stop, get, finalize, get_devices, get_device_info | must pair its intervals with the server's sets; untagged replies; exits on every error |
| Client output (client/pm_print_data_*.c, pm_calculate_energy.c, pm_get_and_print_data_paraver.c) | none of its own | nine printing functions | each finds a set and a line in one flat array by itself |
| Client line masks (client/pm_set_lines.c, line.h) | the scanner's | pm_set_lines | a hand-written scanner, arrays of fixed length |
| Tracing plugins (client/vt_pmlib_plugin.c, client/plugins) | counters, clocks | init, get_event_info, add_counter, get_all_values, finalize | where the clock is read, events with one name, calls that exit |

Interaction. A connection's thread creates one Counter, which calls its
Device's operations directly; all Counters of a Device and the Device's
consumer thread share its lines. The driver's thread hands samples to the
consumer through `data_queue`, and `Info` reads the driver's vector and the
`counter_map` as they are. Main talks to a device's thread through
`_working`, `_running` and two condition variables. Client and server exchange
one request and one reply at a time over TCP; a `Counter` holds a `shared_ptr`
to its Device, and so does the copy of it that the Device keeps in its own
`counter_map`. The plugins call the client library and ignore what it returns.

What makes each part correct: the reference counts are exact; the offsets that
a session recorded delimit what was sampled in its interval and stay valid;
every operation is answered and every session ends; client and server number
the same intervals, and a reply is taken for the answer to its own request; the
reply holds what was recorded and each printing function finds it again; a text
of line numbers selects those lines; clients are served only by devices that
work and have all their lines, no device dies under its users or its threads,
and the process can always start and stop.

## Modules

Server:

* **DeviceLines** - what the Counters of one Device share: the lines' counts
  and buffers, `counter_lock`, `counter_map`, and the consumer's loop
  (`Pop`, `VisitLine`, `LoadSize`, `StoreElement`). The consumer takes no lock,
  so its test of `is_active`, its read of the size and its store are steps of
  their own. Samples are numbered as they are popped, so a buffer's content
  tells which samples it has. A store with a stale size leaves slots that were
  never written (`Garbage`), as `resize` does.
* **CounterSessions** - extends it with the connection threads. `pc` follows
  the thread through constructor, `run()`, handlers and destructor; every
  access to shared state outside `counter_lock` is a step, and under the lock
  every iteration of a loop over lines is. `id = ++nextid` is a read and a
  write. A client may hang up at any time (`Hangup`, for the connections in
  `Fickle`): a receive then throws, and a send may be accepted or throw.
  A thread that ends without having disabled its lines is `leaked`. `begun` is a
  history variable: the sample that the consumer was at on a line when the
  beginning of the session's set was read. The frequency
  and the aggregate flag of the request matter to the reply only and are in GetReply.
  **MCCounterSessions** adds the symmetry of the connections (safety runs only),
  **CounterSessionsProofs** the theorems.
* **DeviceLifecycle** - main, the devices' threads, the drivers and the
  connections' hold on devices. A `wait_for` may return at any time: it may
  be notified, time out, or wake up for no reason, and the notification may have
  come before the wait. `~Device` runs in whoever lets go last and joins.
  Connection threads are detached and know nothing of the shutdown: each
  searches `device_map` when it likes (`Find`, `Hold`, `LetGo`), also while
  `stop_devices` clears the map node by node. A thread
  that is about to read freed memory (`Dangling`) may get by with what is still
  there, or end the process (`Crash`).
  **DeviceLifecycleProofs** has its theorems.
* **DeviceSampling** - from the meter to the readers. The drivers (Dummy,
  ArduPower, LMG, WattsUp, APCape) write `sample` line by line, each in its own
  order and with its own reasons to skip, fail or end; `yield` pushes a copy to
  the bounded `data_queue` or drops it; `Device::run` pops; `Info::read_device`
  copies `sample` line by line with no lock, once per tick of its own clock;
  `Info::cmd_status` announces the size of `counter_map` and walks it while
  sessions come and go. A line's value is the number of the driver's cycle that
  wrote it. **Ina219** is the register arithmetic of the APCape with 16-bit words.
  **DeviceSamplingProofs** has the theorems.
* **JsonValue** - the values of a configuration file and the accessors of
  `Json::Value` the server uses, with the exceptions they throw.
* **JsonReader** - `Json::OurReader` on tokens: readValue, readObject and
  readArray with an explicit stack, comments, the stack limit, and the recovery
  that skips to the end of the object or array. Behind the root value `parse`
  reads the next token and, with `failIfExtra` off, ignores it (`parseEnds`). The reader
  is checked against a recursive definition of which token sequences begin with
  a JSON value and what it means.
* **ConfigFile** - the options of `main`, `parse_configfile` device by device
  and line by line, every conversion that may throw, and what `run` serves.
  **ConfigFileProofs** has the theorems.

Client:

* **GetReply** - `Counter::get` on recorded sets, loop by loop: `PushSize` is a
  pass of the loop that fills `watts_sets`, `CopySum` and `CopyOneLine` are
  passes of the two that fill `watts`. A sample is a
  pair of line and index, an element of the reply the set of samples added into
  it, so the model tells which samples arrive where. Slices of the lines of a set
  may differ in length, since their sizes are read one after the other.
* **ClientPrint** - extends it with the nine functions that print a reply. For the
  eight that print what pm_get_counter_data stored: the sets, rows and cells in the
  order printed, with the element of `watts` each cell is read from, for every
  `set` argument and mask of lines. pm_calculate_energy adds into memory of
  `calloc(0, ...)`: what it finds there, zeros or not, and whether its stores
  hit somebody else's, is a choice (`Heaps`). pm_get_and_print_data_paraver
  receives element by element with loop counters of its own (`StreamElement`,
  `StreamLineEnds`), ends the program when a `recv` is short (`StreamExits`), and
  returns without receiving when the set is out of range. The
  loops over the bits of a mask meet them in increasing order: `Rank` is the
  place of a bit among them and `Nth` the bit at a place.
  **ClientPrintProofs** has the theorems about both.
* **LineMasks** - `pm_set_lines` token by token (number, range, comma), its loop
  that sets the bits of the mask, and the loop of `Counter::set_lines` on the
  server. **LineMasksProofs** has the theorems.
* **ClientSession** - the composition of the client's calls with the server's
  sessions. Each call sends, waits, stamps its clock in the order of the code, and
  exits on an error or a lost connection; queries read their reply field by
  field. The server may refuse, close or die at any time. Where CounterSessions
  follows the inside of a session's operation, here an operation is one step.
* **IntervalRecorder** - the abstract specification: counters that record
  intervals. Each operation is one step and takes effect at one moment; get
  yields the recorded intervals. ClientSession implements it
  (`Recorder == INSTANCE IntervalRecorder WITH ...`, `ImplementsRecorder`):
  a session's `session` and `status` map to the recorder's `mode`, and data on
  its way to the client counts as `fetched`. **ClientSessionProofs** proves it.
* **TracePlugins** - the two VampirTrace plugins and the Score-P plugin against a
  tool that asks, adds, fetches and finalizes in any order the interfaces allow.
  Calls take time, and a call's place of reading the clock is kept.
  **TracePluginsProofs** has the theorems.

`MC*` modules give the constants that a .cfg cannot write.

## Runs

| Run | Bounds | Shows |
|---|---|---|
| RefCounts | 2 connections that may hang up, 2 lines, no samples, 2 sets | counts exact in all interleavings and on all error paths, sets well formed |
| Recording | 2 connections, 1 line, 2 samples, 1 set | offsets valid, a recording holds exactly the samples since its beginning, data only grows |
| Progress | 2 connections, one may hang up, 1 line | every request answered, sessions end |
| Lifecycle | 2 devices, one may block, 2 connections, queue of 2, daemon or not | start and stop, look-ups of devices that race the clear |
| ClientSession | 2 counters (one records 2 intervals, the other is at most started), 1 device, 2 ticks, server may die | intervals paired with sets and inside them, replies in step and complete, queries answered, calls return, the refinement |
| Printing | 2 sets, 2 lines, slices of 0, 1 and 4 samples, stride up to 2, masks over the bits 0, 3, 5 | lines aligned in the reply; tables exact at full rate; states, energy of a set; the streaming function receives exactly what is sent |
| LineMasks | texts of up to 7 tokens over 3 numbers, masks of 3 bits, device of 2 lines | mask and session have the lines named, no overrun |
| Plugins | 2 counters, 4 ticks, replies of up to 3 samples, 2 devices | stamps inside the measurement, time line in order, no session left |
| Config | command lines of 2 options, files of 2 devices, with each mistake | complete devices, served up to the first mistake |
| Json | texts of up to 9 tokens, 3 levels | a text is read if and only if it begins with a JSON value, as that value, whatever follows |
| Sampling | 5 drivers, 2 lines, 3 cycles, queue of 1, 2 counters, words 7, 256 and 32768 | whole samples in order, streams, registers |
| V_Gap | 2 connections, 1 line, 3 samples | see below |

Bounds. Two sessions suffice for every race found in the code: each is
between one session and one other session or the consumer. Two lines are needed
where loops over lines interleave (the counts) or where layouts differ (the
printing functions); the properties of buffers speak
of one line at a time. Two samples let the consumer be in the middle of a store
when a session clears, stops or starts. A session may record again and again
(START begins afresh); a second set next to the first matters for the shape of
the sets, which RefCounts checks. In Printing, lengths
include empty slices, uneven lines, and lengths not divisible by the stride;
the bits leave gaps in the mask, and let it name bits that are no lines of the
device. In LineMasks a mask of three bits is small enough for texts to name
numbers outside it and to overrun the array; seven tokens hold two ranges.
In Sampling a queue of one is full whenever the consumer is late; the words have
flag bits, both bytes, and the sign bit. In Json nine tokens hold an object
with two members or nested brackets with an error inside. In ClientSession the
clock needs two values to tell early from late stamps, and `MaxIntervals` bounds
the intervals the code bounds by the length of `timing`.

Where deadlock is not checked, the system may stop: all connections of the
model have ended, the process has, or the input has been consumed.

Fairness. In Progress every connection thread is scheduled, and a thread that
waits for `counter_lock` gets it at last: the lock is held for a short loop
without I/O, and the same thread cannot ask for it again without a round trip to
its client. Clients owe nothing. In Lifecycle main and the devices' threads are
scheduled and a driver's read returns, except for the devices in `Stalling`. No
signal and no client action is assumed. In ClientSession the client's thread goes
on when a reply, a field or the end of its connection has arrived, and the server's
threads handle requests that have arrived (both blocked in a read that has
something to return); the program need not make calls, and failures are not fair.

### Disagreements between code and documentation

`V_Gap` states what a comment says of a set (counter.hpp:47), and TLC
finds a behaviour of the code that contradicts it: `stop()` reads the end of the
set after the unlock, and may include samples of another session's recording.

Other disagreements that the models contain; those marked (T) were also seen as
TLC counterexamples to the comment's statement. No run is kept for them, and the
properties of the passing runs say what does hold beside them. `TablesExact` and `EnergyOfOneSet` leave out
set 0 of several sets (`SetInDispute`), `TablesExact` also several lines of several
sets and a single later set as text, and the properties about exact data
the intervals above 1.

Server:

* a client that vanishes while recording leaves its lines active for ever,
  since `~Counter` does not deactivate (counter.cpp:94; device.hpp:101 says a
  line stays active "until the last one lets go");
* the race on `++nextid` (counter.cpp:59) makes a well-behaved session leave its
  lines enabled, and so does an ERROR reply that throws too (counter.cpp:85, 299);
* an append that overlaps a clear brings back slots nobody wrote (device.cpp:116);
* the daemon has no sampling threads: they are created before the fork
  (server.cpp:209), and README.md:35 says the server keeps sampling;
* `restart()` replies ERROR when a set is open (counter.cpp:141), where
  counter.hpp:82 says it does not (`Reject`);
* the aggregate loop leaves on equality (counter.cpp:198), so for
  intervals above 1 part of an aggregate series stays 0 (`Turns`), and the
  non-aggregate reply is strided twice (counter.cpp:220): it is shorter than
  `watts_sets` announces, where counter.hpp:90 says it is resampled to the frequency
  asked for (T);
* `stop_devices` prints OK for every device, since it tests the flag it has just
  cleared (server.cpp:175, `DeviceStopped`);
* a device that an open connection uses is not destroyed when device_map is
  cleared (server.cpp:186, server.hpp:132 says it is): main returns without
  (`DropDevice`) (T);
* the map is cleared without a lock while connection threads search it, and one may
  come away with a device that is gone, where server.hpp:118 promises a device or
  nullptr (`Dangling`) (T);
* `cmd_status` announces the size of `counter_map` and walks it with no lock: it may
  leave a counter out, send another number than announced, or follow an iterator to
  an erased one (info.cpp:96), where info.hpp:56 says a full dump (T);
* the comment at server.cpp:313 speaks of catching typos before the server
  starts; it starts, with the devices before the mistake (`Throw`);
* a comment of parse_configfile (server.cpp:302) leaves duplicates to the JSON
  reader, which lets the last of two members with one key win
  (`readObjectColon`);
* after a comment inside an object any token is taken for a comma, and an empty
  key lets the object end after a comma (`readObjectComma`, `readObjectName`);
* tokens behind the root value of a configuration file are accepted: the reader's
  default is `failIfExtra` off (jsoncpp.cpp:1257, 2188);
* `pmlib_server.cpp:50` declares the long option as `damonize`, and README.md
  documents `--daemonize`; only `-d` works (`ReadOption`);
* `twosToInt` returns to an unsigned short: negative readings of an INA219 wrap
  (APCape.hpp:148), and a line with metric shunt_voltage reports power.

Client:

* the server sends samples set by set, and the functions other than
  pm_print_data_text look for them line by line over all sets (csv:133): with
  several sets and several lines they print others (`LineMajor`), where csv:11 says
  the lines and set asked for define what is printed (T);
* pm_print_data_text begins its running offset at 0 whichever set is printed first
  (text:117), so a later set alone is printed with the samples of an earlier one (T);
* "If parameter set is 0 all sets will be printed" (csv:13, and alike text, stdout
  and paraver): the code prints the first set for 0 and all for -1 (T); for the
  number of sets itself it reads beyond `watts_sets`;
* pm_calculate_energy adds into sums that were reserved with `calloc(0, ...)`
  (line 79) and not reset between sets (`Heaps`), where line 10 says only lines and
  set selected are printed (T);
* pm_get_and_print_data_paraver increments `read` before it compares it with the
  limits of the set (line 223): the last sample of a set is not printed, and a later set
  begins with one of the set before (`StreamRow`) (T);
* pm_get_and_print_data_paraver with a stride above 1 waits for samples that
  never come (`Receiving`);
* when this function refuses the set it has already sent GET and read the sizes
  (pm_get_and_print_data_paraver.c:188, 235): all of `watts` stays in the connection,
  and the next call takes it for its own reply (`StreamConsumed` says so);
* pm_print_data_paraver_cstates and _pstates take `set` 0 for all, and otherwise
  the header of set `set - 1` with the data of `set`;
* pm_print_data_text advances by all bits of the mask, those that are no lines
  of the device included (`n_lines_counter`);
* `lineas` overflows when a text names lines more than 128 times, and `cad` has
  no room for the terminator of a number of three digits (pm_set_lines.c:37);
* the Score-P plugin never stops its counters, so the server refuses to finalize
  them and the library ends the program (`scorep_finalize`); the samples of a
  second counter are squeezed into what the first one's fetch left of the shared
  interval.

## Proofs

TLAPS proves 34 results for every value of the constants: any number of
connections, lines, samples and sets, of devices, of counters and intervals, of
cycles, tokens and bits. The assumptions are the named ASSUMEs of the modules:
the set of connections is finite, bounds are natural numbers (and not 0 where the
code has at least one, as for the lines of a device and the capacity of a queue),
register words have 16 bits, and the value for "nobody" is no connection.
TLC evaluates each of them on the runs.
Each proof has one inductive invariant, found with TLC on the bounds of the runs,
a lemma for each action (or for each conjunct and action) and a last section
that derives the properties.

* **CounterSessionsProofs**: `TypeCorrect`, `EnabledExact`, `ActiveExact`,
  `SlicesSafe`, `SetsWellFormed`, `HeldDataSafe`, all from `Inv`, and
  `NoSampleMissed`.
  The counts are inductive once `Control` says that
  only the owner of `counter_lock` is inside a loop and what has been done of it;
  each loop step moves one Counter in or out of the set of holders, and the
  cardinality moves with it. That a slice stays in its buffer
  (`SlicesInBuffer`) is not inductive: the step that records it uses sizes read
  earlier, hence `SizesRead`; a size read stays valid because a held buffer only
  grows, which rests on `EnabledCount` (a clear means that nobody holds
  the line) and on `LoadedSizeBounds` (the consumer's stale size is never below the
  present one, so a late store never shortens a buffer).
  `SetsWhileReading` carries the shape of the sets over the steps between the
  change of status and the record. `NoSampleMissed`
  (`RecordingMissesNoSample`) follows from `RecordingInv`, which adds two parts to `Inv`. `Recorded` says of every beginning
  read, also of one that `start()` has not recorded yet, that behind it lie exactly
  the samples since `begun`, from the first one (`HoldsSamples`). `StoreSize` says that
  a buffer still has the size that the consumer loaded, or was cleared. The
  counts do the rest: a line that a session activated is one
  the consumer finds active (`ActiveCount`), and nobody clears it (`EnabledCount`).
* **DeviceLifecycleProofs**: `TypeCorrect`, `ServesOnlyWorking`,
  `ThreadsEndFirst` and the action property `DeviceStaysForConnection`, from `Inv`
  with `ThreadsNest` (run() outlives the driver's loop), `NotYetStarted` (a device
  is started once) and `StartedSoFar`. A pointer into freed memory is a holder's
  too; the property is about the moment at which a live device would begin to die.
* **ClientSessionProofs**: `TypeCorrect`, `StaysInStep`, `CountsAgree`,
  `IntervalsCovered`, `RepliesComplete`, `QueriesCorrect`, and `Refinement`:
  `Spec => ImplementsRecorder`. The properties speak of a counter between two calls;
  `Inv` says what holds inside of a call too, on either side of the moment at
  which the session handles it (`CountInv`, `ClosedInv`, `OpenInv`). That rests on
  `CallInv` and `ChannelInv`: a connection carries one message at a time, of the
  call in progress. For the refinement each action of client and server is shown
  to be one step of the recorder or to leave `mode`, `sets` and `fetched`
  alone; `Inv` supplies that a get is answered only with closed sets.
* **DeviceSamplingProofs**: `BuffersWhole`, `ReadingsExact` and the
  action property `StreamForward`. `SampleInv` says, for each driver, which lines
  hold which cycle at each place of its loop, so that what `yield` pushes is whole;
  `QueueInv` carries the order over queue and consumer; `CopyInv` says that a
  vector being copied is behind the sample. `ReadingsExact` is arithmetic on all
  16-bit words.
* **ConfigFileProofs**: `LinesComplete` and `PrefixServed`. What is served, what
  is being read and what is to come are the file's devices in order
  (`MapInv`, `TodoInv`). `DevInv`: the lines read have different numbers below the
  driver's size, so by cardinality a device with enough of them has all.
* **TracePluginsProofs**: `NoSessionLeft` and the action properties `StampsWithin`
  and `TimelineForward`. Whether `finalize` finds every session depends on the
  names: `OwnInv` says that the second of two entries with one name never gets a
  session, `AddInv` that otherwise every session is its entry's.
* **LineMasksProofs**: `MaskExact`, `ArrayLargeEnough`, `SessionLinesExact`.
  `ScanInv` says what the scanner's variables mean at every token: `l` is a number
  that is still to be added exactly when no dash precedes it, `sep` tells whether
  a range has just been added, and `lineas` holds the lines of the items
  done (`Done`). The array bound is a counting argument: different bits of the mask
  are at most `NBits`.

* **ClientPrintProofs**: `LinesAligned`, `TablesCorrect`, `StatesCorrect`,
  `EnergyCorrect`, `StreamComplete`, from `Inv` (`ReplyLayout`), for replies of any
  size. `SumInv` and `LineInv` say where the part of the reply that the loops have
  copied lies, in terms of `watts_sets` (`SizesInv`) and of the number of lines;
  `ShareInv` counts the elements that hold samples of a line, which needs that no
  sample lies in two slices of its line (`SetsInv`). What a printing function
  prints is then compared with what was recorded, cell by cell: the position it
  computes is where the line's series starts (`LineMajorStart`, `TextStart`),
  and the column it computes is the line's (`Ranks`: the places of the bits of a mask
  are 1 to their number, by counting; `ColumnsOfLines`). Both hold
  only under the conditions that `TablesExact` names: one line or one set for the
  printers other than pm_print_data_text, and not set 0 of several sets.
  `EnergyCorrect` holds whatever the accumulators held. `StreamComplete` is about
  two nested loops with counters of their own: `StreamInv` relates `read`,
  `read_from_line` and `current_line`, and since the reply consists of whole lines
  (`WholeLines`) the loops meet an element whenever they wait for one
  (`ElementIsThere`) and end when all are taken (`Taken`).

Some definitions have the form they have because of the proofs. The loops of
LineMasks and of `Counter::get` are steps and not folds, `getMemberNames` of
JsonValue is stated through positions in the file, the bits of a mask through
`Rank` and `Nth`, and a printout keeps its rows set by set. `NoOverrun` says "none
twice" by items that share no line (`NamedOnce`).

Only model-checked:

* `StartupDecides`, `ShutdownCompletes`, `EveryRequestAnswered`,
  `SessionEndsAfterHangup` and `CallsReturn`: liveness under fairness is out of
  the prover's reach;
* `ReadsLeadingValue`: its reference definition is recursive, and what it means for
  every text needs induction over data.

## Plan

Every safety property that a run checks has a theorem, except
`ReadsLeadingValue`. What could come next:

1. `IntervalRecorder` on its own: that a fetch yields exactly the intervals
   recorded, which `Refinement` then carries over to client and server.
2. Buffers with an identity, so that an iterator which `get()` holds while the
   consumer appends for another session can be told from a valid one.

## Not modelled

* Third-party code: STXXL (except the append of a vector), Boost, and of jsoncpp
  what the server does not use or what only concerns characters: the scanning
  of characters into tokens, decoding of numbers and strings, the writers, the
  older `Reader`, comments kept for writing, and `json.h`.
* Device I/O below a frame or a line (serial settings, sysfs, I2C calls), the byte
  layout of messages, signal masks and the pid file of the daemon.
* Log files, console colours, file headers, units and the times that printing
  functions compute for their rows, which are floating point.
* `client/plugins/dataheap_plugin.c`, which talks to another data base and not
  to PMLib, and the legacy Python server.
* The memory of a buffer has no identity in the model, so invalidated iterators
  (`get()` during another session's recording, with `std::vector`) and the
  references a driver's loop keeps to its constructor's arguments
  (WattsUp.hpp:53) are not covered; nor is the overflow of offsets after 2^31
  samples or of `timing` after 5000 intervals (pm_create_counter.c:177), which
  the bounds stay below.
* The test `lines.size() < _n_lines` in `Device::run` never succeeds, because
  `parse_configfile` refuses such a device, and is left out.
