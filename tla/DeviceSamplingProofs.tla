------------------------ MODULE DeviceSamplingProofs ------------------------
(***************************************************************************)
(* Safety of the samples' way from the drivers to those who read them, for *)
(* any number of lines, any capacity of data_queue and any words on the    *)
(* bus.                                                                    *)
(***************************************************************************)
EXTENDS DeviceSampling, SequenceTheorems, TLAPS

Sample == [Line -> Nat]

SamplingType ==
    /\ driver \in Drivers /\ thread \in {"opening", "waiting", "filling", "ended"}
    /\ sample \in Sample /\ next \in 0 .. NumLines /\ cycle \in Nat
    /\ queue \in Seq(Sample) /\ data \in Seq(Sample)

ReaderType ==
    /\ reader \in {"none", "streaming", "ended"}
    /\ copy \in Seq(Nat) /\ Len(copy) <= NumLines
    /\ stream \in Seq(Nat) /\ (stream # <<>> => Len(stream) = NumLines)

\* No line is ahead of the cycle; where a driver is in its cycle shows in the
\* lines.  Only a WattsUp, which has one line, can let a cycle pass.
SampleInv ==
    /\ \A l \in Line : sample[l] <= cycle
    /\ FillsAll =>
          \A l \in Line :
             /\ thread = "filling" => IF l < next THEN sample[l] = cycle ELSE sample[l] < cycle
             /\ thread # "filling" => sample[l] = sample[0]
             /\ driver # "WattsUp" => sample[l] >= cycle - 1
             /\ driver # "WattsUp" /\ thread # "filling" => sample[l] = cycle

\* A sample that was pushed: whole, and of a cycle that is over.
Pushed(s) ==
    /\ \A l \in Line : s[l] = s[0]
    /\ s[0] <= cycle /\ (thread = "filling" => s[0] < cycle)

\* What is buffered and what is queued, in the order of the cycles.
QueueInv ==
    FillsAll =>
        /\ \A i \in 1 .. Len(queue) : Pushed(queue[i])
        /\ \A i \in 1 .. Len(data) : Pushed(data[i])
        /\ \A i, j \in 1 .. Len(queue) : i < j => queue[i][0] < queue[j][0]
        /\ \A i, j \in 1 .. Len(data) : i < j => data[i][0] < data[j][0]
        /\ \A i \in 1 .. Len(data), j \in 1 .. Len(queue) : data[i][0] < queue[j][0]

\* A reader's copy is behind the sample, and ahead of what it sent last.
CopyInv ==
    /\ \A i \in 1 .. Len(stream) : stream[i] <= sample[i - 1]
    /\ \A i \in 1 .. Len(copy) :
          copy[i] <= sample[i - 1] /\ (i <= Len(stream) => stream[i] <= copy[i])
    /\ FillsAll => \A i, j \in 1 .. Len(copy) : i < j => copy[j] >= copy[i] - 1

(***************************************************************************)
(* The inductive invariant: that buffered samples are whole rests on where *)
(* the driver is in its cycle when it pushes (SampleInv) and on the order  *)
(* across the queue (QueueInv); that a stream never goes back, on the copy *)
(* being behind the sample (CopyInv).                                      *)
(***************************************************************************)
Inv ==
    /\ SamplingType /\ ReaderType
    /\ SampleInv /\ QueueInv /\ CopyInv /\ NonNegativeReadingsExact

----------------------------------------------------------------------------
\* The steps of a driver's thread, by what they do to the sample.
Rests ==
    /\ thread # "filling" /\ thread' \in {"waiting", "ended"}
    /\ Drive /\ UNCHANGED <<sample, next, cycle, queue_vars>>
Skips ==
    /\ driver = "WattsUp" /\ thread # "filling" /\ thread' \in {"waiting", "ended"}
    /\ cycle' = cycle + 1 /\ Drive /\ UNCHANGED <<sample, next, queue_vars>>
Writes(l) ==
    /\ Write(l)
    /\ \/ sample' = [sample EXCEPT ![l] = cycle]
       \/ ~FillsAll /\ sample' = sample

\* Every driver's loop is made of these steps.
LEMMA DriverSteps ==
    ASSUME Driving
    PROVE  \/ Rests
           \/ thread = "waiting" /\ Begins
           \/ Skips
           \/ \E l \in Line : Writes(l)
           \/ yield
<1>1. CASE Open
  <2>1. thread = "opening" /\ thread' \in {"waiting", "ended"}
    BY <1>1 DEF Open
  <2>2. Drive /\ UNCHANGED <<sample, next, cycle, queue_vars>>
    BY <1>1 DEF Open
  <2> QED BY <2>1, <2>2 DEF Rests
<1>2. CASE LoopEnds
  BY <1>2 DEF LoopEnds, Rests
<1>3. CASE DummyCycle
  BY <1>3 DEF DummyCycle, Wakes
<1>4. CASE ArduPowerCycle
  BY <1>4 DEF ArduPowerCycle, Wakes
<1>5. CASE APCapeCycle
  BY <1>5 DEF APCapeCycle, Wakes
<1>6. CASE LMGFrame
  <2>1. CASE Begins
    BY <1>6, <2>1 DEF LMGFrame, Wakes
  <2>2. CASE thread' = "ended" /\ Drive /\ UNCHANGED <<sample, next, cycle, bus, queue_vars>>
    BY <1>6, <2>2 DEF LMGFrame, Wakes, Rests
  <2> QED BY <1>6, <2>1, <2>2 DEF LMGFrame
<1>7. CASE WattsUpLine
  BY <1>7 DEF WattsUpLine, Wakes, Skips
<1>8. ASSUME NEW l \in Line, FillLine(l) PROVE Writes(l)
  BY <1>8 DEF FillLine, Writes
<1>9. ASSUME NEW l \in Line, ArduPowerLine(l) PROVE Writes(l)
  BY <1>9 DEF ArduPowerLine, Writes, FillsAll
<1>10. ASSUME NEW l \in Line, APCapeLine(l) PROVE Writes(l)
  BY <1>10 DEF APCapeLine, Writes
<1> QED BY <1>1, <1>2, <1>3, <1>4, <1>5, <1>6, <1>7, <1>8, <1>9, <1>10 DEF Driving

\* Who leaves the driver's variables and the queue alone.
LEMMA OthersSteps ==
    ASSUME [Next]_vars, ~Driving, ~pop
    PROVE  UNCHANGED <<driver_vars, queue_vars>>
<1>1. CASE Stop
  BY <1>1 DEF Stop
<1>2. CASE Reading
  <2>1. Reads
    BY <1>2 DEF Reading, read_device, get_sample, SendSample, ClientLeaves
  <2> QED BY <2>1 DEF Reads
<1>3. CASE Status
  <2>1. Reports
    BY <1>3 DEF Status, StatusSize, StatusCounter, Register, Deregister
  <2> QED BY <2>1 DEF Reports
<1>4. CASE UNCHANGED vars
  BY <1>4 DEF vars
<1> QED BY <1>1, <1>2, <1>3, <1>4 DEF Next

\* A device keeps its driver, and with it its lines.
LEMMA DriverFixed ==
    ASSUME [Next]_vars
    PROVE  /\ driver' = driver /\ NumLines' = NumLines /\ Line' = Line /\ Sample' = Sample
           /\ FillsAll' = FillsAll
<1>1. Driving => Drive
  BY DriverSteps DEF Rests, Begins, Skips, Writes, Write, yield
<1>2. driver' = driver
  <2>1. CASE Driving
    BY <1>1, <2>1 DEF Drive
  <2>2. CASE pop
    BY <2>2 DEF pop, driver_vars
  <2>3. CASE UNCHANGED <<driver_vars, queue_vars>>
    BY <2>3 DEF driver_vars
  <2> QED BY <2>1, <2>2, <2>3, OthersSteps
<1> QED BY <1>2 DEF NumLines, Line, Sample, FillsAll

\* A device has a first line.
LEMMA LinesType == NumLines \in Nat \ {0} /\ Line = 0 .. NumLines - 1 /\ 0 \in Line
<1>1. NumLines \in Nat \ {0}
  <2>1. CASE driver = "WattsUp"
    BY <2>1 DEF NumLines
  <2>2. CASE driver # "WattsUp"
    BY <2>2, DeviceSamplingAssumption DEF NumLines
  <2> QED BY <2>1, <2>2
<1> QED BY <1>1 DEF Line

\* Who leaves the reader alone.
LEMMA ReaderAlone ==
    ASSUME [Next]_vars, ~Reading
    PROVE  UNCHANGED reader_vars
<1>1. CASE Driving
  <2>1. Drive
    BY <1>1, DriverSteps DEF Rests, Begins, Skips, Writes, Write, yield
  <2> QED BY <2>1 DEF Drive
<1>2. CASE pop
  BY <1>2 DEF pop
<1>3. CASE Stop
  BY <1>3 DEF Stop
<1>4. CASE Status
  <2>1. Reports
    BY <1>4 DEF Status, StatusSize, StatusCounter, Register, Deregister
  <2> QED BY <2>1 DEF Reports
<1>5. CASE UNCHANGED vars
  BY <1>5 DEF vars
<1> QED BY <1>1, <1>2, <1>3, <1>4, <1>5 DEF Next

----------------------------------------------------------------------------
\* The types of the samples and of the buffers they go through.
LEMMA SamplingTypeStep == SamplingType /\ [Next]_vars => SamplingType'
<1> SUFFICES ASSUME SamplingType, [Next]_vars PROVE SamplingType'
  OBVIOUS
<1>0. /\ driver' = driver /\ NumLines' = NumLines /\ Sample' = Sample
      /\ NumLines \in Nat \ {0} /\ Line = 0 .. NumLines - 1
  BY DriverFixed, LinesType
<1> USE DEF queue_vars
<1>1. CASE Rests
  BY <1>0, <1>1 DEF SamplingType, Rests
<1>2. CASE Begins
  BY <1>0, <1>2 DEF SamplingType, Begins
<1>3. CASE Skips
  BY <1>0, <1>3 DEF SamplingType, Skips
<1>4. ASSUME NEW l \in Line, Writes(l) PROVE SamplingType'
  <2>1. sample' \in Sample
    BY <1>4 DEF SamplingType, Writes, Sample
  <2>2. next' \in 0 .. NumLines
    BY <1>0, <1>4 DEF Writes, Write
  <2> QED BY <1>0, <1>4, <2>1, <2>2 DEF SamplingType, Writes, Write
<1>5. CASE yield
  <2>1. queue' \in Seq(Sample)
    BY <1>5, AppendProperties DEF SamplingType, yield
  <2> QED BY <1>0, <1>5, <2>1 DEF SamplingType, yield
<1>6. CASE pop
  <2>1. queue' \in Seq(Sample) /\ Head(queue) \in Sample
    BY <1>6, HeadTailProperties DEF SamplingType, pop
  <2>2. data' \in Seq(Sample)
    BY <1>6, <2>1, AppendProperties DEF SamplingType, pop
  <2> QED BY <1>0, <1>6, <2>1, <2>2 DEF SamplingType, pop, driver_vars
<1>7. CASE UNCHANGED <<driver_vars, queue_vars>>
  BY <1>0, <1>7 DEF SamplingType, driver_vars
<1> QED BY <1>1, <1>2, <1>3, <1>4, <1>5, <1>6, <1>7, DriverSteps, OthersSteps

\* A copy never has more elements than the device has lines.
LEMMA ReaderTypeStep == SamplingType /\ ReaderType /\ [Next]_vars => ReaderType'
<1> SUFFICES ASSUME SamplingType, ReaderType, [Next]_vars PROVE ReaderType'
  OBVIOUS
<1>0. NumLines' = NumLines /\ NumLines \in Nat \ {0} /\ Line = 0 .. NumLines - 1
  BY DriverFixed, LinesType
<1>1. CASE ~Reading
  BY <1>0, <1>1, ReaderAlone DEF ReaderType, reader_vars
<1>2. CASE read_device
  BY <1>0, <1>2 DEF ReaderType, read_device
<1>3. CASE get_sample
  <2>1. copy \in Seq(Nat) /\ Len(copy) \in Nat /\ Len(copy) < NumLines
    BY <1>3 DEF ReaderType, get_sample
  <2>2. sample[Len(copy)] \in Nat
    BY <1>0, <2>1 DEF SamplingType, Sample
  <2>3. copy' \in Seq(Nat) /\ Len(copy') = Len(copy) + 1
    BY <1>3, <2>1, <2>2, AppendProperties DEF get_sample
  <2> QED BY <1>0, <1>3, <2>1, <2>3 DEF ReaderType, get_sample
<1>4. <<>> \in Seq(Nat) /\ Len(<<>>) = 0
  OBVIOUS
<1>5. CASE SendSample
  BY <1>0, <1>4, <1>5 DEF ReaderType, SendSample
<1>6. CASE ClientLeaves
  BY <1>0, <1>4, <1>6 DEF ReaderType, ClientLeaves
<1> QED BY <1>1, <1>2, <1>3, <1>5, <1>6 DEF Reading

\* Where the driver is in its cycle shows in the lines.
LEMMA SampleStep == SamplingType /\ SampleInv /\ [Next]_vars => SampleInv'
<1> SUFFICES ASSUME SamplingType, SampleInv, [Next]_vars PROVE SampleInv'
  OBVIOUS
<1>0. /\ driver' = driver /\ Line' = Line /\ FillsAll' = FillsAll
      /\ NumLines \in Nat \ {0} /\ Line = 0 .. NumLines - 1
  BY DriverFixed, LinesType
<1>1. cycle \in Nat /\ next \in 0 .. NumLines /\ \A l \in Line : sample[l] \in Nat
  BY DEF SamplingType, Sample
<1> USE DEF queue_vars, driver_vars
<1>2. CASE Rests
  BY <1>0, <1>2 DEF SampleInv, Rests
<1>3. CASE thread = "waiting" /\ Begins
  BY <1>0, <1>1, <1>3 DEF SampleInv, Begins
<1>4. CASE Skips
  BY <1>0, <1>1, <1>4 DEF SampleInv, Skips
<1>5. ASSUME NEW l \in Line, Writes(l) PROVE SampleInv'
  <2>1. /\ thread = "filling" /\ thread' = "filling" /\ next = l /\ next' = l + 1
        /\ cycle' = cycle
    BY <1>5 DEF Writes, Write
  <2>2. CASE sample' = [sample EXCEPT ![l] = cycle]
    <3>1. \A k \in Line : sample'[k] = IF k = l THEN cycle ELSE sample[k]
      BY <2>2 DEF SamplingType, Sample
    <3> QED BY <1>0, <1>1, <2>1, <3>1 DEF SampleInv
  <2>3. CASE ~FillsAll /\ sample' = sample
    BY <1>0, <2>1, <2>3 DEF SampleInv
  <2> QED BY <1>5, <2>2, <2>3 DEF Writes
<1>6. CASE yield
  <2>1. thread = "filling" /\ next = NumLines /\ thread' # "filling"
    BY <1>6 DEF yield, Filled
  <2> QED BY <1>0, <1>1, <1>6, <2>1 DEF SampleInv, yield
<1>7. CASE pop
  BY <1>0, <1>7 DEF SampleInv, pop
<1>8. CASE UNCHANGED <<driver_vars, queue_vars>>
  BY <1>0, <1>8 DEF SampleInv
<1> QED BY <1>2, <1>3, <1>4, <1>5, <1>6, <1>7, <1>8, DriverSteps, OthersSteps

----------------------------------------------------------------------------
\* What the consumer has and what it is about to get.

\* The order of the cycles survives a step that moves no sample.
LEMMA QueueFrame ==
    ASSUME SamplingType, QueueInv, UNCHANGED queue_vars, Line' = Line, FillsAll' = FillsAll,
           cycle' \in Nat,
           \/ cycle' = cycle /\ (thread' = "filling" => thread = "filling")
           \/ cycle' = cycle + 1
    PROVE  QueueInv'
<1> SUFFICES ASSUME FillsAll PROVE QueueInv'
  BY DEF QueueInv
<1>1. /\ cycle \in Nat
      /\ \A i \in 1 .. Len(queue) : queue[i] \in Sample
      /\ \A i \in 1 .. Len(data) : data[i] \in Sample
  BY ElementOfSeq DEF SamplingType
<1>2. \A i \in 1 .. Len(queue) : Pushed(queue[i])'
  <2> SUFFICES ASSUME NEW i \in 1 .. Len(queue) PROVE Pushed(queue[i])'
    OBVIOUS
  <2>1. queue[i] \in Sample /\ Pushed(queue[i])
    BY <1>1 DEF QueueInv
  <2>2. queue'[i] = queue[i]
    BY DEF queue_vars
  <2>3. (\A l \in Line : queue[i][l] = queue[i][0]) /\ queue[i][0] \in Nat
        /\ queue[i][0] <= cycle /\ (thread = "filling" => queue[i][0] < cycle)
    BY <2>1, LinesType DEF Pushed, Sample
  <2> QED BY <1>1, <2>2, <2>3 DEF Pushed
<1>3. \A i \in 1 .. Len(data) : Pushed(data[i])'
  <2> SUFFICES ASSUME NEW i \in 1 .. Len(data) PROVE Pushed(data[i])'
    OBVIOUS
  <2>1. data[i] \in Sample /\ Pushed(data[i])
    BY <1>1 DEF QueueInv
  <2>2. data'[i] = data[i]
    BY DEF queue_vars
  <2>3. (\A l \in Line : data[i][l] = data[i][0]) /\ data[i][0] \in Nat
        /\ data[i][0] <= cycle /\ (thread = "filling" => data[i][0] < cycle)
    BY <2>1, LinesType DEF Pushed, Sample
  <2> QED BY <1>1, <2>2, <2>3 DEF Pushed
<1> QED BY <1>2, <1>3 DEF QueueInv, queue_vars

\* A push and a pop keep the order of the cycles.
LEMMA QueueStep == SamplingType /\ SampleInv /\ QueueInv /\ [Next]_vars => QueueInv'
<1> SUFFICES ASSUME SamplingType, SampleInv, QueueInv, [Next]_vars, FillsAll' PROVE QueueInv'
  BY DEF QueueInv
<1>0. /\ Line' = Line /\ FillsAll' = FillsAll
      /\ NumLines \in Nat \ {0} /\ Line = 0 .. NumLines - 1 /\ 0 \in Line
  BY DriverFixed, LinesType
<1>1. cycle \in Nat /\ \A l \in Line : sample[l] \in Nat
  BY DEF SamplingType, Sample
<1>2. CASE Rests
  BY <1>0, <1>1, <1>2, QueueFrame DEF Rests
<1>3. CASE Begins
  <2>1. cycle' = cycle + 1 /\ UNCHANGED queue_vars
    BY <1>3 DEF Begins
  <2>2. cycle' \in Nat
    BY <1>1, <2>1
  <2> QED BY <1>0, <2>1, <2>2, QueueFrame
<1>4. CASE Skips
  <2>1. cycle' = cycle + 1 /\ UNCHANGED queue_vars
    BY <1>4 DEF Skips
  <2>2. cycle' \in Nat
    BY <1>1, <2>1
  <2> QED BY <1>0, <2>1, <2>2, QueueFrame
<1>5. ASSUME NEW l \in Line, Writes(l) PROVE QueueInv'
  BY <1>0, <1>1, <1>5, QueueFrame DEF Writes, Write
<1>6. CASE yield
  <2>1. /\ thread = "filling" /\ next = NumLines /\ thread' # "filling" /\ cycle' = cycle
        /\ data' = data
    BY <1>6 DEF yield, Filled
  <2>2. \A l \in Line : sample[l] = cycle
    BY <1>0, <1>1, <2>1 DEF SampleInv
  <2>3. CASE queue' = queue
    BY <1>0, <1>1, <2>1, <2>3, QueueFrame DEF queue_vars
  <2>4. CASE queue' = Append(queue, sample)
    <3>1. /\ queue \in Seq(Sample) /\ Len(queue) \in Nat /\ Len(queue') = Len(queue) + 1
          /\ \A i \in 1 .. Len(queue) : queue'[i] = queue[i]
          /\ queue'[Len(queue) + 1] = sample
      BY <2>4, AppendProperties DEF SamplingType
    <3>2. /\ \A i \in 1 .. Len(queue) : queue[i][0] \in Nat /\ queue[i][0] < cycle
          /\ \A i \in 1 .. Len(data) : data[i][0] \in Nat /\ data[i][0] < cycle
      <4>1. /\ \A i \in 1 .. Len(queue) : queue[i] \in Sample /\ Pushed(queue[i])
            /\ \A i \in 1 .. Len(data) : data[i] \in Sample /\ Pushed(data[i])
        BY <1>0, ElementOfSeq DEF SamplingType, QueueInv
      <4> QED BY <1>0, <2>1, <4>1 DEF Sample, Pushed
    <3>3. /\ \A i \in 1 .. Len(queue) : \A l \in Line : queue[i][l] = queue[i][0]
          /\ \A i \in 1 .. Len(data) : \A l \in Line : data[i][l] = data[i][0]
      BY <1>0 DEF QueueInv, Pushed
    <3>4. sample[0] = cycle
      BY <1>0, <2>2
    <3>5. \A i \in 1 .. Len(queue') : Pushed(queue[i])'
      BY <1>0, <1>1, <2>1, <2>2, <3>1, <3>2, <3>3 DEF Pushed
    <3>6. \A i \in 1 .. Len(data') : Pushed(data[i])'
      BY <1>0, <1>1, <2>1, <3>2, <3>3 DEF Pushed
    <3>7. \A i, j \in 1 .. Len(queue') : i < j => queue'[i][0] < queue'[j][0]
      <4> SUFFICES ASSUME NEW i \in 1 .. Len(queue'), NEW j \in 1 .. Len(queue'), i < j
                   PROVE  queue'[i][0] < queue'[j][0]
        OBVIOUS
      <4>1. i \in 1 .. Len(queue) /\ queue'[i] = queue[i]
        BY <3>1
      <4>2. CASE j \in 1 .. Len(queue)
        BY <1>0, <3>1, <4>1, <4>2 DEF QueueInv
      <4>3. CASE j = Len(queue) + 1
        BY <3>1, <3>2, <3>4, <4>1, <4>3
      <4> QED BY <3>1, <4>2, <4>3
    <3>8. \A i \in 1 .. Len(data), j \in 1 .. Len(queue') : data[i][0] < queue'[j][0]
      BY <1>0, <3>1, <3>2, <3>4 DEF QueueInv
    <3> QED BY <1>0, <2>1, <3>5, <3>6, <3>7, <3>8 DEF QueueInv
  <2> QED BY <1>6, <2>3, <2>4 DEF yield
<1>7. CASE pop
  <2>1. /\ queue \in Seq(Sample) /\ queue # <<>> /\ data \in Seq(Sample)
        /\ cycle' = cycle /\ thread' = thread
    BY <1>7 DEF SamplingType, pop, driver_vars
  <2>2. /\ Len(queue) \in Nat \ {0} /\ Len(queue') = Len(queue) - 1
        /\ \A i \in 1 .. Len(queue') : queue'[i] = queue[i + 1]
    BY <1>7, <2>1, HeadTailProperties DEF pop
  <2>3. Head(queue) = queue[1] /\ queue[1] \in Sample
    BY <2>1, <2>2, ElementOfSeq
  <2>4. /\ Len(data) \in Nat /\ Len(data') = Len(data) + 1
        /\ \A i \in 1 .. Len(data) : data'[i] = data[i]
        /\ data'[Len(data) + 1] = queue[1]
    BY <1>7, <2>1, <2>3, AppendProperties DEF pop
  <2>5. \A i \in 1 .. Len(queue') : Pushed(queue[i])'
    <3> SUFFICES ASSUME NEW i \in 1 .. Len(queue') PROVE Pushed(queue[i])'
      OBVIOUS
    <3>1. i + 1 \in 1 .. Len(queue) /\ queue'[i] = queue[i + 1]
      BY <2>2
    <3>2. Pushed(queue[i + 1])
      BY <1>0, <3>1 DEF QueueInv
    <3> QED BY <1>0, <2>1, <3>1, <3>2 DEF Pushed
  <2>6. \A i \in 1 .. Len(data') : Pushed(data[i])'
    BY <1>0, <2>1, <2>2, <2>4 DEF QueueInv, Pushed
  <2>7. \A i, j \in 1 .. Len(queue') : i < j => queue'[i][0] < queue'[j][0]
    BY <1>0, <2>2 DEF QueueInv
  <2>8. \A i, j \in 1 .. Len(data') : i < j => data'[i][0] < data'[j][0]
    <3> SUFFICES ASSUME NEW i \in 1 .. Len(data'), NEW j \in 1 .. Len(data'), i < j
                 PROVE  data'[i][0] < data'[j][0]
      OBVIOUS
    <3>1. i \in 1 .. Len(data) /\ data'[i] = data[i]
      BY <2>4
    <3>2. CASE j \in 1 .. Len(data)
      BY <1>0, <2>4, <3>1, <3>2 DEF QueueInv
    <3>3. CASE j = Len(data) + 1
      BY <1>0, <2>2, <2>4, <3>1, <3>3 DEF QueueInv
    <3> QED BY <2>4, <3>2, <3>3
  <2>9. \A i \in 1 .. Len(data'), j \in 1 .. Len(queue') : data'[i][0] < queue'[j][0]
    <3> SUFFICES ASSUME NEW i \in 1 .. Len(data'), NEW j \in 1 .. Len(queue')
                 PROVE  data'[i][0] < queue'[j][0]
      OBVIOUS
    <3>1. j + 1 \in 1 .. Len(queue) /\ queue'[j] = queue[j + 1]
      BY <2>2
    <3>2. CASE i \in 1 .. Len(data)
      BY <1>0, <2>4, <3>1, <3>2 DEF QueueInv
    <3>3. CASE i = Len(data) + 1
      <4>1. 1 \in 1 .. Len(queue) /\ 1 < j + 1
        BY <2>2
      <4> QED BY <1>0, <2>4, <3>1, <3>3, <4>1 DEF QueueInv
    <3> QED BY <2>4, <3>2, <3>3
  <2> QED BY <2>5, <2>6, <2>7, <2>8, <2>9 DEF QueueInv
<1>8. CASE UNCHANGED <<driver_vars, queue_vars>>
  BY <1>0, <1>1, <1>8, QueueFrame DEF driver_vars
<1> QED BY <1>2, <1>3, <1>4, <1>5, <1>6, <1>7, <1>8, DriverSteps, OthersSteps

----------------------------------------------------------------------------
\* The reader's copy.

\* A driver never takes a value back.
LEMMA SampleGrows ==
    ASSUME SamplingType, SampleInv, [Next]_vars
    PROVE  \A l \in Line : sample[l] \in Nat /\ sample'[l] \in Nat /\ sample'[l] >= sample[l]
<1>1. cycle \in Nat /\ \A l \in Line : sample[l] \in Nat /\ sample[l] <= cycle
  BY DEF SamplingType, Sample, SampleInv
<1>2. CASE sample' = sample
  BY <1>1, <1>2
<1>3. ASSUME NEW k \in Line, Writes(k), sample' # sample
      PROVE  \A l \in Line : sample'[l] \in Nat /\ sample'[l] >= sample[l]
  <2>1. \A l \in Line : sample'[l] = IF l = k THEN cycle ELSE sample[l]
    BY <1>3 DEF Writes, SamplingType, Sample
  <2> QED BY <1>1, <2>1
<1>4. CASE ~\E k \in Line : Writes(k)
  <2>1. Driving => sample' = sample
    BY <1>4, DriverSteps DEF Rests, Begins, Skips, yield
  <2>2. pop => sample' = sample
    BY DEF pop, driver_vars
  <2>3. ~Driving /\ ~pop => sample' = sample
    BY OthersSteps DEF driver_vars
  <2> QED BY <1>1, <2>1, <2>2, <2>3
<1> QED BY <1>1, <1>2, <1>3, <1>4

\* What is sent or copied stays behind the sample.
LEMMA CopyStep == SamplingType /\ ReaderType /\ SampleInv /\ CopyInv /\ [Next]_vars => CopyInv'
<1> SUFFICES ASSUME SamplingType, ReaderType, SampleInv, CopyInv, [Next]_vars PROVE CopyInv'
  OBVIOUS
<1>0. /\ Line' = Line /\ FillsAll' = FillsAll
      /\ NumLines \in Nat \ {0} /\ Line = 0 .. NumLines - 1
  BY DriverFixed, LinesType
<1>1. /\ copy \in Seq(Nat) /\ stream \in Seq(Nat) /\ Len(copy) \in 0 .. NumLines
      /\ Len(stream) \in 0 .. NumLines
      /\ \A i \in 1 .. Len(copy) : copy[i] \in Nat
      /\ \A i \in 1 .. Len(stream) : stream[i] \in Nat
  <2>1. Len(copy) \in Nat /\ Len(stream) \in Nat /\ (stream = <<>> => Len(stream) = 0)
    BY DEF ReaderType
  <2>2. /\ \A i \in 1 .. Len(copy) : copy[i] \in Nat
        /\ \A i \in 1 .. Len(stream) : stream[i] \in Nat
    BY ElementOfSeq DEF ReaderType
  <2> QED BY <1>0, <2>1, <2>2 DEF ReaderType
<1>2. \A l \in Line : sample[l] \in Nat /\ sample'[l] \in Nat /\ sample'[l] >= sample[l]
  BY SampleGrows
<1>3. CASE UNCHANGED <<copy, stream>>
  <2>1. \A i \in 1 .. Len(stream) : stream[i] <= sample'[i - 1]
    <3> SUFFICES ASSUME NEW i \in 1 .. Len(stream) PROVE stream[i] <= sample'[i - 1]
      OBVIOUS
    <3>1. i - 1 \in Line /\ stream[i] \in Nat /\ stream[i] <= sample[i - 1]
      BY <1>0, <1>1 DEF CopyInv
    <3> QED BY <1>2, <3>1
  <2>2. \A i \in 1 .. Len(copy) : copy[i] <= sample'[i - 1]
    <3> SUFFICES ASSUME NEW i \in 1 .. Len(copy) PROVE copy[i] <= sample'[i - 1]
      OBVIOUS
    <3>1. i - 1 \in Line /\ copy[i] \in Nat /\ copy[i] <= sample[i - 1]
      BY <1>0, <1>1 DEF CopyInv
    <3> QED BY <1>2, <3>1
  <2> QED BY <1>0, <1>3, <2>1, <2>2 DEF CopyInv
<1>4. CASE get_sample
  <2>1. /\ Len(copy) < NumLines /\ stream' = stream /\ sample' = sample
        /\ copy' = Append(copy, sample[Len(copy)])
    BY <1>4 DEF get_sample, Reads, driver_vars
  <2>2. sample[Len(copy)] \in Nat /\ Len(copy) \in Line
    BY <1>0, <1>1, <1>2, <2>1
  <2>3. /\ Len(copy') = Len(copy) + 1 /\ copy'[Len(copy) + 1] = sample[Len(copy)]
        /\ \A i \in 1 .. Len(copy) : copy'[i] = copy[i]
    BY <1>1, <2>1, <2>2, AppendProperties
  <2>4. \A i \in 1 .. Len(copy') :
           copy'[i] <= sample[i - 1] /\ (i <= Len(stream) => stream[i] <= copy'[i])
    <3> SUFFICES ASSUME NEW i \in 1 .. Len(copy')
                 PROVE  copy'[i] <= sample[i - 1] /\ (i <= Len(stream) => stream[i] <= copy'[i])
      OBVIOUS
    <3>1. CASE i \in 1 .. Len(copy)
      BY <2>3, <3>1 DEF CopyInv
    <3>2. CASE i = Len(copy) + 1
      <4>1. i - 1 = Len(copy) /\ copy'[i] = sample[i - 1]
        BY <1>1, <2>3, <3>2
      <4>2. i <= Len(stream) => stream[i] <= sample[i - 1]
        BY <1>1, <3>2 DEF CopyInv
      <4> QED BY <2>2, <4>1, <4>2
    <3> QED BY <1>1, <2>3, <3>1, <3>2
  <2>5. ASSUME FillsAll
        PROVE  \A i \in 1 .. Len(copy) : sample[Len(copy)] >= copy[i] - 1
    <3> SUFFICES ASSUME NEW i \in 1 .. Len(copy) PROVE sample[Len(copy)] >= copy[i] - 1
      OBVIOUS
    <3>1. copy[i] <= sample[i - 1] /\ i - 1 \in Line
      BY <1>0, <1>1 DEF CopyInv
    <3>2. driver # "WattsUp"
      <4>1. NumLines > 1
        BY <1>0, <1>1, <2>1
      <4> QED BY <4>1 DEF NumLines
    <3>3. sample[i - 1] <= cycle /\ sample[Len(copy)] >= cycle - 1 /\ cycle \in Nat
      BY <2>2, <2>5, <3>1, <3>2 DEF SampleInv, SamplingType
    <3>4. copy[i] \in Nat /\ sample[i - 1] \in Nat /\ sample[Len(copy)] \in Nat
      BY <1>1, <1>2, <2>2, <3>1
    <3> QED BY <3>1, <3>3, <3>4
  <2>6. FillsAll => \A i, j \in 1 .. Len(copy') : i < j => copy'[j] >= copy'[i] - 1
    <3> SUFFICES ASSUME FillsAll, NEW i \in 1 .. Len(copy'), NEW j \in 1 .. Len(copy'), i < j
                 PROVE  copy'[j] >= copy'[i] - 1
      OBVIOUS
    <3>1. i \in 1 .. Len(copy) /\ copy'[i] = copy[i]
      BY <1>1, <2>3
    <3>2. CASE j \in 1 .. Len(copy)
      BY <2>3, <3>1, <3>2 DEF CopyInv
    <3>3. CASE j = Len(copy) + 1
      BY <2>3, <2>5, <3>1, <3>3
    <3> QED BY <1>1, <2>3, <3>2, <3>3
  <2> QED BY <1>0, <2>1, <2>4, <2>6 DEF CopyInv
<1>5. CASE SendSample
  <2>1. stream' = copy /\ copy' = <<>> /\ sample' = sample
    BY <1>5 DEF SendSample, Reads, driver_vars
  <2>2. Len(copy') = 0
    BY <2>1
  <2> QED BY <2>1, <2>2 DEF CopyInv
<1>6. CASE ClientLeaves
  <2>1. stream' = stream /\ copy' = <<>> /\ sample' = sample
    BY <1>6 DEF ClientLeaves, Reads, driver_vars
  <2>2. Len(copy') = 0
    BY <2>1
  <2> QED BY <2>1, <2>2 DEF CopyInv
<1>7. read_device => UNCHANGED <<copy, stream>>
  BY DEF read_device
<1>8. ~Reading => UNCHANGED <<copy, stream>>
  BY ReaderAlone DEF reader_vars
<1> QED BY <1>3, <1>4, <1>5, <1>6, <1>7, <1>8 DEF Reading

----------------------------------------------------------------------------
\* The bus of an APCape.

\* The bytes of a word whose sign bit is clear read back as the word.
LEMMA BytesOfWord ==
    ASSUME NEW w \in Nat, w < 65536
    PROVE  Word(Bytes(w)) = w /\ (w < 32768 => ~IsNegative(Bytes(w)))
<1>1. w \div 256 \in 0 .. 255 /\ w = 256 * (w \div 256) + (w % 256)
  OBVIOUS
<1>2. (w \div 256) % 256 = w \div 256
  BY <1>1
<1>3. Bytes(w)[1] = w \div 256 /\ Bytes(w)[2] = w % 256
  BY <1>2 DEF Bytes, High, Low
<1>4. w < 32768 => (w \div 256) \div 128 # 1
  OBVIOUS
<1> QED BY <1>1, <1>3, <1>4 DEF Word, IsNegative

\* What a line shows of a word that was read,
Shown(metric, bytes) == ReadLine(metric, TRUE, bytes).raw

LEMMA ReadLineExact ==
    ASSUME NEW metric, NEW w \in Nat, w < 32768
    PROVE  Shown(metric, Bytes(w)) = IF metric = "voltage" THEN 4 * (w \div 8) ELSE w
<1>1. Word(Bytes(w)) = w /\ ~IsNegative(Bytes(w))
  BY BytesOfWord, SMT
<1>2. Ushort((w \div 8) * 4) = 4 * (w \div 8)
  BY SMT DEF Ushort
<1>3. Shown(metric, Bytes(w)) =
         IF metric = "voltage" THEN Ushort((Word(Bytes(w)) \div 8) * 4) ELSE Word(Bytes(w))
  BY <1>1, SMT DEF Shown, ReadLine, getBusVoltage_raw, getCurrent_raw, getPower_raw
<1> QED BY <1>1, <1>2, <1>3, SMT

\* and of one that was not.
LEMMA ReadLineFails ==
    ASSUME NEW metric, NEW bytes
    PROVE  ReadLine(metric, FALSE, bytes).raw = 0
  BY SMT DEF ReadLine, getBusVoltage_raw, getCurrent_raw, getPower_raw

\* Only a read of the bus and the end of a cycle change what was read last.
LEMMA BusSteps ==
    ASSUME [Next]_vars
    PROVE  bus' = bus \/ bus' = NoWord \/ \E l \in Line : APCapeLine(l)
<1>1. CASE Driving
  <2>1. CASE Open
    BY <2>1 DEF Open
  <2>2. CASE LoopEnds
    BY <2>2 DEF LoopEnds
  <2>3. CASE Begins
    BY <2>3 DEF Begins
  <2>4. CASE LMGFrame
    BY <2>3, <2>4 DEF LMGFrame
  <2>5. CASE WattsUpLine
    BY <2>3, <2>5 DEF WattsUpLine
  <2>6. ASSUME NEW l \in Line, FillLine(l) PROVE bus' = bus
    BY <2>6 DEF FillLine
  <2>7. ASSUME NEW l \in Line, ArduPowerLine(l) PROVE bus' = bus
    BY <2>7 DEF ArduPowerLine
  <2>8. CASE yield
    BY <2>8 DEF yield
  <2> QED BY <1>1, <2>1, <2>2, <2>3, <2>4, <2>5, <2>6, <2>7, <2>8
          DEF Driving, DummyCycle, ArduPowerCycle, APCapeCycle
<1>2. CASE pop
  BY <1>2 DEF pop, driver_vars
<1>3. ~Driving /\ ~pop => bus' = bus
  BY OthersSteps DEF driver_vars
<1> QED BY <1>1, <1>2, <1>3

\* A reading is exact when it is made and stays what it was.
LEMMA BusStep == NonNegativeReadingsExact /\ [Next]_vars => NonNegativeReadingsExact'
<1> SUFFICES ASSUME NonNegativeReadingsExact, [Next]_vars PROVE NonNegativeReadingsExact'
  OBVIOUS
<1>1. CASE bus' = bus
  BY <1>1 DEF NonNegativeReadingsExact
<1>2. CASE bus' = NoWord
  BY <1>2 DEF NonNegativeReadingsExact, NoWord
<1>3. ASSUME NEW l \in Line, APCapeLine(l) PROVE NonNegativeReadingsExact'
  <2>1. PICK ok \in BOOLEAN, w \in Words :
           bus' = [metric |-> Metric[l], ok |-> ok, word |-> w,
                   reading |-> ReadLine(Metric[l], ok, Bytes(w))]
    BY <1>3 DEF APCapeLine
  <2>2. w \in Nat /\ w < 65536
    BY <2>1, DeviceSamplingAssumption
  <2>3. /\ bus'.metric = Metric[l] /\ bus'.ok = ok /\ bus'.word = w
        /\ bus'.reading = ReadLine(Metric[l], ok, Bytes(w))
    BY <2>1, Zenon
  <2>4. CASE ok = FALSE
    <3>1. ~bus'.ok /\ bus'.reading.raw = 0
      BY <2>3, <2>4, ReadLineFails, Zenon
    <3> QED BY <3>1 DEF NonNegativeReadingsExact
  <2>5. CASE ok = TRUE
    <3>1. bus'.ok /\ bus'.reading.raw = Shown(Metric[l], Bytes(w))
      BY <2>3, <2>5, Zenon DEF Shown
    <3>2. w < 32768 => bus'.reading.raw = IF Metric[l] = "voltage" THEN 4 * (w \div 8) ELSE w
      BY <2>2, <3>1, ReadLineExact, SMT
    <3>3. bus'.metric = Metric[l] /\ bus'.word = w
      BY <2>3
    <3> QED BY <3>1, <3>2, <3>3, SMT DEF NonNegativeReadingsExact
  <2> QED BY <2>1, <2>4, <2>5
<1> QED BY <1>1, <1>2, <1>3, BusSteps

----------------------------------------------------------------------------
\* The invariant holds initially,
LEMMA InitInv == Init => Inv
<1> SUFFICES ASSUME Init PROVE Inv
  OBVIOUS
<1> USE DEF Init
<1>1. /\ NumLines \in Nat \ {0} /\ Line = 0 .. NumLines - 1 /\ 0 \in Line
      /\ \A S : <<>> \in Seq(S) /\ Len(<<>>) = 0
  BY LinesType
<1>2. SamplingType
  BY <1>1 DEF SamplingType, Sample
<1>3. ReaderType /\ CopyInv /\ QueueInv
  BY <1>1 DEF ReaderType, CopyInv, QueueInv
<1>4. SampleInv
  BY <1>1 DEF SampleInv
<1>5. NonNegativeReadingsExact
  BY DEF NonNegativeReadingsExact, NoWord
<1> QED BY <1>2, <1>3, <1>4, <1>5 DEF Inv

\* and every step keeps it.
LEMMA InvStep == Inv /\ [Next]_vars => Inv'
  BY SamplingTypeStep, ReaderTypeStep, SampleStep, QueueStep, CopyStep,
     BusStep DEF Inv

(***************************************************************************)
(* The inductive invariant holds in every state.                           *)
(***************************************************************************)
THEOREM Invariance == Spec => []Inv
  BY InitInv, InvStep, PTL DEF Spec

(***************************************************************************)
(* What the consumer of Device::run keeps are whole samples in the order   *)
(* of the cycles, for every driver that fills its lines, though the queue  *)
(* may be full at any push.                                                *)
(***************************************************************************)
THEOREM BuffersWhole == Spec => []BufferedSamplesWhole
<1>1. Inv => BufferedSamplesWhole
  <2> SUFFICES ASSUME Inv, FillsAll PROVE BufferedSamplesWhole
    BY DEF BufferedSamplesWhole
  <2>1. DOMAIN data = 1 .. Len(data)
    BY LenProperties DEF Inv, SamplingType
  <2> QED BY <2>1 DEF Inv, QueueInv, Pushed, BufferedSamplesWhole
<1> QED BY <1>1, Invariance, PTL

(***************************************************************************)
(* A line of an APCape shows what the register holds, for every word whose *)
(* sign bit is clear.                                                      *)
(***************************************************************************)
THEOREM ReadingsExact == Spec => []NonNegativeReadingsExact
<1>1. Inv => NonNegativeReadingsExact
  BY DEF Inv
<1> QED BY <1>1, Invariance, PTL

(***************************************************************************)
(* read_device never streams a value older than one it has streamed, and   *)
(* mixes at most two cycles in a vector, whatever the driver writes while  *)
(* the vector is copied.                                                   *)
(***************************************************************************)
THEOREM StreamForward == Spec => StreamNeverGoesBack
<1> DEFINE Forward ==
       stream' # stream =>
          /\ stream # <<>> => \A l \in DOMAIN stream' : stream'[l] >= stream[l]
          /\ FillsAll => \A k, l \in DOMAIN stream' : k < l => stream'[l] >= stream'[k] - 1
<1>1. ASSUME Inv, [Next]_vars PROVE [Forward]_vars
  <2>1. stream' # stream => SendSample
    <3>1. Reading \/ stream' = stream
      BY <1>1, ReaderAlone DEF reader_vars
    <3> QED BY <3>1 DEF Reading, read_device, get_sample, ClientLeaves
  <2>2. CASE SendSample
    <3>1. stream' = copy /\ Len(copy) = NumLines
      BY <2>2 DEF SendSample
    <3>2. DOMAIN stream' = 1 .. Len(copy) /\ Len(copy) \in Nat
      BY <1>1, <3>1, LenProperties DEF Inv, ReaderType
    <3>3. ASSUME stream # <<>>, NEW l \in 1 .. Len(copy) PROVE copy[l] >= stream[l]
      <4>1. Len(stream) = NumLines
        BY <1>1, <3>3 DEF Inv, ReaderType
      <4>2. l <= Len(stream) /\ stream[l] \in Nat /\ copy[l] \in Nat
        BY <1>1, <3>1, <3>2, <4>1, ElementOfSeq DEF Inv, ReaderType
      <4> QED BY <1>1, <4>2 DEF Inv, CopyInv
    <3>4. FillsAll => \A k, l \in 1 .. Len(copy) : k < l => copy[l] >= copy[k] - 1
      BY <1>1 DEF Inv, CopyInv
    <3> QED BY <3>1, <3>2, <3>3, <3>4
  <2> QED BY <2>1, <2>2
<1>2. Inv /\ [Next]_vars => [Forward]_vars
  BY <1>1
<1> HIDE DEF Forward
<1>3. Spec => [][Forward]_vars
  BY <1>2, Invariance, PTL DEF Spec
<1> QED BY <1>3 DEF StreamNeverGoesBack, Forward

=============================================================================
