----------------------- MODULE CounterSessionsProofs -----------------------
(***************************************************************************)
(* Proofs about CounterSessions, for every number of lines and every       *)
(* finite set of connections.                                              *)
(***************************************************************************)
EXTENDS CounterSessions, FiniteSetTheorems, TLAPS

\* A function on 1 .. m is a sequence of m elements.
LEMMA FunctionIsSeq ==
    ASSUME NEW S, NEW m \in Nat, NEW f \in [1 .. m -> S]
    PROVE  f \in Seq(S) /\ Len(f) = m
OBVIOUS

(***************************************************************************)
(* vector::push_back with a size n loaded earlier yields n + 1 elements;   *)
(* if the buffer has not outgrown n meanwhile, they continue it.           *)
(***************************************************************************)
LEMMA PushBack ==
    ASSUME NEW s \in Seq(0 .. MaxSamples), NEW n \in Nat,
           NEW obj \in 0 .. MaxSamples
    PROVE  /\ push_back(s, n, obj) \in Seq(0 .. MaxSamples)
           /\ Len(push_back(s, n, obj)) = n + 1
           /\ Len(s) <= n =>
                \A i \in 1 .. Len(s) : push_back(s, n, obj)[i] = s[i]
<1> DEFINE r == push_back(s, n, obj)
<1>1. r \in [1 .. n + 1 -> 0 .. MaxSamples]
  BY DeviceAssumption DEF push_back, Garbage
<1>2. r \in Seq(0 .. MaxSamples) /\ Len(r) = n + 1
  BY <1>1, FunctionIsSeq, n + 1 \in Nat, Zenon
<1>3. ASSUME Len(s) <= n, NEW i \in 1 .. Len(s)
      PROVE  r[i] = s[i]
  BY <1>3 DEF push_back
<1> QED BY <1>2, <1>3

\* What the sets of a session are after start(), restart() or stop().
LEMMA SetsAfterType ==
    ASSUME NEW ss \in Seq(Set), NEW now \in Offsets,
           NEW o \in {"START", "CONTINUE", "STOP"}
    PROVE  SetsAfter(o, ss, now) \in Seq(Set)
<1>1. NoOffsets \in Offsets
  BY DEF NoOffsets, Offsets
<1>2. OpenedSet(now) \in Set
  BY <1>1 DEF OpenedSet, Set
<1>3. CASE o = "START"
  BY <1>2, <1>3 DEF SetsAfter
<1>4. CASE o = "CONTINUE"
  BY <1>2, <1>4 DEF SetsAfter
<1>5. CASE o = "STOP"
  <2>1. SetsAfter(o, ss, now) = [ss EXCEPT ![Len(ss)] = ClosedSet(ss[Len(ss)], now)]
    BY <1>5 DEF SetsAfter
  <2>2. CASE ss = <<>>
    <3>1. [ss EXCEPT ![Len(ss)] = ClosedSet(ss[Len(ss)], now)] = ss
      BY <2>2
    <3> QED BY <2>1, <3>1
  <2>3. CASE ss # <<>>
    <3>1. Len(ss) \in 1 .. Len(ss) /\ ss[Len(ss)] \in Set
      BY <2>3
    <3>2. ClosedSet(ss[Len(ss)], now) \in Set
      BY <3>1 DEF ClosedSet, Set
    <3> QED BY <2>1, <3>1, <3>2
  <2> QED BY <2>2, <2>3
<1> QED BY <1>3, <1>4, <1>5

----------------------------------------------------------------------------
\* Every step keeps the types.
LEMMA TypeStep == TypeOK /\ Control /\ [Next]_vars => TypeOK'
<1> SUFFICES ASSUME TypeOK, Control, [Next]_vars PROVE TypeOK'
  OBVIOUS
<1> USE DEF Goto, deviceVars, lineVars, consumerVars, threadVars, counterVars
<1>1. CASE UNCHANGED vars
  BY <1>1 DEF TypeOK, vars
<1>2. CASE Pop /\ UNCHANGED <<threadVars, counterVars>>
  BY <1>2, DeviceAssumption DEF TypeOK, Pop
<1>3. ASSUME NEW l \in Line, VisitLine(l), UNCHANGED <<threadVars, counterVars>>
      PROVE  TypeOK'
  BY <1>3 DEF TypeOK, VisitLine
<1>4. ASSUME NEW l \in Line, LoadSize(l), UNCHANGED <<threadVars, counterVars>>
      PROVE  TypeOK'
  BY <1>4 DEF TypeOK, LoadSize
<1>5. ASSUME NEW l \in Line, StoreElement(l), UNCHANGED <<threadVars, counterVars>>
      PROVE  TypeOK'
  <2>1. data[l] \in Seq(0 .. MaxSamples) /\ oldSize \in Nat /\ popped \in 0 .. MaxSamples
    BY DEF TypeOK
  <2>2. push_back(data[l], oldSize, popped) \in Seq(0 .. MaxSamples)
    BY <2>1, PushBack
  <2> QED BY <1>5, <2>2 DEF TypeOK, StoreElement
<1>6. ASSUME NEW c \in Counter, LoadNextId(c) PROVE TypeOK'
  BY <1>6 DEF TypeOK, Location, LoadNextId
<1>7. ASSUME NEW c \in Counter, StoreNextId(c) PROVE TypeOK'
  BY <1>7 DEF TypeOK, Location, StoreNextId
<1>8. ASSUME NEW c \in Counter, RequestFails(c) PROVE TypeOK'
  BY <1>8 DEF TypeOK, Location, RequestFails
<1>9. ASSUME NEW c \in Counter, Register(c) PROVE TypeOK'
  BY <1>9 DEF TypeOK, Location, Register, LockAndLoop
<1>10. ASSUME NEW c \in Counter, Registered(c) PROVE TypeOK'
  BY <1>10 DEF TypeOK, Location, Registered, Unlock
<1>11. ASSUME NEW c \in Counter, Greet(c) PROVE TypeOK'
  BY <1>11 DEF TypeOK, Location, Greet
<1>12. ASSUME NEW c \in Counter, CatchCreate(c) PROVE TypeOK'
  <2>1. sets' \in [Counter -> Seq(Set)]
    <3>1. sets' = sets \/ sets' = [sets EXCEPT ![c] = <<>>]
      BY <1>12 DEF CatchCreate, SendErrorOrLeak, End
    <3>2. <<>> \in Seq(Set) /\ sets \in [Counter -> Seq(Set)]
      BY DEF TypeOK
    <3> QED BY <3>1, <3>2
  <2>2. pc' \in [Counter -> Location]
    BY <1>12 DEF CatchCreate, SendErrorOrLeak, End, TypeOK, Location
  <2> QED BY <1>12, <2>1, <2>2 DEF TypeOK, CatchCreate, SendErrorOrLeak, End
<1>13. ASSUME NEW c \in Counter, ReceiveFails(c) PROVE TypeOK'
  BY <1>13 DEF TypeOK, Location, ReceiveFails
<1>14. ASSUME NEW c \in Counter, LeaveRun(c) PROVE TypeOK'
  BY <1>14 DEF TypeOK, Location, LeaveRun
<1>15. ASSUME NEW c \in Counter, Reject(c) PROVE TypeOK'
  BY <1>15 DEF TypeOK, Location, Reject
<1>16. ASSUME NEW c \in Counter, StartCounter(c) PROVE TypeOK'
  BY <1>16 DEF TypeOK, Location, StartCounter, LockAndLoop
<1>17. ASSUME NEW c \in Counter, StopCounter(c) PROVE TypeOK'
  BY <1>17 DEF TypeOK, Location, StopCounter, LockAndLoop
<1>18. ASSUME NEW c \in Counter, ChangeStatus(c) PROVE TypeOK'
  BY <1>18 DEF TypeOK, Location, ChangeStatus, Unlock
<1>19. ASSUME NEW c \in Counter, RecordSet(c) PROVE TypeOK'
  <2>1. op[c] \in {"START", "CONTINUE", "STOP"}
    BY <1>19 DEF RecordSet, Control, ControlOf
  <2>2. SetsAfter(op[c], sets[c], sizes[c]) \in Seq(Set)
    BY <2>1, SetsAfterType DEF TypeOK
  <2>3. NoOffsets \in Offsets
    BY DEF NoOffsets, Offsets
  <2> QED BY <1>19, <2>2, <2>3 DEF TypeOK, RecordSet, Location
<1>20. ASSUME NEW c \in Counter, Get(c) PROVE TypeOK'
  BY <1>20 DEF TypeOK, Location, Get
<1>21. ASSUME NEW c \in Counter, Finalize(c) PROVE TypeOK'
  BY <1>21 DEF TypeOK, Location, Finalize
<1>22. ASSUME NEW c \in Counter, Reply(c) PROVE TypeOK'
  BY <1>22 DEF TypeOK, Location, Reply, Operation
<1>23. ASSUME NEW c \in Counter, CatchRun(c) PROVE TypeOK'
  <2>1. sets' \in [Counter -> Seq(Set)]
    <3>1. sets' = sets \/ sets' = [sets EXCEPT ![c] = <<>>]
      BY <1>23 DEF CatchRun, SendErrorOrLeak, End
    <3>2. <<>> \in Seq(Set) /\ sets \in [Counter -> Seq(Set)]
      BY DEF TypeOK
    <3> QED BY <3>1, <3>2
  <2>2. pc' \in [Counter -> Location]
    BY <1>23 DEF CatchRun, SendErrorOrLeak, End, TypeOK, Location
  <2> QED BY <1>23, <2>1, <2>2 DEF TypeOK, CatchRun, SendErrorOrLeak, End
<1>24. ASSUME NEW c \in Counter, SkipDeregister(c) PROVE TypeOK'
  BY <1>24 DEF TypeOK, Location, SkipDeregister, End
<1>25. ASSUME NEW c \in Counter, Deregister(c) PROVE TypeOK'
  BY <1>25 DEF TypeOK, Location, Deregister, LockAndLoop
<1>26. ASSUME NEW c \in Counter, DeregisterUnknown(c) PROVE TypeOK'
  BY <1>26 DEF TypeOK, Location, DeregisterUnknown, End
<1>27. ASSUME NEW c \in Counter, Deregistered(c) PROVE TypeOK'
  <2>1. counter_map' \subseteq Nat
    BY <1>27 DEF Deregistered, TypeOK
  <2>2. sets' \in [Counter -> Seq(Set)]
    BY <1>27 DEF Deregistered, End, TypeOK
  <2> QED BY <1>27, <2>1, <2>2 DEF TypeOK, Location, Deregistered, Unlock, End
<1>28. ASSUME NEW c \in Counter, ReceiveRequest(c) PROVE TypeOK'
  BY <1>28 DEF TypeOK, Location, ReceiveRequest
<1>29. ASSUME NEW c \in Counter, RefuseRequest(c) PROVE TypeOK'
  BY <1>29 DEF TypeOK, Location, RefuseRequest
<1>30. ASSUME NEW c \in Counter, Hangup(c) PROVE TypeOK'
  BY <1>30 DEF TypeOK, Location, Hangup
<1>31. ASSUME NEW c \in Counter, NEW o \in Operation, Receive(c, o) PROVE TypeOK'
  BY <1>31 DEF TypeOK, Receive, Location
<1>32. ASSUME NEW c \in Counter, NEW l \in Line, EnableLine(c, l) PROVE TypeOK'
  BY <1>32, SMTT(30) DEF TypeOK, Iterate, EnableLine, enable
<1>33. ASSUME NEW c \in Counter, NEW l \in Line, ActivateLine(c, l) PROVE TypeOK'
  BY <1>33, SMTT(30) DEF TypeOK, Iterate, ActivateLine, activate
<1>34. ASSUME NEW c \in Counter, NEW l \in Line, DeactivateLine(c, l) PROVE TypeOK'
  BY <1>34, SMTT(30) DEF TypeOK, Iterate, DeactivateLine, deactivate
<1>35. ASSUME NEW c \in Counter, NEW l \in Line, ReadSize(c, l) PROVE TypeOK'
  <2>1. TypeOK /\ popped \in Int /\ Latest(l) \in Int
    BY DEF TypeOK, Latest
  <2>2. begun' \in [Counter -> [Line -> Int]]
    BY <1>35, <2>1 DEF TypeOK, ReadSize
  <2> HIDE DEF Latest
  <2> QED BY <1>35, <2>1, <2>2, SMTT(30) DEF TypeOK, Iterate, ReadSize, Offsets
<1>36. ASSUME NEW c \in Counter, NEW l \in Line, DisableLine(c, l) PROVE TypeOK'
  <2>1. enabled' \in [Line -> Nat]
    BY <1>36 DEF DisableLine, disable, TypeOK
  <2>2. data' \in [Line -> Seq(0 .. MaxSamples)]
    <3>1. data' = data \/ data' = [data EXCEPT ![l] = <<>>]
      BY <1>36 DEF DisableLine, clear_data, TypeOK
    <3>2. <<>> \in Seq(0 .. MaxSamples) /\ data \in [Line -> Seq(0 .. MaxSamples)]
      BY DEF TypeOK
    <3> QED BY <3>1, <3>2
  <2> QED BY <1>36, <2>1, <2>2 DEF TypeOK, Iterate, DisableLine
<1> QED
  BY <1>1, <1>2, <1>3, <1>4, <1>5, <1>6, <1>7, <1>8, <1>9, <1>10, <1>11, <1>12,
  <1>13, <1>14, <1>15, <1>16, <1>17, <1>18, <1>19, <1>20, <1>21, <1>22, <1>23,
  <1>24, <1>25, <1>26, <1>27, <1>28, <1>29, <1>30, <1>31, <1>32, <1>33, <1>34,
  <1>35, <1>36
  DEF Next, Consumer, Thread, AwaitsClient, Construct, Serve, Destroy, LoopStep

\* Every step keeps what its place tells of a thread.
LEMMA ControlStep == TypeOK /\ Control /\ [Next]_vars => Control'
<1> SUFFICES ASSUME TypeOK, Control, [Next]_vars, NEW d \in Counter
             PROVE  ControlOf(d)'
  BY DEF Control
<1>a. ControlOf(d) /\ d # NoCounter
  BY DeviceAssumption DEF Control
<1> USE DEF Goto, deviceVars, lineVars, consumerVars, threadVars, counterVars
<1>1. CASE UNCHANGED vars
  BY <1>1, <1>a DEF ControlOf, vars
<1>2. CASE Consumer /\ UNCHANGED <<threadVars, counterVars>>
  BY <1>2, <1>a DEF ControlOf, Consumer, Pop, VisitLine, LoadSize, StoreElement
<1>3. ASSUME NEW c \in Counter, LoadNextId(c) PROVE ControlOf(d)'
  BY <1>3, <1>a DEF TypeOK, Control, ControlOf, Critical, Session, Before,
     LoadNextId
<1>4. ASSUME NEW c \in Counter, StoreNextId(c) PROVE ControlOf(d)'
  BY <1>4, <1>a DEF TypeOK, Control, ControlOf, Critical, Session, Before,
     StoreNextId
<1>5. ASSUME NEW c \in Counter, RequestFails(c) PROVE ControlOf(d)'
  BY <1>5, <1>a DEF TypeOK, Control, ControlOf, Critical, Session, Before,
     RequestFails
<1>6. ASSUME NEW c \in Counter, Register(c) PROVE ControlOf(d)'
  BY <1>6, <1>a DEF TypeOK, Control, ControlOf, Critical, Session, Before,
     Register, LockAndLoop
<1>7. ASSUME NEW c \in Counter, Registered(c) PROVE ControlOf(d)'
  BY <1>7, <1>a DEF TypeOK, Control, ControlOf, Critical, Session, Before,
     Registered, Unlock
<1>8. ASSUME NEW c \in Counter, Greet(c) PROVE ControlOf(d)'
  BY <1>8, <1>a DEF TypeOK, Control, ControlOf, Critical, Session, Before,
     Greet
<1>9. ASSUME NEW c \in Counter, CatchCreate(c) PROVE ControlOf(d)'
  BY <1>9, <1>a DEF TypeOK, Control, ControlOf, Critical, Session, Before,
     CatchCreate, SendErrorOrLeak, End
<1>10. ASSUME NEW c \in Counter, ReceiveFails(c) PROVE ControlOf(d)'
  BY <1>10, <1>a DEF TypeOK, Control, ControlOf, Critical, Session, Before,
     ReceiveFails
<1>11. ASSUME NEW c \in Counter, LeaveRun(c) PROVE ControlOf(d)'
  BY <1>11, <1>a DEF TypeOK, Control, ControlOf, Critical, Session, Before,
     LeaveRun
<1>12. ASSUME NEW c \in Counter, Reject(c) PROVE ControlOf(d)'
  BY <1>12, <1>a DEF TypeOK, Control, ControlOf, Critical, Session, Before,
     Reject
<1>13. ASSUME NEW c \in Counter, StartCounter(c) PROVE ControlOf(d)'
  BY <1>13, <1>a DEF TypeOK, Control, ControlOf, Critical, Session, Before,
     StartCounter, LockAndLoop, Accepts, Needs
<1>14. ASSUME NEW c \in Counter, StopCounter(c) PROVE ControlOf(d)'
  BY <1>14, <1>a DEF TypeOK, Control, ControlOf, Critical, Session, Before,
     StopCounter, LockAndLoop, Accepts, Needs
<1>15. ASSUME NEW c \in Counter, ChangeStatus(c) PROVE ControlOf(d)'
  BY <1>15, <1>a DEF TypeOK, Control, ControlOf, Critical, Session, Before,
     ChangeStatus, Unlock
<1>16. ASSUME NEW c \in Counter, RecordSet(c) PROVE ControlOf(d)'
  BY <1>16, <1>a DEF TypeOK, Control, ControlOf, Critical, Session, Before,
     RecordSet
<1>17. ASSUME NEW c \in Counter, Get(c) PROVE ControlOf(d)'
  BY <1>17, <1>a DEF TypeOK, Control, ControlOf, Critical, Session, Before,
     Get, Accepts, Needs
<1>18. ASSUME NEW c \in Counter, Finalize(c) PROVE ControlOf(d)'
  BY <1>18, <1>a DEF TypeOK, Control, ControlOf, Critical, Session, Before,
     Finalize, Accepts
<1>19. ASSUME NEW c \in Counter, Reply(c) PROVE ControlOf(d)'
  BY <1>19, <1>a DEF TypeOK, Control, ControlOf, Critical, Session, Before,
     Reply
<1>20. ASSUME NEW c \in Counter, CatchRun(c) PROVE ControlOf(d)'
  BY <1>20, <1>a DEF TypeOK, Control, ControlOf, Critical, Session, Before,
     CatchRun, SendErrorOrLeak, End
<1>21. ASSUME NEW c \in Counter, SkipDeregister(c) PROVE ControlOf(d)'
  BY <1>21, <1>a DEF TypeOK, Control, ControlOf, Critical, Session, Before,
     SkipDeregister, End
<1>22. ASSUME NEW c \in Counter, Deregister(c) PROVE ControlOf(d)'
  BY <1>22, <1>a DEF TypeOK, Control, ControlOf, Critical, Session, Before,
     Deregister, LockAndLoop
<1>23. ASSUME NEW c \in Counter, DeregisterUnknown(c) PROVE ControlOf(d)'
  BY <1>23, <1>a DEF TypeOK, Control, ControlOf, Critical, Session, Before,
     DeregisterUnknown, End
<1>24. ASSUME NEW c \in Counter, Deregistered(c) PROVE ControlOf(d)'
  BY <1>24, <1>a DEF TypeOK, Control, ControlOf, Critical, Session, Before,
     Deregistered, Unlock, End
<1>25. ASSUME NEW c \in Counter, ReceiveRequest(c) PROVE ControlOf(d)'
  BY <1>25, <1>a DEF TypeOK, Control, ControlOf, Critical, Session, Before,
     ReceiveRequest
<1>26. ASSUME NEW c \in Counter, RefuseRequest(c) PROVE ControlOf(d)'
  BY <1>26, <1>a DEF TypeOK, Control, ControlOf, Critical, Session, Before,
     RefuseRequest
<1>27. ASSUME NEW c \in Counter, Hangup(c) PROVE ControlOf(d)'
  BY <1>27, <1>a DEF TypeOK, Control, ControlOf, Critical, Session, Before,
     Hangup
<1>28. ASSUME NEW c \in Counter, NEW o \in Operation, Receive(c, o)
      PROVE  ControlOf(d)'
  BY <1>28, <1>a DEF TypeOK, ControlOf, Critical, Session, Before, Receive
<1>29. ASSUME NEW c \in Counter, NEW l \in Line, EnableLine(c, l)
      PROVE  ControlOf(d)'
  BY <1>29, <1>a DEF TypeOK, ControlOf, Iterate, EnableLine
<1>30. ASSUME NEW c \in Counter, NEW l \in Line, ActivateLine(c, l)
      PROVE  ControlOf(d)'
  BY <1>30, <1>a DEF TypeOK, ControlOf, Iterate, ActivateLine
<1>31. ASSUME NEW c \in Counter, NEW l \in Line, DeactivateLine(c, l)
      PROVE  ControlOf(d)'
  BY <1>31, <1>a DEF TypeOK, ControlOf, Iterate, DeactivateLine
<1>32. ASSUME NEW c \in Counter, NEW l \in Line, ReadSize(c, l)
      PROVE  ControlOf(d)'
  BY <1>32, <1>a DEF TypeOK, ControlOf, Iterate, ReadSize
<1>33. ASSUME NEW c \in Counter, NEW l \in Line, DisableLine(c, l)
      PROVE  ControlOf(d)'
  BY <1>33, <1>a DEF TypeOK, ControlOf, Iterate, DisableLine
<1> QED
  BY <1>1, <1>2, <1>3, <1>4, <1>5, <1>6, <1>7, <1>8, <1>9, <1>10, <1>11, <1>12,
  <1>13, <1>14, <1>15, <1>16, <1>17, <1>18, <1>19, <1>20, <1>21, <1>22, <1>23,
  <1>24, <1>25, <1>26, <1>27, <1>28, <1>29, <1>30, <1>31, <1>32, <1>33
  DEF Next, Thread, AwaitsClient, Construct, Serve, Destroy, LoopStep

----------------------------------------------------------------------------
Holders(l) == {c \in Counter : l \in Holding(c)}

\* The steps that enable or disable a line.
CountStep == \E c \in Counter, l \in Line : EnableLine(c, l) \/ DisableLine(c, l)

\* Any other step leaves the counts and what each Counter holds as they are.
LEMMA HoldingKept ==
    ASSUME TypeOK, Control, [Next]_vars, ~CountStep, NEW d \in Counter
    PROVE  Holding(d)' = Holding(d) /\ enabled' = enabled
<1>a. ControlOf(d)
  BY DEF Control
<1> USE DEF Goto, deviceVars, lineVars, consumerVars, threadVars, counterVars
<1>1. CASE UNCHANGED vars
  BY <1>1 DEF Holding, vars
<1>2. CASE Consumer /\ UNCHANGED <<threadVars, counterVars>>
  BY <1>2 DEF Holding, Consumer, Pop, VisitLine, LoadSize, StoreElement
<1>3. ASSUME NEW c \in Counter, LoadNextId(c)
      PROVE  Holding(d)' = Holding(d) /\ enabled' = enabled
  BY <1>3, <1>a DEF TypeOK, ControlOf, Before, Session, Holding, LoadNextId
<1>4. ASSUME NEW c \in Counter, StoreNextId(c)
      PROVE  Holding(d)' = Holding(d) /\ enabled' = enabled
  BY <1>4, <1>a DEF TypeOK, ControlOf, Before, Session, Holding, StoreNextId
<1>5. ASSUME NEW c \in Counter, RequestFails(c)
      PROVE  Holding(d)' = Holding(d) /\ enabled' = enabled
  BY <1>5, <1>a DEF TypeOK, ControlOf, Before, Session, Holding, RequestFails
<1>6. ASSUME NEW c \in Counter, Register(c)
      PROVE  Holding(d)' = Holding(d) /\ enabled' = enabled
  BY <1>6, <1>a DEF TypeOK, ControlOf, Before, Session, Holding, Register, LockAndLoop
<1>7. ASSUME NEW c \in Counter, Registered(c)
      PROVE  Holding(d)' = Holding(d) /\ enabled' = enabled
  BY <1>7, <1>a DEF TypeOK, ControlOf, Before, Session, Holding, Registered, LoopDone
<1>8. ASSUME NEW c \in Counter, Greet(c)
      PROVE  Holding(d)' = Holding(d) /\ enabled' = enabled
  BY <1>8, <1>a DEF TypeOK, ControlOf, Before, Session, Holding, Greet
<1>9. ASSUME NEW c \in Counter, CatchCreate(c)
      PROVE  Holding(d)' = Holding(d) /\ enabled' = enabled
  BY <1>9, <1>a, ZenonT(30) DEF TypeOK, ControlOf, Before, Session, Holding, CatchCreate,
            SendErrorOrLeak, End
<1>10. ASSUME NEW c \in Counter, ReceiveFails(c)
      PROVE  Holding(d)' = Holding(d) /\ enabled' = enabled
  BY <1>10, <1>a DEF TypeOK, ControlOf, Before, Session, Holding, ReceiveFails
<1>11. ASSUME NEW c \in Counter, LeaveRun(c)
      PROVE  Holding(d)' = Holding(d) /\ enabled' = enabled
  BY <1>11, <1>a DEF TypeOK, ControlOf, Before, Session, Holding, LeaveRun
<1>12. ASSUME NEW c \in Counter, Reject(c)
      PROVE  Holding(d)' = Holding(d) /\ enabled' = enabled
  BY <1>12, <1>a DEF TypeOK, ControlOf, Before, Session, Holding, Reject
<1>13. ASSUME NEW c \in Counter, StartCounter(c)
      PROVE  Holding(d)' = Holding(d) /\ enabled' = enabled
  BY <1>13, <1>a DEF TypeOK, ControlOf, Before, Session, Holding, StartCounter,
            LockAndLoop, Accepts
<1>14. ASSUME NEW c \in Counter, StopCounter(c)
      PROVE  Holding(d)' = Holding(d) /\ enabled' = enabled
  BY <1>14, <1>a DEF TypeOK, ControlOf, Before, Session, Holding, StopCounter,
            LockAndLoop, Accepts
<1>15. ASSUME NEW c \in Counter, ChangeStatus(c)
      PROVE  Holding(d)' = Holding(d) /\ enabled' = enabled
  BY <1>15, <1>a DEF TypeOK, ControlOf, Before, Session, Holding, ChangeStatus
<1>16. ASSUME NEW c \in Counter, RecordSet(c)
      PROVE  Holding(d)' = Holding(d) /\ enabled' = enabled
  BY <1>16, <1>a DEF TypeOK, ControlOf, Before, Session, Holding, RecordSet
<1>17. ASSUME NEW c \in Counter, Get(c)
      PROVE  Holding(d)' = Holding(d) /\ enabled' = enabled
  BY <1>17, <1>a DEF TypeOK, ControlOf, Before, Session, Holding, Get, Accepts
<1>18. ASSUME NEW c \in Counter, Finalize(c)
      PROVE  Holding(d)' = Holding(d) /\ enabled' = enabled
  BY <1>18, <1>a DEF TypeOK, ControlOf, Before, Session, Holding, Finalize, Accepts
<1>19. ASSUME NEW c \in Counter, Reply(c)
      PROVE  Holding(d)' = Holding(d) /\ enabled' = enabled
  BY <1>19, <1>a DEF TypeOK, ControlOf, Before, Session, Holding, Reply
<1>20. ASSUME NEW c \in Counter, CatchRun(c)
      PROVE  Holding(d)' = Holding(d) /\ enabled' = enabled
  BY <1>20, <1>a, ZenonT(30) DEF TypeOK, ControlOf, Before, Session, Holding, CatchRun,
            SendErrorOrLeak, End
<1>21. ASSUME NEW c \in Counter, SkipDeregister(c)
      PROVE  Holding(d)' = Holding(d) /\ enabled' = enabled
  BY <1>21, <1>a DEF TypeOK, ControlOf, Before, Session, Holding, SkipDeregister, End
<1>22. ASSUME NEW c \in Counter, Deregister(c)
      PROVE  Holding(d)' = Holding(d) /\ enabled' = enabled
  BY <1>22, <1>a DEF TypeOK, ControlOf, Before, Session, Holding, Deregister, LockAndLoop
<1>23. ASSUME NEW c \in Counter, DeregisterUnknown(c)
      PROVE  Holding(d)' = Holding(d) /\ enabled' = enabled
  BY <1>23, <1>a DEF TypeOK, ControlOf, Before, Session, Holding, DeregisterUnknown, End
<1>24. ASSUME NEW c \in Counter, Deregistered(c)
      PROVE  Holding(d)' = Holding(d) /\ enabled' = enabled
  BY <1>24, <1>a DEF TypeOK, ControlOf, Before, Session, Holding, Deregistered,
            End, LoopDone
<1>25. ASSUME NEW c \in Counter, ReceiveRequest(c)
      PROVE  Holding(d)' = Holding(d) /\ enabled' = enabled
  BY <1>25, <1>a DEF TypeOK, ControlOf, Before, Session, Holding, ReceiveRequest
<1>26. ASSUME NEW c \in Counter, RefuseRequest(c)
      PROVE  Holding(d)' = Holding(d) /\ enabled' = enabled
  BY <1>26, <1>a DEF TypeOK, ControlOf, Before, Session, Holding, RefuseRequest
<1>27. ASSUME NEW c \in Counter, Hangup(c)
      PROVE  Holding(d)' = Holding(d) /\ enabled' = enabled
  BY <1>27, <1>a DEF TypeOK, ControlOf, Before, Session, Holding, Hangup
<1>28. ASSUME NEW c \in Counter, NEW o \in Operation, Receive(c, o)
      PROVE  Holding(d)' = Holding(d) /\ enabled' = enabled
  BY <1>28 DEF TypeOK, Holding, Receive
<1>29. ASSUME NEW c \in Counter, NEW l \in Line, ActivateLine(c, l)
      PROVE  Holding(d)' = Holding(d) /\ enabled' = enabled
  BY <1>29 DEF TypeOK, Holding, Iterate, ActivateLine
<1>30. ASSUME NEW c \in Counter, NEW l \in Line, DeactivateLine(c, l)
      PROVE  Holding(d)' = Holding(d) /\ enabled' = enabled
  BY <1>30 DEF TypeOK, Holding, Iterate, DeactivateLine
<1>31. ASSUME NEW c \in Counter, NEW l \in Line, ReadSize(c, l)
      PROVE  Holding(d)' = Holding(d) /\ enabled' = enabled
  BY <1>31 DEF TypeOK, Holding, Iterate, ReadSize
<1> QED
  BY <1>1, <1>2, <1>3, <1>4, <1>5, <1>6, <1>7, <1>8, <1>9, <1>10, <1>11, <1>12,
  <1>13, <1>14, <1>15, <1>16, <1>17, <1>18, <1>19, <1>20, <1>21, <1>22, <1>23,
  <1>24, <1>25, <1>26, <1>27, <1>28, <1>29, <1>30, <1>31
  DEF Next, Thread, AwaitsClient, Construct, Serve, Destroy, LoopStep, CountStep

\* Line::_enabled counts the holders, whatever step is taken.
LEMMA EnabledStep ==
    TypeOK /\ Control /\ EnabledCount /\ [Next]_vars => EnabledCount'
<1> SUFFICES ASSUME TypeOK, Control, EnabledCount, [Next]_vars, NEW k \in Line
             PROVE  enabled'[k] = Cardinality(Holders(k)')
  BY DEF EnabledCount, Holders
<1>f. /\ IsFiniteSet(Holders(k))
      /\ enabled[k] = Cardinality(Holders(k))
      /\ enabled \in [Line -> Nat]
  BY DeviceAssumption, FS_Subset DEF EnabledCount, Holders, TypeOK
<1>1. CASE ~CountStep
  <2>1. Holders(k)' = Holders(k)
    BY <1>1, HoldingKept DEF Holders
  <2>2. CASE Counter = {}
    <3>1. UNCHANGED enabled
      BY <2>2 DEF Next, Consumer, Pop, VisitLine, LoadSize, StoreElement,
                  vars, deviceVars, lineVars
    <3> QED BY <2>1, <3>1, <1>f
  <2>3. CASE Counter # {}
    BY <2>1, <2>3, <1>1, <1>f, HoldingKept
  <2> QED BY <2>2, <2>3
<1>2. ASSUME NEW c \in Counter, NEW l \in Line, EnableLine(c, l)
      PROVE  enabled'[k] = Cardinality(Holders(k)')
  <2>1. /\ Holding(c)' = Holding(c) \cup {l}
        /\ l \notin Holding(c)
        /\ \A d \in Counter \ {c} : Holding(d)' = Holding(d)
    BY <1>2 DEF EnableLine, Iterate, IsFirst, Holding, Control, ControlOf, TypeOK,
                counterVars
  <2>2. enabled' = [enabled EXCEPT ![l] = enabled[l] + 1]
    BY <1>2 DEF EnableLine, enable
  <2>3. CASE k = l
    <3>1. Holders(k)' = Holders(k) \cup {c} /\ c \notin Holders(k)
      BY <2>1, <2>3 DEF Holders
    <3> QED BY <3>1, <2>2, <2>3, <1>f, FS_AddElement
  <2>4. CASE k # l
    <3>1. Holders(k)' = Holders(k)
      BY <2>1, <2>4 DEF Holders
    <3> QED BY <3>1, <2>2, <2>4, <1>f
  <2> QED BY <2>3, <2>4
<1>3. ASSUME NEW c \in Counter, NEW l \in Line, DisableLine(c, l)
      PROVE  enabled'[k] = Cardinality(Holders(k)')
  <2>1. /\ Holding(c)' = Holding(c) \ {l}
        /\ l \in Holding(c)
        /\ \A d \in Counter \ {c} : Holding(d)' = Holding(d)
    BY <1>3 DEF DisableLine, Iterate, IsFirst, Holding, TypeOK, counterVars
  <2>2. enabled' = [enabled EXCEPT ![l] = disable(enabled[l])]
    BY <1>3 DEF DisableLine
  <2>3. CASE k = l
    <3>1. Holders(k)' = Holders(k) \ {c} /\ c \in Holders(k)
      BY <2>1, <2>3 DEF Holders
    <3>2. Cardinality(Holders(k)') = Cardinality(Holders(k)) - 1
      BY <3>1, <1>f, FS_RemoveElement
    <3>3. Holders(k) # {} /\ Cardinality(Holders(k)) \in Nat
      BY <3>1, <1>f, FS_CardinalityType
    <3>4. enabled[k] > 0
      BY <3>3, <1>f, FS_EmptySet
    <3> QED BY <3>2, <3>4, <2>2, <2>3, <1>f DEF disable
  <2>4. CASE k # l
    <3>1. Holders(k)' = Holders(k)
      BY <2>1, <2>4 DEF Holders
    <3> QED BY <3>1, <2>2, <2>4, <1>f
  <2> QED BY <2>3, <2>4
<1> QED BY <1>1, <1>2, <1>3 DEF CountStep

----------------------------------------------------------------------------
\* Only an append and a disable change a buffer.
DataStep ==
    \/ \E l \in Line : StoreElement(l)
    \/ \E c \in Counter, l \in Line : DisableLine(c, l)

\* Any other step leaves the buffers as they are.
LEMMA DataKept ==
    ASSUME [Next]_vars, ~DataStep
    PROVE  data' = data
BY DEF DataStep, Next, vars, deviceVars, lineVars, consumerVars, threadVars,
       counterVars, Consumer, Thread, AwaitsClient, Construct, Serve, Destroy,
       LoopStep, Pop, VisitLine, LoadSize, Hangup, SendErrorOrLeak,
       LoadNextId, StoreNextId, RequestFails, Register, Registered, Greet,
       CatchCreate, ReceiveFails, LeaveRun, Reject, StartCounter, StopCounter,
       ChangeStatus, RecordSet, Get, Finalize, Reply, CatchRun, SkipDeregister,
       Deregister, DeregisterUnknown, Deregistered, ReceiveRequest,
       RefuseRequest, Hangup, Receive,
       EnableLine, ActivateLine, DeactivateLine, ReadSize

\* The consumer's variables change only in the consumer's own steps.
LEMMA ConsumerKept ==
    ASSUME [Next]_vars, ~Consumer
    PROVE  UNCHANGED consumerVars
BY DEF Next, vars, deviceVars, Thread, AwaitsClient, Construct, Serve, Destroy,
       LoopStep, SendErrorOrLeak,
       LoadNextId, StoreNextId, RequestFails, Register, Registered, Greet,
       CatchCreate, ReceiveFails, LeaveRun, Reject, StartCounter, StopCounter,
       ChangeStatus, RecordSet, Get, Finalize, Reply, CatchRun, SkipDeregister,
       Deregister, DeregisterUnknown, Deregistered, ReceiveRequest,
       RefuseRequest, Hangup, Receive,
       EnableLine, ActivateLine, DeactivateLine, ReadSize, DisableLine

\* The size loaded by the consumer bounds the buffer it will append to.
LEMMA LoadedSizeStep ==
    TypeOK /\ LoadedSizeBounds /\ [Next]_vars => LoadedSizeBounds'
<1> SUFFICES ASSUME TypeOK, LoadedSizeBounds, [Next]_vars PROVE LoadedSizeBounds'
  OBVIOUS
<1>1. CASE Consumer
  <2>1. CASE Pop
    BY <2>1 DEF Pop, LoadedSizeBounds
  <2>2. ASSUME NEW l \in Line, VisitLine(l) PROVE LoadedSizeBounds'
    BY <2>2 DEF VisitLine, LoadedSizeBounds
  <2>3. ASSUME NEW l \in Line, LoadSize(l) PROVE LoadedSizeBounds'
    <3>1. \A k \in Line : IsFirst(k, pending) => k = l
      BY <2>3 DEF LoadSize, IsFirst, Line
    <3>2. Len(data[l]) \in Nat
      BY DEF TypeOK
    <3> QED BY <2>3, <3>1, <3>2 DEF LoadSize, LoadedSizeBounds, lineVars, IsFirst
  <2>4. ASSUME NEW l \in Line, StoreElement(l) PROVE LoadedSizeBounds'
    BY <2>4 DEF StoreElement, LoadedSizeBounds
  <2> QED BY <1>1, <2>1, <2>2, <2>3, <2>4 DEF Consumer
<1>2. CASE ~Consumer
  <2>1. UNCHANGED <<pending, cpc, oldSize>>
    BY <1>2, ConsumerKept DEF consumerVars
  <2>2. CASE ~DataStep
    BY <2>1, <2>2, DataKept DEF LoadedSizeBounds, IsFirst
  <2>3. ASSUME NEW c \in Counter, NEW l \in Line, DisableLine(c, l)
        PROVE  LoadedSizeBounds'
    <3>1. \A k \in Line : data'[k] = data[k] \/ data'[k] = <<>>
      BY <2>3 DEF DisableLine, clear_data, TypeOK
    <3> QED BY <2>1, <3>1, SMTT(30) DEF LoadedSizeBounds, IsFirst, TypeOK
  <2> QED BY <1>2, <2>2, <2>3 DEF DataStep, Consumer
<1> QED BY <1>1, <1>2

\* A buffer somebody holds before and after a step only grows.
LEMMA HeldDataGrows ==
    ASSUME TypeOK, Control, EnabledCount, LoadedSizeBounds, [Next]_vars,
           NEW c \in Counter, NEW l \in Holding(c) \cap Holding(c)'
    PROVE  /\ l \in Line
           /\ Len(data[l]) <= Len(data'[l])
           /\ \A i \in 1 .. Len(data[l]) : data'[l][i] = data[l][i]
<1>l. l \in Line /\ data \in [Line -> Seq(0 .. MaxSamples)] /\ Len(data[l]) \in Nat
  BY DEF Holding, TypeOK
<1>1. CASE ~DataStep
  BY <1>1, <1>l, DataKept
<1>2. ASSUME NEW k \in Line, StoreElement(k)
      PROVE  /\ Len(data[l]) <= Len(data'[l])
             /\ \A i \in 1 .. Len(data[l]) : data'[l][i] = data[l][i]
  <2>1. CASE k # l
    BY <1>2, <1>l, <2>1 DEF StoreElement
  <2>2. CASE k = l
    <3>1. /\ oldSize \in Nat /\ popped \in 0 .. MaxSamples
          /\ Len(data[l]) <= oldSize
      BY <1>2, <2>2 DEF StoreElement, LoadedSizeBounds, TypeOK
    <3>2. data'[l] = push_back(data[l], oldSize, popped)
      BY <1>2, <1>l, <2>2 DEF StoreElement
    <3> QED BY <1>l, <3>1, <3>2, PushBack
  <2> QED BY <2>1, <2>2
<1>3. ASSUME NEW d \in Counter, NEW k \in Line, DisableLine(d, k)
      PROVE  data'[l] = data[l]
  <2>1. CASE k # l
    BY <1>3, <1>l, <2>1 DEF DisableLine
  <2>2. CASE k = l
    <3>1. c \in Holders(l)' /\ IsFiniteSet(Holders(l)')
      BY <1>l, DeviceAssumption, FS_Subset DEF Holders
    <3>2. Cardinality(Holders(l)') \in Nat /\ Cardinality(Holders(l)') # 0
      BY <3>1, FS_CardinalityType, FS_EmptySet
    <3>3. EnabledCount'
      BY EnabledStep
    <3>4. enabled'[l] = Cardinality(Holders(l)')
      BY <1>l, <3>3 DEF EnabledCount, Holders
    <3>5. enabled'[l] > 0
      BY <3>2, <3>4
    <3> QED BY <1>3, <1>l, <2>2, <3>5 DEF DisableLine
  <2> QED BY <2>1, <2>2
<1> QED BY <1>1, <1>2, <1>3, <1>l DEF DataStep

----------------------------------------------------------------------------
\* A step other than RecordSet that leaves d in its session found it there,
\* or just registered, and does not touch its lines and its sets; only the
\* step that starts the reading of sizes touches its status.
SessionKept(d) ==
    /\ pc[d] \in Session \cup {"greet"}
    /\ lines'[d] = lines[d] /\ sets'[d] = sets[d]
    /\ pc'[d] # "sizes" => pc[d] # "sizes" /\ status'[d] = status[d]

\* Every step of the sessions but RecordSet(d) is such a step.
LEMMA SessionStep ==
    ASSUME TypeOK, [Next]_vars, NEW d \in Counter, pc'[d] \in Session,
           ~RecordSet(d)
    PROVE  SessionKept(d)
<1> USE DEF Goto, deviceVars, lineVars, consumerVars, threadVars, counterVars
<1>1. CASE UNCHANGED vars
  BY <1>1 DEF SessionKept, vars
<1>2. CASE Consumer /\ UNCHANGED <<threadVars, counterVars>>
  BY <1>2 DEF SessionKept
<1>3. ASSUME NEW c \in Counter, LoadNextId(c) PROVE SessionKept(d)
  BY <1>3 DEF TypeOK, Session, SessionKept, LoadNextId
<1>4. ASSUME NEW c \in Counter, StoreNextId(c) PROVE SessionKept(d)
  BY <1>4 DEF TypeOK, Session, SessionKept, StoreNextId
<1>5. ASSUME NEW c \in Counter, RequestFails(c) PROVE SessionKept(d)
  BY <1>5 DEF TypeOK, Session, SessionKept, RequestFails
<1>6. ASSUME NEW c \in Counter, Register(c) PROVE SessionKept(d)
  BY <1>6 DEF TypeOK, Session, SessionKept, Register, LockAndLoop
<1>7. ASSUME NEW c \in Counter, Registered(c) PROVE SessionKept(d)
  BY <1>7 DEF TypeOK, Session, SessionKept, Registered
<1>8. ASSUME NEW c \in Counter, Greet(c) PROVE SessionKept(d)
  BY <1>8 DEF TypeOK, Session, SessionKept, Greet
<1>9. ASSUME NEW c \in Counter, CatchCreate(c) PROVE SessionKept(d)
  BY <1>9 DEF TypeOK, Session, SessionKept, CatchCreate, SendErrorOrLeak, End
<1>10. ASSUME NEW c \in Counter, ReceiveFails(c) PROVE SessionKept(d)
  BY <1>10 DEF TypeOK, Session, SessionKept, ReceiveFails
<1>11. ASSUME NEW c \in Counter, LeaveRun(c) PROVE SessionKept(d)
  BY <1>11 DEF TypeOK, Session, SessionKept, LeaveRun
<1>12. ASSUME NEW c \in Counter, Reject(c) PROVE SessionKept(d)
  BY <1>12 DEF TypeOK, Session, SessionKept, Reject
<1>13. ASSUME NEW c \in Counter, StartCounter(c) PROVE SessionKept(d)
  BY <1>13 DEF TypeOK, Session, SessionKept, StartCounter, LockAndLoop, Accepts
<1>14. ASSUME NEW c \in Counter, StopCounter(c) PROVE SessionKept(d)
  BY <1>14 DEF TypeOK, Session, SessionKept, StopCounter, LockAndLoop, Accepts
<1>15. ASSUME NEW c \in Counter, ChangeStatus(c) PROVE SessionKept(d)
  BY <1>15 DEF TypeOK, Session, SessionKept, ChangeStatus
<1>16. ASSUME NEW c \in Counter, RecordSet(c) PROVE SessionKept(d)
  BY <1>16 DEF TypeOK, Session, SessionKept, RecordSet
<1>17. ASSUME NEW c \in Counter, Get(c) PROVE SessionKept(d)
  BY <1>17 DEF TypeOK, Session, SessionKept, Get, Accepts
<1>18. ASSUME NEW c \in Counter, Finalize(c) PROVE SessionKept(d)
  BY <1>18 DEF TypeOK, Session, SessionKept, Finalize, Accepts
<1>19. ASSUME NEW c \in Counter, Reply(c) PROVE SessionKept(d)
  BY <1>19 DEF TypeOK, Session, SessionKept, Reply
<1>20. ASSUME NEW c \in Counter, CatchRun(c) PROVE SessionKept(d)
  BY <1>20 DEF TypeOK, Session, SessionKept, CatchRun, SendErrorOrLeak, End
<1>21. ASSUME NEW c \in Counter, SkipDeregister(c) PROVE SessionKept(d)
  BY <1>21 DEF TypeOK, Session, SessionKept, SkipDeregister, End
<1>22. ASSUME NEW c \in Counter, Deregister(c) PROVE SessionKept(d)
  BY <1>22 DEF TypeOK, Session, SessionKept, Deregister, LockAndLoop
<1>23. ASSUME NEW c \in Counter, DeregisterUnknown(c) PROVE SessionKept(d)
  BY <1>23 DEF TypeOK, Session, SessionKept, DeregisterUnknown, End
<1>24. ASSUME NEW c \in Counter, Deregistered(c) PROVE SessionKept(d)
  BY <1>24 DEF TypeOK, Session, SessionKept, Deregistered, End
<1>25. ASSUME NEW c \in Counter, ReceiveRequest(c) PROVE SessionKept(d)
  BY <1>25 DEF TypeOK, Session, SessionKept, ReceiveRequest
<1>26. ASSUME NEW c \in Counter, RefuseRequest(c) PROVE SessionKept(d)
  BY <1>26 DEF TypeOK, Session, SessionKept, RefuseRequest
<1>27. ASSUME NEW c \in Counter, Hangup(c) PROVE SessionKept(d)
  BY <1>27 DEF TypeOK, Session, SessionKept, Hangup
<1>28. ASSUME NEW c \in Counter, NEW o \in Operation, Receive(c, o) PROVE SessionKept(d)
  BY <1>28 DEF TypeOK, Session, SessionKept, Receive
<1>29. ASSUME NEW c \in Counter, NEW l \in Line, EnableLine(c, l) PROVE SessionKept(d)
  BY <1>29 DEF SessionKept, Session, EnableLine
<1>30. ASSUME NEW c \in Counter, NEW l \in Line, ActivateLine(c, l) PROVE SessionKept(d)
  BY <1>30 DEF SessionKept, Session, ActivateLine
<1>31. ASSUME NEW c \in Counter, NEW l \in Line, DeactivateLine(c, l) PROVE SessionKept(d)
  BY <1>31 DEF SessionKept, Session, DeactivateLine
<1>32. ASSUME NEW c \in Counter, NEW l \in Line, ReadSize(c, l) PROVE SessionKept(d)
  BY <1>32 DEF SessionKept, Session, ReadSize
<1>33. ASSUME NEW c \in Counter, NEW l \in Line, DisableLine(c, l) PROVE SessionKept(d)
  BY <1>33 DEF SessionKept, Session, DisableLine
<1> QED
  BY <1>1, <1>2, <1>3, <1>4, <1>5, <1>6, <1>7, <1>8, <1>9, <1>10, <1>11, <1>12,
  <1>13, <1>14, <1>15, <1>16, <1>17, <1>18, <1>19, <1>20, <1>21, <1>22, <1>23,
  <1>24, <1>25, <1>26, <1>27, <1>28, <1>29, <1>30, <1>31, <1>32, <1>33
  DEF Next, Thread, AwaitsClient, Construct, Serve, Destroy, LoopStep

\* The buffers of a session's lines only grow under it.
LEMMA SessionDataGrows ==
    ASSUME TypeOK, Control, EnabledCount, LoadedSizeBounds, [Next]_vars,
           NEW d \in Counter, pc'[d] \in Session, NEW l \in lines'[d]
    PROVE  /\ l \in lines[d] /\ l \in Line
           /\ Len(data[l]) \in Nat /\ Len(data'[l]) \in Nat
           /\ Len(data[l]) <= Len(data'[l])
<1>1. pc[d] \in Session \cup {"greet"} /\ lines'[d] = lines[d]
  <2>1. CASE RecordSet(d)
    BY <2>1 DEF RecordSet, Session
  <2> QED BY <2>1, SessionStep DEF SessionKept
<1>2. TypeOK' /\ Control'
  BY TypeStep, ControlStep
<1>3. registered[d] /\ registered'[d]
  BY <1>1, <1>2 DEF Control, ControlOf
<1>4. l \in Holding(d) \cap Holding(d)'
  BY <1>1, <1>3 DEF Holding, Session
<1>5. l \in Line /\ Len(data[l]) <= Len(data'[l])
  BY <1>4, HeldDataGrows
<1>6. data[l] \in Seq(0 .. MaxSamples) /\ data'[l] \in Seq(0 .. MaxSamples)
  BY <1>2, <1>5 DEF TypeOK
<1>7. Len(data[l]) \in Nat /\ Len(data'[l]) \in Nat
  BY <1>6
<1> QED BY <1>1, <1>5, <1>7

\* What RecordSet does to the session's own sets.
LEMMA RecordSetEffect ==
    ASSUME TypeOK, Control, NEW c \in Counter, RecordSet(c)
    PROVE  /\ sets' = [sets EXCEPT ![c] = SetsAfter(op[c], sets[c], sizes[c])]
           /\ todo[c] = {} /\ pc[c] = "sizes" /\ pc'[c] = "success"
           /\ UNCHANGED <<data, lines, status, op>>
           /\ op[c] \in {"START", "CONTINUE", "STOP"}
           /\ sets[c] \in Seq(Set) /\ sizes[c] \in Offsets
BY DEF RecordSet, Goto, LoopDone, deviceVars, lineVars, Control, ControlOf, TypeOK

\* The sets of a session, element by element, after an operation.
LEMMA SetsAfterElements ==
    ASSUME NEW ss \in Seq(Set), NEW now \in Offsets,
           NEW o \in {"START", "CONTINUE", "STOP"}, o = "STOP" => ss # <<>>,
           NEW i \in 1 .. Len(SetsAfter(o, ss, now))
    PROVE  LET after == SetsAfter(o, ss, now)
           IN  /\ after # <<>>
               /\ i = Len(after) =>
                    \/ o # "STOP" /\ after[i] = OpenedSet(now)
                    \/ /\ o = "STOP" /\ i = Len(ss) /\ i \in 1 .. Len(ss)
                       /\ after[i] = ClosedSet(ss[i], now)
               /\ i # Len(after) =>
                    i \in 1 .. Len(ss) /\ after[i] = ss[i]
                    /\ (o = "STOP" => i # Len(ss))
<1>1. CASE o = "START"
  BY <1>1 DEF SetsAfter
<1>2. CASE o = "CONTINUE"
  BY <1>2 DEF SetsAfter
<1>3. CASE o = "STOP"
  <2>1. SetsAfter(o, ss, now) = [ss EXCEPT ![Len(ss)] = ClosedSet(ss[Len(ss)], now)]
    BY <1>3 DEF SetsAfter
  <2>2. Len(ss) \in 1 .. Len(ss)
    BY <1>3
  <2>3. Len([ss EXCEPT ![Len(ss)] = ClosedSet(ss[Len(ss)], now)]) = Len(ss)
    BY <2>2
  <2> QED BY <1>3, <2>1, <2>2, <2>3
<1> QED BY <1>1, <1>2, <1>3

\* Recorded offsets stay within the buffers.
LEMMA SlicesStep ==
    TypeOK /\ Control /\ EnabledCount /\ LoadedSizeBounds /\ SizesRead
      /\ SlicesInBuffer /\ [Next]_vars => SlicesInBuffer'
<1> SUFFICES ASSUME TypeOK, Control, EnabledCount, LoadedSizeBounds, SizesRead,
                    SlicesInBuffer, [Next]_vars,
                    NEW d \in Counter, pc'[d] \in Session,
                    NEW i \in 1 .. Len(sets'[d]), NEW l \in lines'[d]
             PROVE  /\ sets'[d][i].first[l] <= Len(data'[l])
                    /\ sets'[d][i].closed =>
                         /\ sets'[d][i].first[l] <= sets'[d][i].second[l]
                         /\ sets'[d][i].second[l] <= Len(data'[l])
  BY DEF SlicesInBuffer, InBuffer
<1>1. /\ l \in lines[d] /\ l \in Line
      /\ Len(data[l]) \in Nat /\ Len(data'[l]) \in Nat
      /\ Len(data[l]) <= Len(data'[l])
  BY SessionDataGrows
<1>2. CASE ~RecordSet(d)
  <2>1. pc[d] \in Session \cup {"greet"} /\ sets'[d] = sets[d]
    BY <1>2, SessionStep DEF SessionKept
  <2>2. pc[d] # "greet"
    BY <2>1 DEF Control, ControlOf
  <2>3. sets[d][i] \in Set
    BY <2>1 DEF TypeOK
  <2>4. sets[d][i].first[l] \in Nat /\ sets[d][i].second[l] \in Nat
    BY <1>1, <2>3 DEF Set, Offsets
  <2> QED BY <1>1, <2>1, <2>2, <2>4, SMTT(30) DEF SlicesInBuffer, InBuffer
<1>3. CASE RecordSet(d)
  <2> DEFINE ss == sets[d]
             now == sizes[d]
  <2>1. /\ sets'[d] = SetsAfter(op[d], ss, now)
        /\ todo[d] = {} /\ pc[d] = "sizes" /\ data' = data
        /\ op[d] \in {"START", "CONTINUE", "STOP"}
        /\ ss \in Seq(Set) /\ now \in Offsets
    BY <1>3, RecordSetEffect DEF TypeOK
  <2>2. /\ now[l] <= Len(data[l])
        /\ op[d] = "STOP" => ss # <<>> /\ ss[Len(ss)].first[l] <= now[l]
    BY <1>1, <2>1 DEF SizesRead
  <2>3. \A j \in 1 .. Len(ss) : InBuffer(ss[j], lines[d])
    BY <2>1 DEF SlicesInBuffer, Session
  <2>4. CASE i # Len(sets'[d])
    <3>1. i \in 1 .. Len(ss) /\ sets'[d][i] = ss[i]
      BY <2>1, <2>2, <2>4, SetsAfterElements
    <3> QED BY <1>1, <2>1, <2>3, <3>1 DEF InBuffer
  <2>5. CASE i = Len(sets'[d]) /\ op[d] # "STOP"
    <3>1. sets'[d][i] = OpenedSet(now)
      BY <2>1, <2>2, <2>5, SetsAfterElements
    <3> QED BY <1>1, <2>1, <2>2, <3>1 DEF OpenedSet
  <2>6. CASE i = Len(sets'[d]) /\ op[d] = "STOP"
    <3>1. i = Len(ss) /\ i \in 1 .. Len(ss) /\ sets'[d][i] = ClosedSet(ss[i], now)
      BY <2>1, <2>2, <2>6, SetsAfterElements
    <3>2. ss[i] \in Set
      BY <2>1, <3>1
    <3>3. /\ ClosedSet(ss[i], now).first = ss[i].first
          /\ ClosedSet(ss[i], now).second = now
      BY <3>2 DEF ClosedSet, Set
    <3>4. ss[i].first[l] <= Len(data[l])
      BY <1>1, <2>3, <3>1 DEF InBuffer
    <3> QED BY <1>1, <2>1, <2>2, <2>6, <3>1, <3>3, <3>4
  <2> QED BY <2>4, <2>5, <2>6
<1> QED BY <1>2, <1>3

\* A step of no loop of d and no status change of d leaves d's reading of
\* sizes, its operation and its status as they are, while it reads.
ReadingKept(d) ==
    /\ pc[d] = "sizes"
    /\ sizes'[d] = sizes[d] /\ todo'[d] = todo[d] /\ op'[d] = op[d]

\* Every step but d's own reads and status change is such a step.
LEMMA ReadingStep ==
    ASSUME TypeOK, [Next]_vars, NEW d \in Counter, pc'[d] = "sizes",
           ~ChangeStatus(d), ~\E l \in Line : ReadSize(d, l)
    PROVE  ReadingKept(d)
<1> USE DEF Goto, deviceVars, lineVars, consumerVars, threadVars, counterVars
<1>1. CASE UNCHANGED vars
  BY <1>1 DEF ReadingKept, vars
<1>2. CASE Consumer /\ UNCHANGED <<threadVars, counterVars>>
  BY <1>2 DEF ReadingKept
<1>3. ASSUME NEW c \in Counter, LoadNextId(c) PROVE ReadingKept(d)
  BY <1>3 DEF TypeOK, ReadingKept, LoadNextId
<1>4. ASSUME NEW c \in Counter, StoreNextId(c) PROVE ReadingKept(d)
  BY <1>4 DEF TypeOK, ReadingKept, StoreNextId
<1>5. ASSUME NEW c \in Counter, RequestFails(c) PROVE ReadingKept(d)
  BY <1>5 DEF TypeOK, ReadingKept, RequestFails
<1>6. ASSUME NEW c \in Counter, Register(c) PROVE ReadingKept(d)
  BY <1>6 DEF TypeOK, ReadingKept, Register, LockAndLoop
<1>7. ASSUME NEW c \in Counter, Registered(c) PROVE ReadingKept(d)
  BY <1>7 DEF TypeOK, ReadingKept, Registered
<1>8. ASSUME NEW c \in Counter, Greet(c) PROVE ReadingKept(d)
  BY <1>8 DEF TypeOK, ReadingKept, Greet
<1>9. ASSUME NEW c \in Counter, CatchCreate(c) PROVE ReadingKept(d)
  BY <1>9 DEF TypeOK, ReadingKept, CatchCreate, SendErrorOrLeak, End
<1>10. ASSUME NEW c \in Counter, ReceiveFails(c) PROVE ReadingKept(d)
  BY <1>10 DEF TypeOK, ReadingKept, ReceiveFails
<1>11. ASSUME NEW c \in Counter, LeaveRun(c) PROVE ReadingKept(d)
  BY <1>11 DEF TypeOK, ReadingKept, LeaveRun
<1>12. ASSUME NEW c \in Counter, Reject(c) PROVE ReadingKept(d)
  BY <1>12 DEF TypeOK, ReadingKept, Reject
<1>13. ASSUME NEW c \in Counter, StartCounter(c) PROVE ReadingKept(d)
  BY <1>13 DEF TypeOK, ReadingKept, StartCounter, LockAndLoop, Accepts
<1>14. ASSUME NEW c \in Counter, StopCounter(c) PROVE ReadingKept(d)
  BY <1>14 DEF TypeOK, ReadingKept, StopCounter, LockAndLoop, Accepts
<1>15. ASSUME NEW c \in Counter, ChangeStatus(c) PROVE ReadingKept(d)
  BY <1>15 DEF TypeOK, ReadingKept, ChangeStatus
<1>16. ASSUME NEW c \in Counter, RecordSet(c) PROVE ReadingKept(d)
  BY <1>16 DEF TypeOK, ReadingKept, RecordSet
<1>17. ASSUME NEW c \in Counter, Get(c) PROVE ReadingKept(d)
  BY <1>17 DEF TypeOK, ReadingKept, Get, Accepts
<1>18. ASSUME NEW c \in Counter, Finalize(c) PROVE ReadingKept(d)
  BY <1>18 DEF TypeOK, ReadingKept, Finalize, Accepts
<1>19. ASSUME NEW c \in Counter, Reply(c) PROVE ReadingKept(d)
  BY <1>19 DEF TypeOK, ReadingKept, Reply
<1>20. ASSUME NEW c \in Counter, CatchRun(c) PROVE ReadingKept(d)
  BY <1>20 DEF TypeOK, ReadingKept, CatchRun, SendErrorOrLeak, End
<1>21. ASSUME NEW c \in Counter, SkipDeregister(c) PROVE ReadingKept(d)
  BY <1>21 DEF TypeOK, ReadingKept, SkipDeregister, End
<1>22. ASSUME NEW c \in Counter, Deregister(c) PROVE ReadingKept(d)
  BY <1>22 DEF TypeOK, ReadingKept, Deregister, LockAndLoop
<1>23. ASSUME NEW c \in Counter, DeregisterUnknown(c) PROVE ReadingKept(d)
  BY <1>23 DEF TypeOK, ReadingKept, DeregisterUnknown, End
<1>24. ASSUME NEW c \in Counter, Deregistered(c) PROVE ReadingKept(d)
  BY <1>24 DEF TypeOK, ReadingKept, Deregistered, End
<1>25. ASSUME NEW c \in Counter, ReceiveRequest(c) PROVE ReadingKept(d)
  BY <1>25 DEF TypeOK, ReadingKept, ReceiveRequest
<1>26. ASSUME NEW c \in Counter, RefuseRequest(c) PROVE ReadingKept(d)
  BY <1>26 DEF TypeOK, ReadingKept, RefuseRequest
<1>27. ASSUME NEW c \in Counter, Hangup(c) PROVE ReadingKept(d)
  BY <1>27 DEF TypeOK, ReadingKept, Hangup
<1>28. ASSUME NEW c \in Counter, NEW o \in Operation, Receive(c, o) PROVE ReadingKept(d)
  BY <1>28 DEF TypeOK, ReadingKept, Receive
<1>29. ASSUME NEW c \in Counter, NEW l \in Line, EnableLine(c, l) PROVE ReadingKept(d)
  BY <1>29 DEF TypeOK, ReadingKept, Iterate, EnableLine
<1>30. ASSUME NEW c \in Counter, NEW l \in Line, ActivateLine(c, l) PROVE ReadingKept(d)
  BY <1>30 DEF TypeOK, ReadingKept, Iterate, ActivateLine
<1>31. ASSUME NEW c \in Counter, NEW l \in Line, DeactivateLine(c, l) PROVE ReadingKept(d)
  BY <1>31 DEF TypeOK, ReadingKept, Iterate, DeactivateLine
<1>32. ASSUME NEW c \in Counter, NEW l \in Line, ReadSize(c, l) PROVE ReadingKept(d)
  BY <1>32 DEF TypeOK, ReadingKept, Iterate, ReadSize
<1>33. ASSUME NEW c \in Counter, NEW l \in Line, DisableLine(c, l) PROVE ReadingKept(d)
  BY <1>33 DEF TypeOK, ReadingKept, Iterate, DisableLine
<1> QED
  BY <1>1, <1>2, <1>3, <1>4, <1>5, <1>6, <1>7, <1>8, <1>9, <1>10, <1>11, <1>12,
  <1>13, <1>14, <1>15, <1>16, <1>17, <1>18, <1>19, <1>20, <1>21, <1>22, <1>23,
  <1>24, <1>25, <1>26, <1>27, <1>28, <1>29, <1>30, <1>31, <1>32, <1>33
  DEF Next, Thread, AwaitsClient, Construct, Serve, Destroy, LoopStep

\* The sizes read so far stay within the buffers.
LEMMA SizesStep ==
    TypeOK /\ Control /\ EnabledCount /\ LoadedSizeBounds /\ SizesRead
      /\ SlicesInBuffer /\ OpenSetIffActive /\ [Next]_vars => SizesRead'
<1> SUFFICES ASSUME TypeOK, Control, EnabledCount, LoadedSizeBounds, SizesRead,
                    SlicesInBuffer, OpenSetIffActive, [Next]_vars,
                    NEW d \in Counter, pc'[d] = "sizes"
             PROVE  /\ op'[d] = "STOP" => sets'[d] # <<>>
                    /\ \A l \in lines'[d] \ todo'[d] :
                         /\ sizes'[d][l] <= Len(data'[l])
                         /\ op'[d] = "STOP" =>
                              sets'[d][Len(sets'[d])].first[l] <= sizes'[d][l]
  BY DEF SizesRead
<1>1. ~RecordSet(d) /\ pc'[d] \in Session
  BY DEF RecordSet, Goto, Session, TypeOK
<1>2. pc[d] \in Session \cup {"greet"} /\ lines'[d] = lines[d] /\ sets'[d] = sets[d]
  BY <1>1, SessionStep DEF SessionKept
<1>3. \A l \in lines[d] : /\ l \in Line /\ Len(data[l]) \in Nat
                          /\ Len(data'[l]) \in Nat
                          /\ Len(data[l]) <= Len(data'[l])
  BY <1>1, <1>2, SessionDataGrows
<1>4. CASE ChangeStatus(d)
  <2>1. todo'[d] = lines[d] /\ op' = op
    BY <1>4 DEF ChangeStatus, TypeOK
  <2>2. op[d] = "STOP" => pc[d] = "deactivate" /\ status[d] = "ACTIVE"
    BY <1>4 DEF ChangeStatus, Control, ControlOf
  <2>3. op[d] = "STOP" => sets[d] # <<>>
    BY <2>2 DEF OpenSetIffActive, Session
  <2> QED BY <1>2, <2>1, <2>3
<1>5. ASSUME NEW k \in Line, ReadSize(d, k)
      PROVE  /\ op'[d] = "STOP" => sets'[d] # <<>>
             /\ \A l \in lines'[d] \ todo'[d] :
                  /\ sizes'[d][l] <= Len(data'[l])
                  /\ op'[d] = "STOP" =>
                       sets'[d][Len(sets'[d])].first[l] <= sizes'[d][l]
  <2>1. /\ pc[d] = "sizes" /\ k \in todo[d] /\ todo'[d] = todo[d] \ {k}
        /\ sizes'[d] = [sizes[d] EXCEPT ![k] = Len(data[k])]
        /\ op' = op /\ data' = data
    BY <1>5 DEF ReadSize, Iterate, IsFirst, deviceVars, lineVars, TypeOK
  <2>2. sizes[d] \in Offsets /\ sets[d] \in Seq(Set)
    BY DEF TypeOK
  <2>3. op[d] = "STOP" => sets[d] # <<>>
    BY <2>1 DEF SizesRead
  <2>4. ASSUME NEW l \in lines[d] \ todo'[d]
        PROVE  /\ sizes'[d][l] <= Len(data'[l])
               /\ op[d] = "STOP" =>
                    sets[d][Len(sets[d])].first[l] <= sizes'[d][l]
    <3>1. CASE l = k
      <4>1. sizes'[d][l] = Len(data[l])
        BY <2>1, <2>2, <3>1 DEF Offsets
      <4>2. op[d] = "STOP" => Len(sets[d]) \in 1 .. Len(sets[d])
        BY <2>2, <2>3
      <4>3. op[d] = "STOP" => InBuffer(sets[d][Len(sets[d])], lines[d])
        BY <2>1, <4>2 DEF SlicesInBuffer, Session
      <4> QED BY <1>3, <2>1, <4>1, <4>3 DEF InBuffer
    <3>2. CASE l # k
      <4>1. l \in lines[d] \ todo[d] /\ sizes'[d][l] = sizes[d][l]
        BY <1>3, <2>1, <2>2, <3>2 DEF Offsets
      <4> QED BY <2>1, <4>1 DEF SizesRead
    <3> QED BY <3>1, <3>2
  <2> QED BY <1>2, <2>1, <2>3, <2>4
<1>6. CASE ~ChangeStatus(d) /\ ~\E k \in Line : ReadSize(d, k)
  <2>1. /\ pc[d] = "sizes" /\ sizes'[d] = sizes[d] /\ todo'[d] = todo[d]
        /\ op'[d] = op[d]
    BY <1>6, ReadingStep DEF ReadingKept
  <2>2. \A l \in lines[d] : sizes[d][l] \in Nat
    BY <1>3 DEF TypeOK, Offsets
  <2> QED BY <1>2, <1>3, <2>1, <2>2 DEF SizesRead
<1> QED BY <1>4, <1>5, <1>6

\* Which sets are open while sizes are read.
LEMMA ReadingShapeStep ==
    TypeOK /\ Control /\ SetsWhileReading /\ OpenSetIffActive /\ [Next]_vars
      => SetsWhileReading'
<1> SUFFICES ASSUME TypeOK, Control, SetsWhileReading, OpenSetIffActive,
                    [Next]_vars, NEW d \in Counter, pc'[d] = "sizes",
                    NEW i \in 1 .. Len(sets'[d])
             PROVE  sets'[d][i].closed <=> ~(op'[d] = "STOP" /\ i = Len(sets'[d]))
  BY DEF SetsWhileReading
<1>1. ~RecordSet(d) /\ pc'[d] \in Session
  BY DEF RecordSet, Goto, Session, TypeOK
<1>2. sets'[d] = sets[d]
  BY <1>1, SessionStep DEF SessionKept
<1>3. CASE ChangeStatus(d)
  <2>1. op' = op
    BY <1>3 DEF ChangeStatus
  <2>2. pc[d] \in Session \ {"sizes"} /\ (op[d] = "STOP" <=> status[d] = "ACTIVE")
    BY <1>3 DEF ChangeStatus, Control, ControlOf, Session
  <2> QED BY <1>2, <2>1, <2>2 DEF OpenSetIffActive
<1>4. CASE ~ChangeStatus(d)
  <2>1. pc[d] = "sizes" /\ op'[d] = op[d]
    <3>1. ASSUME NEW k \in Line, ReadSize(d, k)
          PROVE  pc[d] = "sizes" /\ op'[d] = op[d]
      BY <3>1 DEF ReadSize
    <3> QED BY <1>4, <3>1, ReadingStep DEF ReadingKept
  <2> QED BY <1>2, <2>1 DEF SetsWhileReading
<1> QED BY <1>3, <1>4

\* Which sets are open between operations.
LEMMA OpenSetStep ==
    TypeOK /\ Control /\ SizesRead /\ SetsWhileReading /\ OpenSetIffActive
      /\ [Next]_vars => OpenSetIffActive'
<1> SUFFICES ASSUME TypeOK, Control, SizesRead, SetsWhileReading,
                    OpenSetIffActive, [Next]_vars,
                    NEW d \in Counter, pc'[d] \in Session \ {"sizes"}
             PROVE  /\ status'[d] = "ACTIVE" => sets'[d] # <<>>
                    /\ \A i \in 1 .. Len(sets'[d]) :
                         sets'[d][i].closed <=>
                           ~(status'[d] = "ACTIVE" /\ i = Len(sets'[d]))
  BY DEF OpenSetIffActive
<1>1. CASE ~RecordSet(d)
  <2>1. /\ pc[d] \in (Session \ {"sizes"}) \cup {"greet"}
        /\ sets'[d] = sets[d] /\ status'[d] = status[d]
    BY <1>1, SessionStep DEF SessionKept
  <2>2. CASE pc[d] = "greet"
    BY <2>1, <2>2 DEF Control, ControlOf
  <2>3. CASE pc[d] # "greet"
    BY <2>1, <2>3 DEF OpenSetIffActive
  <2> QED BY <2>2, <2>3
<1>2. CASE RecordSet(d)
  <2> DEFINE ss == sets[d]
             now == sizes[d]
  <2>1. /\ sets'[d] = SetsAfter(op[d], ss, now)
        /\ pc[d] = "sizes" /\ status' = status
        /\ op[d] \in {"START", "CONTINUE", "STOP"}
        /\ ss \in Seq(Set) /\ now \in Offsets
    BY <1>2, RecordSetEffect DEF TypeOK
  <2>2. op[d] = "STOP" <=> status[d] # "ACTIVE"
    BY <2>1 DEF Control, ControlOf
  <2>3. op[d] = "STOP" => ss # <<>>
    BY <2>1 DEF SizesRead
  <2>4. status[d] = "ACTIVE" => sets'[d] # <<>>
    <3>1. CASE op[d] = "START"
      BY <2>1, <3>1 DEF SetsAfter
    <3>2. CASE op[d] = "CONTINUE"
      <4>1. sets'[d] = Append(ss, OpenedSet(now))
        BY <2>1, <3>2 DEF SetsAfter
      <4>2. Append(ss, OpenedSet(now)) # <<>>
        BY <2>1
      <4> QED BY <4>1, <4>2
    <3> QED BY <2>1, <2>2, <3>1, <3>2
  <2>5. ASSUME NEW i \in 1 .. Len(sets'[d])
        PROVE  sets'[d][i].closed <=> ~(status[d] = "ACTIVE" /\ i = Len(sets'[d]))
    <3>1. CASE i # Len(sets'[d])
      <4>1. /\ i \in 1 .. Len(ss) /\ sets'[d][i] = ss[i]
            /\ op[d] = "STOP" => i # Len(ss)
        BY <2>1, <2>3, <3>1, SetsAfterElements
      <4> QED BY <2>1, <3>1, <4>1 DEF SetsWhileReading
    <3>2. CASE i = Len(sets'[d]) /\ op[d] # "STOP"
      <4>1. sets'[d][i] = OpenedSet(now)
        BY <2>1, <2>3, <3>2, SetsAfterElements
      <4> QED BY <2>2, <3>2, <4>1 DEF OpenedSet
    <3>3. CASE i = Len(sets'[d]) /\ op[d] = "STOP"
      <4>1. i \in 1 .. Len(ss) /\ sets'[d][i] = ClosedSet(ss[i], now)
        BY <2>1, <2>3, <3>3, SetsAfterElements
      <4>2. ClosedSet(ss[i], now).closed = TRUE
        BY <2>1, <4>1 DEF ClosedSet, Set
      <4> QED BY <2>2, <3>3, <4>1, <4>2
    <3> QED BY <3>1, <3>2, <3>3
  <2> QED BY <2>1, <2>4, <2>5
<1> QED BY <1>1, <1>2

----------------------------------------------------------------------------
Activators(l) == {c \in Counter : l \in Activating(c)}

\* The steps that activate or deactivate a line.
ActivationStep ==
    \E c \in Counter, l \in Line : ActivateLine(c, l) \/ DeactivateLine(c, l)

\* Any other step leaves the counts and what each Counter activated alone.
LEMMA ActivatingKept ==
    ASSUME TypeOK, Control, [Next]_vars, ~ActivationStep, NEW d \in Counter
    PROVE  Activating(d)' = Activating(d) /\ active' = active
<1>a. ControlOf(d)
  BY DEF Control
<1> USE DEF Goto, deviceVars, lineVars, consumerVars, threadVars, counterVars
<1>1. CASE UNCHANGED vars
  BY <1>1 DEF Activating, vars
<1>2. CASE Consumer /\ UNCHANGED <<threadVars, counterVars>>
  BY <1>2 DEF Activating, Consumer, Pop, VisitLine, LoadSize, StoreElement
<1>3. ASSUME NEW c \in Counter, LoadNextId(c)
      PROVE  Activating(d)' = Activating(d) /\ active' = active
  BY <1>3, <1>a DEF TypeOK, ControlOf, Before, Activating, LoadNextId
<1>4. ASSUME NEW c \in Counter, StoreNextId(c)
      PROVE  Activating(d)' = Activating(d) /\ active' = active
  BY <1>4, <1>a DEF TypeOK, ControlOf, Before, Activating, StoreNextId
<1>5. ASSUME NEW c \in Counter, RequestFails(c)
      PROVE  Activating(d)' = Activating(d) /\ active' = active
  BY <1>5, <1>a DEF TypeOK, ControlOf, Before, Activating, RequestFails
<1>6. ASSUME NEW c \in Counter, Register(c)
      PROVE  Activating(d)' = Activating(d) /\ active' = active
  BY <1>6, <1>a DEF TypeOK, ControlOf, Before, Activating, Register, LockAndLoop
<1>7. ASSUME NEW c \in Counter, Registered(c)
      PROVE  Activating(d)' = Activating(d) /\ active' = active
  BY <1>7, <1>a DEF TypeOK, ControlOf, Before, Activating, Registered
<1>8. ASSUME NEW c \in Counter, Greet(c)
      PROVE  Activating(d)' = Activating(d) /\ active' = active
  BY <1>8, <1>a DEF TypeOK, ControlOf, Before, Activating, Greet
<1>9. ASSUME NEW c \in Counter, CatchCreate(c)
      PROVE  Activating(d)' = Activating(d) /\ active' = active
  BY <1>9, <1>a, ZenonT(30) DEF TypeOK, ControlOf, Before, Activating, CatchCreate,
            SendErrorOrLeak, End
<1>10. ASSUME NEW c \in Counter, ReceiveFails(c)
      PROVE  Activating(d)' = Activating(d) /\ active' = active
  BY <1>10, <1>a DEF TypeOK, ControlOf, Before, Activating, ReceiveFails
<1>11. ASSUME NEW c \in Counter, LeaveRun(c)
      PROVE  Activating(d)' = Activating(d) /\ active' = active
  BY <1>11, <1>a DEF TypeOK, ControlOf, Before, Activating, LeaveRun
<1>12. ASSUME NEW c \in Counter, Reject(c)
      PROVE  Activating(d)' = Activating(d) /\ active' = active
  BY <1>12, <1>a DEF TypeOK, ControlOf, Before, Activating, Reject
<1>13. ASSUME NEW c \in Counter, StartCounter(c)
      PROVE  Activating(d)' = Activating(d) /\ active' = active
  BY <1>13, <1>a DEF TypeOK, ControlOf, Before, Activating, StartCounter,
            LockAndLoop, Accepts, Needs
<1>14. ASSUME NEW c \in Counter, StopCounter(c)
      PROVE  Activating(d)' = Activating(d) /\ active' = active
  BY <1>14, <1>a DEF TypeOK, ControlOf, Before, Activating, StopCounter,
            LockAndLoop, Accepts, Needs
<1>15. ASSUME NEW c \in Counter, ChangeStatus(c)
      PROVE  Activating(d)' = Activating(d) /\ active' = active
  BY <1>15, <1>a DEF TypeOK, ControlOf, Before, Activating, ChangeStatus, LoopDone
<1>16. ASSUME NEW c \in Counter, RecordSet(c)
      PROVE  Activating(d)' = Activating(d) /\ active' = active
  BY <1>16, <1>a DEF TypeOK, ControlOf, Before, Activating, RecordSet
<1>17. ASSUME NEW c \in Counter, Get(c)
      PROVE  Activating(d)' = Activating(d) /\ active' = active
  BY <1>17, <1>a DEF TypeOK, ControlOf, Before, Activating, Get, Accepts
<1>18. ASSUME NEW c \in Counter, Finalize(c)
      PROVE  Activating(d)' = Activating(d) /\ active' = active
  BY <1>18, <1>a DEF TypeOK, ControlOf, Before, Activating, Finalize, Accepts
<1>19. ASSUME NEW c \in Counter, Reply(c)
      PROVE  Activating(d)' = Activating(d) /\ active' = active
  BY <1>19, <1>a DEF TypeOK, ControlOf, Before, Activating, Reply
<1>20. ASSUME NEW c \in Counter, CatchRun(c)
      PROVE  Activating(d)' = Activating(d) /\ active' = active
  BY <1>20, <1>a, ZenonT(30) DEF TypeOK, ControlOf, Before, Activating, CatchRun, SendErrorOrLeak, End
<1>21. ASSUME NEW c \in Counter, SkipDeregister(c)
      PROVE  Activating(d)' = Activating(d) /\ active' = active
  BY <1>21, <1>a DEF TypeOK, ControlOf, Before, Activating, SkipDeregister, End
<1>22. ASSUME NEW c \in Counter, Deregister(c)
      PROVE  Activating(d)' = Activating(d) /\ active' = active
  BY <1>22, <1>a DEF TypeOK, ControlOf, Before, Activating, Deregister, LockAndLoop
<1>23. ASSUME NEW c \in Counter, DeregisterUnknown(c)
      PROVE  Activating(d)' = Activating(d) /\ active' = active
  BY <1>23, <1>a DEF TypeOK, ControlOf, Before, Activating, DeregisterUnknown, End
<1>24. ASSUME NEW c \in Counter, Deregistered(c)
      PROVE  Activating(d)' = Activating(d) /\ active' = active
  BY <1>24, <1>a DEF TypeOK, ControlOf, Before, Activating, Deregistered, End
<1>25. ASSUME NEW c \in Counter, ReceiveRequest(c)
      PROVE  Activating(d)' = Activating(d) /\ active' = active
  BY <1>25, <1>a DEF TypeOK, ControlOf, Before, Activating, ReceiveRequest
<1>26. ASSUME NEW c \in Counter, RefuseRequest(c)
      PROVE  Activating(d)' = Activating(d) /\ active' = active
  BY <1>26, <1>a DEF TypeOK, ControlOf, Before, Activating, RefuseRequest
<1>27. ASSUME NEW c \in Counter, Hangup(c)
      PROVE  Activating(d)' = Activating(d) /\ active' = active
  BY <1>27, <1>a DEF TypeOK, ControlOf, Before, Activating, Hangup
<1>28. ASSUME NEW c \in Counter, NEW o \in Operation, Receive(c, o)
      PROVE  Activating(d)' = Activating(d) /\ active' = active
  BY <1>28 DEF TypeOK, Activating, Receive
<1>29. ASSUME NEW c \in Counter, NEW l \in Line, EnableLine(c, l)
      PROVE  Activating(d)' = Activating(d) /\ active' = active
  BY <1>29 DEF TypeOK, Activating, Iterate, EnableLine
<1>30. ASSUME NEW c \in Counter, NEW l \in Line, DisableLine(c, l)
      PROVE  Activating(d)' = Activating(d) /\ active' = active
  BY <1>30 DEF TypeOK, Activating, Iterate, DisableLine
<1>31. ASSUME NEW c \in Counter, NEW l \in Line, ReadSize(c, l)
      PROVE  Activating(d)' = Activating(d) /\ active' = active
  BY <1>31 DEF TypeOK, Activating, Iterate, ReadSize
<1> QED
  BY <1>1, <1>2, <1>3, <1>4, <1>5, <1>6, <1>7, <1>8, <1>9, <1>10, <1>11, <1>12,
  <1>13, <1>14, <1>15, <1>16, <1>17, <1>18, <1>19, <1>20, <1>21, <1>22, <1>23,
  <1>24, <1>25, <1>26, <1>27, <1>28, <1>29, <1>30, <1>31
  DEF Next, Thread, AwaitsClient, Construct, Serve, Destroy, LoopStep, ActivationStep

\* Line::_active counts the activators, whatever step is taken.
LEMMA ActiveStep ==
    TypeOK /\ Control /\ ActiveCount /\ [Next]_vars => ActiveCount'
<1> SUFFICES ASSUME TypeOK, Control, ActiveCount, [Next]_vars, NEW k \in Line
             PROVE  active'[k] = Cardinality(Activators(k)')
  BY DEF ActiveCount, Activators
<1>f. /\ IsFiniteSet(Activators(k))
      /\ active[k] = Cardinality(Activators(k))
      /\ active \in [Line -> Nat]
  BY DeviceAssumption, FS_Subset DEF ActiveCount, Activators, TypeOK
<1>1. CASE ~ActivationStep
  <2>1. Activators(k)' = Activators(k)
    BY <1>1, ActivatingKept DEF Activators
  <2>2. CASE Counter = {}
    <3>1. UNCHANGED active
      BY <2>2 DEF Next, Consumer, Pop, VisitLine, LoadSize, StoreElement,
                  vars, deviceVars, lineVars
    <3> QED BY <2>1, <3>1, <1>f
  <2>3. CASE Counter # {}
    BY <2>1, <2>3, <1>1, <1>f, ActivatingKept
  <2> QED BY <2>2, <2>3
<1>2. ASSUME NEW c \in Counter, NEW l \in Line, ActivateLine(c, l)
      PROVE  active'[k] = Cardinality(Activators(k)')
  <2>1. /\ Activating(c)' = Activating(c) \cup {l}
        /\ l \notin Activating(c)
        /\ \A d \in Counter \ {c} : Activating(d)' = Activating(d)
    BY <1>2 DEF ActivateLine, Iterate, IsFirst, Activating, Control, ControlOf, TypeOK,
                counterVars
  <2>2. active' = [active EXCEPT ![l] = active[l] + 1]
    BY <1>2 DEF ActivateLine, activate
  <2>3. CASE k = l
    <3>1. Activators(k)' = Activators(k) \cup {c} /\ c \notin Activators(k)
      BY <2>1, <2>3 DEF Activators
    <3> QED BY <3>1, <2>2, <2>3, <1>f, FS_AddElement
  <2>4. CASE k # l
    <3>1. Activators(k)' = Activators(k)
      BY <2>1, <2>4 DEF Activators
    <3> QED BY <3>1, <2>2, <2>4, <1>f
  <2> QED BY <2>3, <2>4
<1>3. ASSUME NEW c \in Counter, NEW l \in Line, DeactivateLine(c, l)
      PROVE  active'[k] = Cardinality(Activators(k)')
  <2>1. /\ Activating(c)' = Activating(c) \ {l}
        /\ l \in Activating(c)
        /\ \A d \in Counter \ {c} : Activating(d)' = Activating(d)
    BY <1>3 DEF DeactivateLine, Iterate, IsFirst, Activating, TypeOK, counterVars
  <2>2. active' = [active EXCEPT ![l] = deactivate(active[l])]
    BY <1>3 DEF DeactivateLine
  <2>3. CASE k = l
    <3>1. Activators(k)' = Activators(k) \ {c} /\ c \in Activators(k)
      BY <2>1, <2>3 DEF Activators
    <3>2. Cardinality(Activators(k)') = Cardinality(Activators(k)) - 1
      BY <3>1, <1>f, FS_RemoveElement
    <3>3. Activators(k) # {} /\ Cardinality(Activators(k)) \in Nat
      BY <3>1, <1>f, FS_CardinalityType
    <3>4. active[k] > 0
      BY <3>3, <1>f, FS_EmptySet
    <3> QED BY <3>2, <3>4, <2>2, <2>3, <1>f DEF deactivate
  <2>4. CASE k # l
    <3>1. Activators(k)' = Activators(k)
      BY <2>1, <2>4 DEF Activators
    <3> QED BY <3>1, <2>2, <2>4, <1>f
  <2> QED BY <2>3, <2>4
<1> QED BY <1>1, <1>2, <1>3 DEF ActivationStep

----------------------------------------------------------------------------
\* The inductive invariant.
Inv ==
    /\ TypeOK /\ Control
    /\ EnabledCount /\ ActiveCount
    /\ LoadedSizeBounds /\ SizesRead /\ SlicesInBuffer
    /\ SetsWhileReading /\ OpenSetIffActive

\* Counter's and Device's constructors establish the invariant.
LEMMA InitInv == Init => Inv
<1> SUFFICES ASSUME Init PROVE Inv
  OBVIOUS
<1>1. TypeOK
  BY DeviceAssumption
  DEF Init, DeviceInit, TypeOK, Location, Operation, NoOffsets, Offsets
<1>2. Control
  BY DeviceAssumption DEF Init, DeviceInit, Control, ControlOf, Critical, Session, Before
<1>3. EnabledCount
  <2>1. \A l \in Line : {c \in Counter : l \in Holding(c)} = {}
    BY DEF Init, Holding
  <2> QED BY <2>1, FS_EmptySet DEF EnabledCount, Init, DeviceInit
<1>4. LoadedSizeBounds /\ SizesRead /\ SlicesInBuffer /\ SetsWhileReading
      /\ OpenSetIffActive
  BY DEF Init, DeviceInit, LoadedSizeBounds, SizesRead, SlicesInBuffer,
         SetsWhileReading, OpenSetIffActive, Session
<1>5. ActiveCount
  <2>1. \A l \in Line : {c \in Counter : l \in Activating(c)} = {}
    BY DEF Init, Activating
  <2> QED BY <2>1, FS_EmptySet DEF ActiveCount, Init, DeviceInit
<1> QED BY <1>1, <1>2, <1>3, <1>4, <1>5 DEF Inv

\* Every step of a thread, a client or the consumer preserves the invariant.
LEMMA InvStep == Inv /\ [Next]_vars => Inv'
BY TypeStep, ControlStep, EnabledStep, ActiveStep, LoadedSizeStep, SizesStep, SlicesStep,
   ReadingShapeStep, OpenSetStep
DEF Inv

\* The inductive invariant holds in every state the sessions and the device's
\* consumer can reach.
THEOREM Invariance == Spec => []Inv
BY InitInv, InvStep, PTL DEF Spec

\* The sessions, the lines and the consumer's variables keep their types.
THEOREM TypeCorrect == Spec => []TypeOK
<1>1. Inv => TypeOK
  BY DEF Inv
<1> QED BY <1>1, Invariance, PTL

(***************************************************************************)
(* The reference count of a line is exact, for any number of connections   *)
(* and lines: Line::enable and Line::disable under counter_lock.           *)
(***************************************************************************)
THEOREM EnabledExact == Spec => []EnabledCount
<1>1. Inv => EnabledCount
  BY DEF Inv
<1> QED BY <1>1, Invariance, PTL

(***************************************************************************)
(* So is the count that makes the consumer buffer a line: no session's     *)
(* stop() ends the recording of another.                                   *)
(***************************************************************************)
THEOREM ActiveExact == Spec => []ActiveCount
<1>1. Inv => ActiveCount
  BY DEF Inv
<1> QED BY <1>1, Invariance, PTL

(***************************************************************************)
(* Every offset a session recorded is within its line's buffer for as long *)
(* as the session can ask for the data: Counter::get's iterators are in    *)
(* range although sizes are read, and samples appended, without the lock.  *)
(***************************************************************************)
THEOREM SlicesSafe == Spec => []SlicesInBuffer
<1>1. Inv => SlicesInBuffer
  BY DEF Inv
<1> QED BY <1>1, Invariance, PTL

(***************************************************************************)
(* Exactly the last set of an ACTIVE session is open: Counter::stop has a  *)
(* set to close and Counter::get never reads an end that is not there.     *)
(***************************************************************************)
THEOREM SetsWellFormed == Spec => []OpenSetIffActive
<1>1. Inv => OpenSetIffActive
  BY DEF Inv
<1> QED BY <1>1, Invariance, PTL

(***************************************************************************)
(* Device::deregister_counter never clears, and the consumer never         *)
(* overwrites, samples of a line that another Counter still holds.         *)
(***************************************************************************)
THEOREM HeldDataSafe == Spec => HeldDataOnlyGrows
<1>1. Inv /\ [Next]_vars =>
        [\A c \in Counter : \A l \in Holding(c) \cap Holding(c)' :
            /\ Len(data[l]) <= Len(data'[l])
            /\ \A i \in 1 .. Len(data[l]) : data'[l][i] = data[l][i]]_vars
  BY HeldDataGrows DEF Inv
<1> QED BY <1>1, Invariance, PTL DEF Spec, HeldDataOnlyGrows

----------------------------------------------------------------------------
(***************************************************************************)
(* A recording session gets every sample, for every number of connections, *)
(* lines and samples: what is shown above of the counts and buffers, and   *)
(* in addition what the unlocked consumer appends.                         *)
(***************************************************************************)

\* c has activated all its lines and has not begun to deactivate them.
Recording(c) == status[c] = "ACTIVE" /\ pc[c] \in Session \ {"deactivate"}

\* The lines whose begin c knows: get_lines_sizes reads one after the other.
Marked(c) == IF pc[c] = "sizes" THEN lines[c] \ todo[c] ELSE lines[c]
Begin(c, l) == IF pc[c] = "sizes" THEN sizes[c][l] ELSE sets[c][Len(sets[c])].first[l]

\* The property, with begins that are read and not yet recorded in a set.
Recorded ==
    \A c \in Counter : Recording(c) =>
        \A l \in Marked(c) : HoldsSamples(data[l], Begin(c, l), begun[c][l], Latest(l))

\* Between the consumer's load of a size and its store the buffer has that
\* size, or was cleared: nobody else appends.
StoreSize ==
    cpc = "store" => \A l \in Line : IsFirst(l, pending) => Len(data[l]) \in {0, oldSize}

(***************************************************************************)
(* The inductive invariant.  Inv is needed for its counts: a recording     *)
(* session keeps its lines active, so that the consumer appends, and       *)
(* enabled, so that nobody clears them.                                    *)
(***************************************************************************)
RecordingInv == Inv /\ StoreSize /\ Recorded

----------------------------------------------------------------------------
\* What vector::push_back writes, slot by slot.
LEMMA PushBackElements ==
    ASSUME NEW s \in Seq(0 .. MaxSamples), NEW n \in Nat, Len(s) <= n, NEW obj
    PROVE  LET r == push_back(s, n, obj) IN
           /\ \A i \in 1 .. Len(s) : r[i] = s[i]
           /\ \A i \in Len(s) + 1 .. n : r[i] = Garbage
           /\ r[n + 1] = obj
<1>1. Len(s) \in Nat
  OBVIOUS
<1> QED BY <1>1 DEF push_back

\* An append continues the samples since b; one to a buffer that was cleared
\* leaves nothing before it but slots that were never written.
LEMMA AppendHolds ==
    ASSUME NEW s \in Seq(0 .. MaxSamples), NEW n \in Nat, Len(s) \in {0, n},
           NEW obj \in 0 .. MaxSamples, NEW b \in Nat, NEW from \in Int,
           HoldsSamples(s, b, from, obj - 1)
    PROVE  HoldsSamples(push_back(s, n, obj), b, from, obj)
<1> DEFINE r == push_back(s, n, obj)
<1>1. Len(s) \in Nat /\ Len(s) <= n /\ MaxSamples \in Nat /\ obj \in Nat
  BY DeviceAssumption
<1>2. Len(r) = n + 1
  BY PushBack
<1>3. /\ \A i \in 1 .. Len(s) : r[i] = s[i]
      /\ \A i \in Len(s) + 1 .. n : r[i] = Garbage
      /\ r[n + 1] = obj
  BY <1>1, PushBackElements
<1> HIDE DEF r
<1>4. from <= obj - 1 /\ b + (obj - 1 - from) <= Len(s)
  BY DEF HoldsSamples
<1>5. from <= obj /\ b + (obj - from) <= Len(r)
  BY <1>1, <1>2, <1>4
<1>6. ASSUME NEW i \in b + 1 .. Len(r)
      PROVE  r[i] = IF Len(r) - i < obj - from THEN obj - (Len(r) - i) ELSE Garbage
  <2>1. i \in 1 .. n + 1 /\ i > b /\ i \in Nat
    BY <1>2
  <2>2. CASE i = n + 1
    <3>1. Len(r) - i = 0 /\ 0 < obj - from /\ obj - 0 = obj
      BY <1>1, <1>2, <1>4, <2>2
    <3> QED BY <1>3, <2>2, <3>1
  <2>3. CASE i <= n /\ Len(s) = n
    <3>1. i \in b + 1 .. Len(s) /\ i \in 1 .. Len(s)
      BY <2>1, <2>3
    <3>2. r[i] = IF Len(s) - i < obj - 1 - from THEN obj - 1 - (Len(s) - i) ELSE Garbage
      BY <1>3, <3>1 DEF HoldsSamples
    <3>3. /\ Len(s) - i < obj - 1 - from <=> Len(r) - i < obj - from
          /\ obj - 1 - (Len(s) - i) = obj - (Len(r) - i)
      BY <1>1, <1>2, <2>1, <2>3
    <3> QED BY <3>2, <3>3
  <2>4. CASE i <= n /\ Len(s) = 0
    <3>1. r[i] = Garbage
      BY <1>3, <2>1, <2>4
    <3>2. from = obj - 1
      BY <1>1, <1>4, <2>4
    <3>3. ~(Len(r) - i < obj - from)
      BY <1>1, <1>2, <2>1, <2>4, <3>2
    <3> QED BY <3>1, <3>3
  <2> QED BY <2>1, <2>2, <2>3, <2>4
<1>7. HoldsSamples(r, b, from, obj)
  BY <1>5, <1>6 DEF HoldsSamples
<1> QED BY <1>7 DEF r

\* Nobody but the consumer appends, whatever step is taken.
LEMMA StoreSizeStep ==
    TypeOK /\ StoreSize /\ [Next]_vars => StoreSize'
<1> SUFFICES ASSUME TypeOK, StoreSize, [Next]_vars PROVE StoreSize'
  OBVIOUS
<1>1. CASE Consumer
  <2>1. CASE Pop
    BY <2>1 DEF Pop, StoreSize
  <2>2. ASSUME NEW l \in Line, VisitLine(l) PROVE StoreSize'
    BY <2>2 DEF VisitLine, StoreSize
  <2>3. ASSUME NEW l \in Line, LoadSize(l) PROVE StoreSize'
    <3>1. \A k \in Line : IsFirst(k, pending) => k = l
      BY <2>3 DEF LoadSize, IsFirst, Line
    <3> QED BY <2>3, <3>1 DEF LoadSize, StoreSize, lineVars, IsFirst
  <2>4. ASSUME NEW l \in Line, StoreElement(l) PROVE StoreSize'
    BY <2>4 DEF StoreElement, StoreSize
  <2> QED BY <1>1, <2>1, <2>2, <2>3, <2>4 DEF Consumer
<1>2. CASE ~Consumer
  <2>1. UNCHANGED <<pending, cpc, oldSize>>
    BY <1>2, ConsumerKept DEF consumerVars
  <2>2. CASE ~DataStep
    BY <2>1, <2>2, DataKept DEF StoreSize, IsFirst
  <2>3. ASSUME NEW c \in Counter, NEW l \in Line, DisableLine(c, l)
        PROVE  StoreSize'
    <3>1. \A k \in Line : data'[k] = data[k] \/ Len(data'[k]) = 0
      BY <2>3 DEF DisableLine, clear_data, TypeOK
    <3> QED BY <2>1, <3>1 DEF StoreSize, IsFirst
  <2> QED BY <1>2, <2>2, <2>3 DEF DataStep, Consumer
<1> QED BY <1>1, <1>2

\* Under a recording session the consumer handles every sample of its lines:
\* it finds them active, and nobody clears them.
LEMMA SamplesFollow ==
    ASSUME Inv, StoreSize, [Next]_vars, NEW c \in Counter, Recording(c), Recording(c)',
           NEW l \in lines[c], lines'[c] = lines[c], NEW b \in Nat, NEW from \in Int,
           HoldsSamples(data[l], b, from, Latest(l))
    PROVE  HoldsSamples(data'[l], b, from, Latest(l)')
<1>t. TypeOK /\ Control /\ EnabledCount /\ ActiveCount /\ LoadedSizeBounds /\ TypeOK' /\ Control'
  BY TypeStep, ControlStep DEF Inv
<1>l. l \in Line /\ data \in [Line -> Seq(0 .. MaxSamples)] /\ Len(data[l]) \in Nat
  <2>1. lines[c] \subseteq Line /\ data \in [Line -> Seq(0 .. MaxSamples)]
    BY <1>t DEF TypeOK
  <2>2. data[l] \in Seq(0 .. MaxSamples)
    BY <2>1
  <2> QED BY <2>1, <2>2
<1>h. l \in Holding(c) \cap Holding(c)'
  <2>1. registered[c] /\ registered'[c]
    BY <1>t DEF Control, ControlOf, Recording
  <2> QED BY <2>1 DEF Holding, Recording, Session
<1>a. active[l] > 0
  <2>1. pc[c] # "activate"
    BY <1>t DEF Control, ControlOf, Recording
  <2>2. c \in Activators(l)
    BY <2>1 DEF Activators, Activating, Recording
  <2>3. IsFiniteSet(Activators(l)) /\ active[l] = Cardinality(Activators(l))
    BY <1>l, <1>t, DeviceAssumption, FS_Subset DEF Activators, ActiveCount
  <2>4. Cardinality(Activators(l)) \in Nat /\ Cardinality(Activators(l)) # 0
    BY <2>2, <2>3, FS_CardinalityType, FS_EmptySet
  <2> QED BY <2>3, <2>4
<1>p. popped \in Nat
  BY <1>t DEF TypeOK
<1>1. CASE Consumer
  <2>1. CASE Pop
    <3>1. data'[l] = data[l] /\ Latest(l)' = Latest(l)
      BY <1>l, <1>p, <2>1 DEF Pop, Latest, lineVars
    <3> QED BY <3>1
  <2>2. ASSUME NEW k \in Line, VisitLine(k) PROVE HoldsSamples(data'[l], b, from, Latest(l)')
    <3>1. data'[l] = data[l] /\ Latest(l)' = Latest(l)
      BY <1>l, <1>a, <2>2 DEF VisitLine, Latest, lineVars
    <3> QED BY <3>1
  <2>3. ASSUME NEW k \in Line, LoadSize(k) PROVE HoldsSamples(data'[l], b, from, Latest(l)')
    <3>1. data'[l] = data[l] /\ Latest(l)' = Latest(l)
      BY <2>3 DEF LoadSize, Latest, lineVars
    <3> QED BY <3>1
  <2>4. ASSUME NEW k \in Line, StoreElement(k), k # l PROVE HoldsSamples(data'[l], b, from, Latest(l)')
    <3>1. data'[l] = data[l] /\ Latest(l)' = Latest(l)
      BY <1>l, <2>4 DEF StoreElement, Latest
    <3> QED BY <3>1
  <2>5. ASSUME StoreElement(l) PROVE HoldsSamples(data'[l], b, from, Latest(l)')
    <3>1. /\ data'[l] = push_back(data[l], oldSize, popped) /\ Latest(l)' = popped
          /\ Latest(l) = popped - 1 /\ oldSize \in Nat /\ Len(data[l]) \in {0, oldSize}
      BY <1>l, <1>t, <2>5 DEF StoreElement, Latest, IsFirst, StoreSize, TypeOK
    <3>2. popped \in 0 .. MaxSamples /\ data[l] \in Seq(0 .. MaxSamples)
      BY <1>l, <1>t DEF TypeOK
    <3> QED BY <3>1, <3>2, AppendHolds
  <2> QED BY <1>1, <2>1, <2>2, <2>3, <2>4, <2>5 DEF Consumer
<1>2. CASE ~Consumer
  <2>1. Latest(l)' = Latest(l)
    BY <1>2, ConsumerKept DEF consumerVars, Latest
  <2>2. data'[l] = data[l]
    <3>1. CASE ~DataStep
      BY <3>1, DataKept
    <3>2. ASSUME NEW d \in Counter, NEW k \in Line, DisableLine(d, k)
          PROVE  data'[l] = data[l]
      <4>1. data'[l] = data[l] \/ data'[l] = <<>>
        BY <1>l, <3>2 DEF DisableLine, clear_data
      <4>2. Len(data[l]) <= Len(data'[l])
        BY <1>h, <1>t, HeldDataGrows
      <4> QED BY <1>l, <4>1, <4>2
    <3> QED BY <1>2, <3>1, <3>2 DEF DataStep, Consumer
  <2> QED BY <2>1, <2>2
<1> QED BY <1>1, <1>2

----------------------------------------------------------------------------
\* stop_counter's loop is left only by the change of status.
LEMMA DeactivatingStep ==
    ASSUME TypeOK, [Next]_vars, NEW d \in Counter, pc[d] = "deactivate", ~ChangeStatus(d)
    PROVE  pc'[d] = "deactivate"
BY SMTT(60) DEF TypeOK, Next, vars, threadVars, counterVars, Goto, Consumer, Thread, AwaitsClient,
       Construct,
       Serve, Destroy, LoopStep, SendErrorOrLeak, End, LockAndLoop, Accepts,
       LoadNextId, StoreNextId, RequestFails, Register, Registered, Greet,
       CatchCreate, ReceiveFails, LeaveRun, Reject, StartCounter, StopCounter,
       ChangeStatus, RecordSet, Get, Finalize, Reply, CatchRun, SkipDeregister,
       Deregister, DeregisterUnknown, Deregistered, ReceiveRequest,
       RefuseRequest, Hangup, Receive,
       EnableLine, ActivateLine, DeactivateLine, ReadSize, DisableLine

\* The consumer's place at a begin is noted when the begin is read.
LEMMA BegunStep ==
    ASSUME TypeOK, [Next]_vars, NEW d \in Counter, ~\E l \in Line : ReadSize(d, l)
    PROVE  begun'[d] = begun[d]
<1>1. ASSUME NEW c \in Counter, NEW l \in Line, ReadSize(c, l) PROVE begun'[d] = begun[d]
  <2>1. c # d /\ begun \in [Counter -> [Line -> Int]]
    BY <1>1 DEF TypeOK
  <2>2. begun' = begun \/ begun' = [begun EXCEPT ![c][l] = Latest(l)]
    BY <1>1 DEF ReadSize
  <2> QED BY <2>1, <2>2
<1>2. CASE ~\E c \in Counter, l \in Line : ReadSize(c, l)
  <2>1. UNCHANGED begun
    BY <1>2 DEF Next, vars, threadVars, counterVars, Consumer, Thread, AwaitsClient, Construct,
       Serve, Destroy, LoopStep, SendErrorOrLeak, End,
       LoadNextId, StoreNextId, RequestFails, Register, Registered, Greet,
       CatchCreate, ReceiveFails, LeaveRun, Reject, StartCounter, StopCounter,
       ChangeStatus, RecordSet, Get, Finalize, Reply, CatchRun, SkipDeregister,
       Deregister, DeregisterUnknown, Deregistered, ReceiveRequest,
       RefuseRequest, Hangup, Receive,
       EnableLine, ActivateLine, DeactivateLine, DisableLine
  <2> QED BY <2>1
<1> QED BY <1>1, <1>2

\* The begin of a recording session's set stays where it is, and what was
\* buffered since are the samples handled since.
LEMMA RecordedStep ==
    RecordingInv /\ [Next]_vars => Recorded'
<1> SUFFICES ASSUME RecordingInv, [Next]_vars, NEW d \in Counter, Recording(d)',
                    NEW l \in Marked(d)'
             PROVE  HoldsSamples(data'[l], Begin(d, l)', begun'[d][l], Latest(l)')
  BY DEF Recorded
<1>t. /\ Inv /\ StoreSize /\ Recorded /\ TypeOK /\ Control /\ OpenSetIffActive
      /\ TypeOK' /\ Control' /\ ControlOf(d) /\ ControlOf(d)'
  BY TypeStep, ControlStep DEF RecordingInv, Inv, Control
<1>s. pc'[d] \in Session \ {"deactivate"} /\ status'[d] = "ACTIVE"
  BY DEF Recording
<1>b. begun[d][l] \in Int
  <2>1. begun \in [Counter -> [Line -> Int]] /\ l \in Line
    BY <1>t DEF TypeOK, Marked
  <2> QED BY <2>1
<1>1. CASE RecordSet(d)
  <2>1. /\ sets'[d] = SetsAfter(op[d], sets[d], sizes[d])
        /\ todo[d] = {} /\ pc[d] = "sizes" /\ pc'[d] = "success"
        /\ data' = data /\ lines' = lines /\ status' = status
        /\ op[d] \in {"START", "CONTINUE", "STOP"}
        /\ sets[d] \in Seq(Set) /\ sizes[d] \in Offsets
    <3>1. /\ sets' = [sets EXCEPT ![d] = SetsAfter(op[d], sets[d], sizes[d])]
          /\ todo[d] = {} /\ pc[d] = "sizes" /\ pc'[d] = "success"
          /\ UNCHANGED <<data, lines, status, op>>
          /\ op[d] \in {"START", "CONTINUE", "STOP"}
          /\ sets[d] \in Seq(Set) /\ sizes[d] \in Offsets
      BY <1>1, <1>t, RecordSetEffect
    <3>2. sets \in [Counter -> Seq(Set)]
      BY <1>t DEF TypeOK
    <3> QED BY <3>1, <3>2
  <2>2. op[d] # "STOP" /\ status[d] = "ACTIVE"
    BY <1>s, <1>t, <2>1 DEF ControlOf
  <2>3. Recording(d) /\ l \in Marked(d) /\ Begin(d, l) = sizes[d][l]
    BY <2>1, <2>2 DEF Recording, Marked, Begin, Session
  <2>4. Latest(l)' = Latest(l)
    BY <1>1 DEF RecordSet, deviceVars, consumerVars, Latest
  <2>5. Begin(d, l)' = sizes[d][l]
    <3> DEFINE after == SetsAfter(op[d], sets[d], sizes[d])
    <3>1. after \in Seq(Set) /\ after # <<>>
      <4>1. after \in Seq(Set)
        BY <2>1, SetsAfterType
      <4>2. ASSUME op[d] = "START" PROVE after # <<>>
        BY <4>2 DEF SetsAfter
      <4>3. ASSUME op[d] = "CONTINUE" PROVE after # <<>>
        <5>1. after = Append(sets[d], OpenedSet(sizes[d]))
          BY <4>3 DEF SetsAfter
        <5>2. Append(sets[d], OpenedSet(sizes[d])) # <<>>
          BY <2>1
        <5> QED BY <5>1, <5>2
      <4> QED BY <2>1, <2>2, <4>1, <4>2, <4>3
    <3>2. Len(after) \in 1 .. Len(after)
      BY <3>1
    <3>3. after[Len(after)] = OpenedSet(sizes[d])
      BY <2>1, <2>2, <3>2, SetsAfterElements
    <3>4. after[Len(after)].first = sizes[d]
      BY <3>3 DEF OpenedSet
    <3> QED BY <2>1, <3>4 DEF Begin
  <2>6. HoldsSamples(data[l], sizes[d][l], begun[d][l], Latest(l))
    BY <1>t, <2>3 DEF Recorded
  <2>7. begun' = begun
    BY <1>1 DEF RecordSet
  <2> QED BY <2>1, <2>4, <2>5, <2>6, <2>7
<1>2. CASE ~RecordSet(d) /\ pc'[d] # "sizes"
  <2>1. /\ pc[d] \in Session \cup {"greet"} /\ lines'[d] = lines[d] /\ sets'[d] = sets[d]
        /\ pc[d] # "sizes" /\ status'[d] = status[d]
    BY <1>2, <1>s, <1>t, SessionStep DEF SessionKept
  <2>2. pc[d] # "greet"
    BY <1>s, <1>t, <2>1 DEF ControlOf
  <2>3. pc[d] # "deactivate"
    <3>1. ChangeStatus(d) => pc'[d] = "sizes"
      BY <1>t DEF ChangeStatus, Goto, TypeOK
    <3> QED BY <1>2, <1>s, <1>t, <3>1, DeactivatingStep
  <2>4. Recording(d) /\ l \in Marked(d) /\ l \in lines[d] /\ Begin(d, l)' = Begin(d, l)
    BY <1>2, <1>s, <2>1, <2>2, <2>3 DEF Recording, Marked, Begin
  <2>5. Begin(d, l) \in Nat
    <3>1. sets[d] \in Seq(Set) /\ lines[d] \subseteq Line
      BY <1>t DEF TypeOK
    <3>2. sets[d] # <<>>
      BY <1>t, <2>1, <2>4 DEF OpenSetIffActive, Recording
    <3>3. sets[d][Len(sets[d])] \in Set
      BY <3>1, <3>2
    <3> QED BY <2>1, <2>4, <3>1, <3>3 DEF Begin, Set, Offsets
  <2>6. HoldsSamples(data[l], Begin(d, l), begun[d][l], Latest(l))
    BY <1>t, <2>4 DEF Recorded
  <2> HIDE DEF RecordingInv
  <2>7. HoldsSamples(data'[l], Begin(d, l), begun[d][l], Latest(l)')
    BY <1>b, <1>t, <2>1, <2>4, <2>5, <2>6, SamplesFollow
  <2>8. begun'[d] = begun[d]
    BY <1>t, <2>1, BegunStep DEF ReadSize
  <2> QED BY <2>4, <2>7, <2>8
<1>3. CASE pc'[d] = "sizes" /\ ChangeStatus(d)
  <2>1. todo'[d] = lines'[d]
    BY <1>3, <1>t DEF ChangeStatus, TypeOK
  <2> QED BY <1>3, <2>1 DEF Marked
<1>4. ASSUME pc'[d] = "sizes", NEW k \in Line, ReadSize(d, k)
      PROVE  HoldsSamples(data'[l], Begin(d, l)', begun'[d][l], Latest(l)')
  <2>1. /\ pc[d] = "sizes" /\ data' = data /\ lines' = lines /\ status' = status
        /\ todo'[d] = todo[d] \ {k} /\ sizes' = [sizes EXCEPT ![d][k] = Len(data[k])]
        /\ Latest(l)' = Latest(l)
    BY <1>4, <1>t DEF ReadSize, Iterate, deviceVars, lineVars, consumerVars, Latest, TypeOK
  <2>2. sizes \in [Counter -> [Line -> Nat]] /\ lines[d] \subseteq Line /\ data[k] \in Seq(0 .. MaxSamples)
    BY <1>t DEF TypeOK, Offsets
  <2>3. CASE l = k
    <3>1. Begin(d, l)' = Len(data'[l]) /\ Len(data'[l]) \in Nat
      BY <1>4, <2>1, <2>2, <2>3 DEF Begin
    <3>2. op[d] # "STOP"
      BY <1>s, <1>t, <2>1 DEF ControlOf
    <3>3. begun' = [begun EXCEPT ![d][k] = Latest(k)] /\ begun \in [Counter -> [Line -> Int]]
      BY <1>4, <1>t, <3>2 DEF ReadSize, TypeOK
    <3>4. begun'[d][l] = Latest(l)' /\ Latest(l) \in Int
      <4>1. Latest(l) \in Int
        BY <1>t DEF Latest, TypeOK
      <4> QED BY <2>1, <2>3, <3>3, <4>1
    <3> QED BY <2>1, <3>1, <3>4 DEF HoldsSamples
  <2>4. CASE l # k
    <3>1. Recording(d) /\ l \in Marked(d)
      BY <1>4, <1>s, <2>1, <2>4 DEF Recording, Marked, Session
    <3>2. Begin(d, l)' = Begin(d, l)
      BY <1>4, <2>1, <2>2, <2>4 DEF Begin
    <3>3. HoldsSamples(data[l], Begin(d, l), begun[d][l], Latest(l))
      BY <1>t, <3>1 DEF Recorded
    <3>4. begun'[d][l] = begun[d][l]
      BY <1>4, <1>t, <2>4 DEF ReadSize, TypeOK
    <3> QED BY <2>1, <3>2, <3>3, <3>4
  <2> QED BY <2>3, <2>4
<1>5. CASE pc'[d] = "sizes" /\ ~ChangeStatus(d) /\ ~\E k \in Line : ReadSize(d, k)
  <2>1. pc[d] = "sizes" /\ sizes'[d] = sizes[d] /\ todo'[d] = todo[d] /\ op'[d] = op[d]
    BY <1>5, <1>t, ReadingStep DEF ReadingKept
  <2>2. ~RecordSet(d)
    BY <1>5, <1>t DEF RecordSet, Goto, TypeOK
  <2>3. lines'[d] = lines[d]
    BY <1>s, <1>t, <2>2, SessionStep DEF SessionKept
  <2>4. status[d] = "ACTIVE"
    BY <1>5, <1>s, <1>t, <2>1 DEF ControlOf
  <2>5. Recording(d) /\ l \in Marked(d) /\ l \in lines[d] /\ Begin(d, l)' = Begin(d, l)
    BY <1>5, <1>s, <2>1, <2>3, <2>4 DEF Recording, Marked, Begin, Session
  <2>6. Begin(d, l) \in Nat
    <3>1. sizes[d] \in [Line -> Nat] /\ lines[d] \subseteq Line
      BY <1>t DEF TypeOK, Offsets
    <3> QED BY <2>1, <2>5, <3>1 DEF Begin
  <2>7. HoldsSamples(data[l], Begin(d, l), begun[d][l], Latest(l))
    BY <1>t, <2>5 DEF Recorded
  <2>8. HoldsSamples(data'[l], Begin(d, l), begun[d][l], Latest(l)')
    BY <1>b, <1>t, <2>3, <2>5, <2>6, <2>7, SamplesFollow
  <2>9. begun'[d] = begun[d]
    BY <1>5, <1>t, BegunStep
  <2> QED BY <2>5, <2>8, <2>9
<1> QED BY <1>1, <1>2, <1>3, <1>4, <1>5

----------------------------------------------------------------------------
\* A device that just started has no sessions.
LEMMA RecordingInit == Init => RecordingInv
<1> SUFFICES ASSUME Init PROVE RecordingInv
  OBVIOUS
<1>1. StoreSize /\ Recorded
  BY DEF Init, DeviceInit, StoreSize, Recorded, Recording
<1> QED BY <1>1, InitInv DEF RecordingInv

\* Every step of the sessions, their clients and the consumer keeps it.
LEMMA RecordingStep == RecordingInv /\ [Next]_vars => RecordingInv'
<1>1. RecordingInv => Inv /\ TypeOK /\ StoreSize
  BY DEF RecordingInv, Inv
<1> QED BY <1>1, InvStep, StoreSizeStep, RecordedStep DEF RecordingInv

(***************************************************************************)
(* A recording session's lines hold every sample handled since its begin   *)
(* was read, from the first one on: the consumer, which takes no lock,     *)
(* finds every line of the session active for each sample it pops, and no  *)
(* other session's stop or deregistration comes between.                   *)
(***************************************************************************)
THEOREM NoSampleMissed == Spec => []RecordingMissesNoSample
<1>1. RecordingInv => RecordingMissesNoSample
  <2> SUFFICES ASSUME RecordingInv, NEW c \in Counter,
                      pc[c] \in Session \ {"sizes", "deactivate"}, status[c] = "ACTIVE",
                      NEW l \in lines[c]
               PROVE  HoldsSamples(data[l], sets[c][Len(sets[c])].first[l], begun[c][l], Latest(l))
    BY DEF RecordingMissesNoSample
  <2>1. Recording(c) /\ l \in Marked(c) /\ Begin(c, l) = sets[c][Len(sets[c])].first[l]
    BY DEF Recording, Marked, Begin
  <2>2. HoldsSamples(data[l], Begin(c, l), begun[c][l], Latest(l))
    BY <2>1 DEF RecordingInv, Recorded
  <2> QED BY <2>1, <2>2
<1>2. Spec => []RecordingInv
  BY RecordingInit, RecordingStep, PTL DEF Spec
<1> QED BY <1>1, <1>2, PTL
============================================================================
