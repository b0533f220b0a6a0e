------------------------- MODULE TracePluginsProofs -------------------------
(***************************************************************************)
(* Safety of the tracing plugins for any events, any devices and any       *)
(* number of entries, samples and ticks of the tool's clock.               *)
(***************************************************************************)
EXTENDS TracePlugins, SequenceTheorems, FiniteSetTheorems, WellFoundedInduction, TLAPS

DeviceNames == {Device[e] : e \in Events}
Entry == [name : Names, device : DeviceNames, session : Nat, timer_start : Nat, timer_stop : Nat]
Session == [name : Names, device : DeviceNames, status : {"ACTIVE", "INACTIVE", "CLOSED"},
            opened : Nat]

PluginType ==
    /\ ended \in {"no", "returned", "exited"} /\ now \in Nat
    /\ counters \in Seq(Entry) /\ sessions \in Seq(Session)
    /\ timer_start \in Nat /\ latest \in Nat

\* An entry's session bears its name, and only the first entry of a name ever
\* gets one.
OwnInv ==
    \A i \in 1 .. Len(counters) : counters[i].session # 0 =>
        /\ counters[i].session \in 1 .. Len(sessions)
        /\ sessions[counters[i].session].name = counters[i].name
        /\ \A j \in 1 .. i - 1 : counters[j].name # counters[i].name

\* No more sessions of a name than entries of it.
SessionsNamed(name) == {s \in DOMAIN sessions : sessions[s].name = name}
AddInv == \A name \in Names : Cardinality(SessionsNamed(name)) <= Cardinality(Named(name))

\* A VampirTrace counter started after its session was opened.
StartInv ==
    plugin # "scorep" =>
        \A i \in 1 .. Len(counters) : counters[i].session # 0 =>
            /\ sessions[counters[i].session].opened <= counters[i].timer_start
            /\ counters[i].timer_start <= now

\* Score-P was given nothing later than its start time.
TimelineInv == plugin = "scorep" => latest <= timer_start /\ timer_start <= now

(***************************************************************************)
(* The inductive invariant.  That finalize leaves no session behind rests  *)
(* on the entries: with two of one name the second never gets a session    *)
(* (OwnInv) and finalize does not return; with one of each name there is   *)
(* one session of each name (AddInv), which is the entry's.                *)
(***************************************************************************)
Inv ==
    /\ PluginType /\ OwnInv /\ AddInv /\ StartInv /\ TimelineInv
    /\ ReturnsWithNoSessionLeft

----------------------------------------------------------------------------
\* The steps of the plugins, by what they do to the entries and the sessions.

Tick == now' \in Nat /\ now <= now' /\ plugin' = plugin

\* Neither an entry nor a session changes, and nothing is returned.
Quiet ==
    /\ ended' \in {ended, "exited"} /\ UNCHANGED <<counters, sessions, vector, latest>>
    /\ \/ UNCHANGED timer_start
       \/ timer_start' = now /\ now' = now

Enters ==
    /\ \E e \in Entry : e.session = 0 /\ counters' = Append(counters, e)
    /\ UNCHANGED <<ended, sessions, result_vars>>

\* The entry i gets a session, and a VampirTrace entry its start time.
Adds(name, opened) ==
    /\ ToolAdds(name) /\ opened \in Nat /\ opened <= now'
    /\ sessions' = NewSession(First(name), opened)
    /\ \/ /\ plugin # "scorep"
          /\ counters' = [counters EXCEPT ![First(name)].session = Len(sessions) + 1,
                                          ![First(name)].timer_start = now']
       \/ /\ plugin = "scorep"
          /\ counters' = [counters EXCEPT ![First(name)].session = Len(sessions) + 1]
    /\ UNCHANGED <<ended, result_vars>>

Stamps(from, to, n) == IF n = 0 THEN <<>> ELSE Spread(from, to, n)

VtValues(i, n) ==
    /\ plugin # "scorep" /\ Known(i)
    /\ sessions' = [sessions EXCEPT ![counters[i].session].status = "INACTIVE"]
    /\ counters' = [counters EXCEPT ![i].timer_stop = now']
    /\ vector' = [counter |-> i, stamps |-> Stamps(counters[i].timer_start, now', n)]
    /\ latest' = Largest(vector'.stamps)
    /\ UNCHANGED <<ended, timer_start>>

ScorepValues(i, n, opened) ==
    /\ plugin = "scorep" /\ Known(i) /\ opened \in Nat
    /\ sessions' = [sessions EXCEPT ![counters[i].session].opened = opened]
    /\ vector' = [counter |-> i, stamps |-> Stamps(timer_start, now, n)]
    /\ latest' = Largest(vector'.stamps)
    /\ timer_start' = IF n = 0 THEN timer_start ELSE now
    /\ UNCHANGED <<ended, counters>>

Returns ==
    /\ \A i \in DOMAIN counters : Known(i)
    /\ sessions' = [s \in DOMAIN sessions |->
           IF \E i \in DOMAIN counters : counters[i].session = s
           THEN [sessions[s] EXCEPT !.status = "CLOSED"] ELSE sessions[s]]
    /\ ended' = "returned" /\ UNCHANGED <<counters, result_vars>>

\* While the plugin is in use, every step is one of these.
LEMMA PluginSteps ==
    ASSUME PluginType, Next
    PROVE  /\ Tick /\ ended = "no"
           /\ \/ Quiet \/ Enters
              \/ \E name \in Names : \E opened \in Nat : Adds(name, opened)
              \/ \E i, n \in Nat : VtValues(i, n)
              \/ \E i, n, opened \in Nat : ScorepValues(i, n, opened)
              \/ Returns
<1> DEFINE Goal ==
       /\ Tick /\ ended = "no"
       /\ \/ Quiet \/ Enters
          \/ \E name \in Names : \E opened \in Nat : Adds(name, opened)
          \/ \E i, n \in Nat : VtValues(i, n)
          \/ \E i, n, opened \in Nat : ScorepValues(i, n, opened)
          \/ Returns
<1>0. /\ now \in Nat /\ MaxTime \in Nat
      /\ \A t \in now .. MaxTime : t \in Nat /\ now <= t
  BY TracePluginsAssumption DEF PluginType
<1>1. CASE Exit
  BY <1>0, <1>1 DEF Exit, Tick, Quiet, entry_vars, result_vars
<1>2. CASE SetClock
  BY <1>0, <1>2 DEF SetClock, Call, Tick, Quiet, entry_vars, result_vars
<1>3. CASE VtInit
  BY <1>0, <1>3 DEF VtInit, Initialize, Call, Tick, Quiet, entry_vars, result_vars
<1>4. CASE scorep_init
  BY <1>0, <1>4 DEF scorep_init, Initialize, Call, Tick, Quiet, entry_vars
<1>5. ASSUME NEW e \in Events, NEW ok, NEW name \in Names, EventInfo(e, ok, name)
      PROVE  Goal
  <2>1. CASE Exit
    BY <1>1, <2>1
  <2>2. CASE ~Exit
    <3>1. PICK t \in now .. MaxTime : Call(t)
      BY <1>5, <2>2 DEF EventInfo
    <3>2. Tick /\ ended = "no" /\ ended' = ended
      BY <1>0, <3>1 DEF Call, Tick
    <3>3. UNCHANGED <<sessions, result_vars>>
      BY <1>5, <2>2 DEF EventInfo
    <3>4. CASE counters' = counters
      BY <3>2, <3>3, <3>4 DEF Quiet, result_vars
    <3>5. CASE counters' = Append(counters, [name |-> name, device |-> Device[e], session |-> 0,
                                             timer_start |-> 0, timer_stop |-> 0])
      <4> DEFINE new == [name |-> name, device |-> Device[e], session |-> 0,
                         timer_start |-> 0, timer_stop |-> 0]
      <4>1. new \in Entry /\ new.session = 0
        BY DEF Entry, DeviceNames
      <4> QED BY <3>2, <3>3, <3>5, <4>1 DEF Enters
    <3> QED BY <1>5, <2>2, <3>4, <3>5 DEF EventInfo
  <2> QED BY <2>1, <2>2
<1>6. ASSUME NEW name \in Names, VtAddCounter(name), plugin # "scorep" PROVE Goal
  <2>1. CASE Exit
    BY <1>1, <2>1
  <2>2. CASE ~Exit
    <3>1. ToolAdds(name) /\ UNCHANGED result_vars
      BY <1>6, <2>2 DEF VtAddCounter
    <3>2. PICK t \in now .. MaxTime, opened \in now .. MaxTime :
             /\ opened <= t /\ Call(t)
             /\ sessions' = NewSession(First(name), opened)
             /\ counters' = [counters EXCEPT ![First(name)].session = Len(sessions) + 1,
                                             ![First(name)].timer_start = t]
      BY <1>6, <2>2 DEF VtAddCounter
    <3>3. Tick /\ ended = "no" /\ ended' = ended /\ now' = t /\ opened \in Nat
      BY <1>0, <3>2 DEF Call, Tick
    <3>4. Adds(name, opened)
      BY <1>6, <3>1, <3>2, <3>3 DEF Adds
    <3> QED BY <3>3, <3>4
  <2> QED BY <2>1, <2>2
<1>7. ASSUME NEW name \in Names, scorep_add_counter(name) PROVE Goal
  <2>1. plugin = "scorep" /\ ToolAdds(name) /\ UNCHANGED result_vars
    BY <1>7 DEF scorep_add_counter
  <2>2. PICK t \in now .. MaxTime, opened \in now .. MaxTime :
           /\ opened <= t /\ Call(t)
           /\ sessions' = NewSession(First(name), opened)
           /\ counters' = [counters EXCEPT ![First(name)].session = Len(sessions) + 1]
    BY <1>7 DEF scorep_add_counter
  <2>3. Tick /\ ended = "no" /\ ended' = ended /\ now' = t /\ opened \in Nat
    BY <1>0, <2>2 DEF Call, Tick
  <2>4. Adds(name, opened)
    BY <2>1, <2>2, <2>3 DEF Adds
  <2> QED BY <2>3, <2>4
<1>8. ASSUME NEW i \in 1 .. MaxCounters, VtGetAllValues(i), plugin # "scorep" PROVE Goal
  <2>1. CASE Exit
    BY <1>1, <2>1
  <2>2. CASE ~Exit
    <3>1. Known(i) /\ timer_start' = timer_start
      BY <1>8, <2>2 DEF VtGetAllValues
    <3>2. PICK t \in now .. MaxTime, n \in 0 .. MaxSamples :
             /\ Call(t)
             /\ sessions' = [sessions EXCEPT ![counters[i].session].status = "INACTIVE"]
             /\ counters' = [counters EXCEPT ![i].timer_stop = t]
             /\ vector' = [counter |-> i, stamps |-> Stamps(counters[i].timer_start, t, n)]
             /\ latest' = Largest(Stamps(counters[i].timer_start, t, n))
      BY <1>8, <2>2 DEF VtGetAllValues, Stamps
    <3>3. Tick /\ ended = "no" /\ ended' = ended /\ now' = t
      BY <1>0, <3>2 DEF Call, Tick
    <3>4. i \in Nat /\ n \in Nat
      BY <3>2, TracePluginsAssumption
    <3>5. vector'.stamps = Stamps(counters[i].timer_start, t, n)
      BY <3>2
    <3>6. VtValues(i, n)
      BY <1>8, <3>1, <3>2, <3>3, <3>5 DEF VtValues
    <3> QED BY <3>3, <3>4, <3>6
  <2> QED BY <2>1, <2>2
<1>9. ASSUME NEW i \in 1 .. MaxCounters, scorep_get_all_values(i) PROVE Goal
  <2>1. plugin = "scorep" /\ Known(i)
    BY <1>9 DEF scorep_get_all_values
  <2>2. CASE init_failed # "PL_SUCCESS"
    <3>1. Call(now) /\ UNCHANGED <<counters, sessions, vector, latest, timer_start>>
      BY <1>9, <2>2 DEF scorep_get_all_values, entry_vars, result_vars
    <3> QED BY <1>0, <3>1 DEF Call, Tick, Quiet
  <2>3. CASE init_failed = "PL_SUCCESS"
    <3>1. PICK t \in now .. MaxTime, opened \in now .. MaxTime, n \in 0 .. MaxSamples :
             /\ Call(t) /\ timer_stop' = now
             /\ timer_start' = IF n = 0 THEN timer_start ELSE timer_stop'
             /\ sessions' = [sessions EXCEPT ![counters[i].session].opened = opened]
             /\ vector' = [counter |-> i, stamps |-> Stamps(timer_start, now, n)]
             /\ latest' = Largest(Stamps(timer_start, now, n))
             /\ counters' = counters
      BY <1>9, <2>3 DEF scorep_get_all_values, Stamps, NextStart
    <3>2. Tick /\ ended = "no" /\ ended' = ended
      BY <1>0, <3>1 DEF Call, Tick
    <3>3. i \in Nat /\ n \in Nat /\ opened \in Nat
      BY <1>0, <3>1, TracePluginsAssumption
    <3>4. vector'.stamps = Stamps(timer_start, now, n)
      BY <3>1
    <3>5. ScorepValues(i, n, opened)
      BY <2>1, <3>1, <3>2, <3>3, <3>4 DEF ScorepValues
    <3> QED BY <3>2, <3>3, <3>5
  <2> QED BY <2>2, <2>3
<1>10. CASE Finalize
  <2>1. CASE Exit
    BY <1>1, <2>1
  <2>2. CASE ~Exit
    BY <1>0, <1>10, <2>2 DEF Finalize, Tick, Returns
  <2> QED BY <2>1, <2>2
<1>11. \A e \in Events : e \in Names /\ vthost_name(e) \in Names
  BY DEF Names, vthost_name
<1>12. CASE Asks
  BY <1>2, <1>3, <1>4, <1>5, <1>11, <1>12
     DEF Asks, vt_init, vthost_init, vt_get_event_info, vthost_get_event_info,
         scorep_get_event_info
<1>13. CASE Records
  BY <1>6, <1>7, <1>8, <1>9, <1>10, <1>13
     DEF Records, vt_add_counter, vthost_add_counter, vt_get_all_values,
         vthost_get_all_values, vt_finalize, vthost_finalize, scorep_finalize
<1> QED BY <1>12, <1>13 DEF Next

----------------------------------------------------------------------------
\* The operators the steps are made of.

\* The stamps of n samples lie in the interval they are spread over, in order.
LEMMA SpreadWithin ==
    ASSUME NEW from \in Nat, NEW to \in Nat, from <= to, NEW n \in Nat \ {0}
    PROVE  /\ DOMAIN Spread(from, to, n) = 1 .. n /\ Len(Spread(from, to, n)) = n
           /\ \A k \in 1 .. n :
                 /\ Spread(from, to, n)[k] \in from .. to
                 /\ k > 1 => Spread(from, to, n)[k] >= Spread(from, to, n)[k - 1]
<1> DEFINE q == (to - from) \div n
<1>1. to - from \in Nat
  OBVIOUS
<1>2. q \in Nat /\ q * n <= to - from
  BY <1>1
<1>3. Spread(from, to, n) = [i \in 1 .. n |-> from + q * (i - 1)]
  BY DEF Spread
<1> HIDE DEF q
<1>4. ASSUME NEW k \in 1 .. n PROVE q * (k - 1) \in Nat /\ q * (k - 1) <= q * n
  BY <1>2
<1>5. ASSUME NEW k \in 1 .. n, k > 1 PROVE k - 1 \in 1 .. n /\ q * (k - 1 - 1) <= q * (k - 1)
  <2>1. q * (k - 1) = q * (k - 1 - 1) + q
    BY <1>2
  <2>2. q * (k - 1) \in Nat /\ q * (k - 1 - 1) \in Int
    BY <1>2, <1>4
  <2> QED BY <1>2, <1>5, <2>1, <2>2
<1>6. ASSUME NEW k \in 1 .. n PROVE Spread(from, to, n)[k] \in from .. to
  <2>1. Spread(from, to, n)[k] = from + q * (k - 1)
    BY <1>3
  <2>2. q * (k - 1) <= to - from
    <3>1. q * n \in Nat
      BY <1>2
    <3> QED BY <1>2, <1>4, <3>1
  <2> QED BY <1>4, <2>1, <2>2
<1>7. ASSUME NEW k \in 1 .. n, k > 1
      PROVE  Spread(from, to, n)[k] >= Spread(from, to, n)[k - 1]
  <2>1. /\ Spread(from, to, n)[k] = from + q * (k - 1)
        /\ Spread(from, to, n)[k - 1] = from + q * (k - 1 - 1)
    BY <1>3, <1>5, <1>7
  <2>2. q * (k - 1) \in Nat /\ q * (k - 1 - 1) \in Nat
    BY <1>4, <1>5, <1>7
  <2> QED BY <1>5, <1>7, <2>1, <2>2
<1>8. DOMAIN Spread(from, to, n) = 1 .. n /\ Len(Spread(from, to, n)) = n
  BY <1>3
<1> QED BY <1>6, <1>7, <1>8

\* The latest stamp is one of them.
LEMMA LatestWithin ==
    ASSUME NEW from \in Nat, NEW to \in Nat, from <= to, NEW n \in Nat, latest \in Nat
    PROVE  /\ Largest(Stamps(from, to, n)) \in Nat
           /\ n = 0 => Largest(Stamps(from, to, n)) = latest
           /\ n # 0 => Largest(Stamps(from, to, n)) \in from .. to
<1>1. CASE n = 0
  BY <1>1 DEF Stamps, Largest
<1>2. CASE n # 0
  <2> DEFINE d == Spread(from, to, n)
  <2>1. Len(d) = n /\ d[n] \in from .. to
    BY <1>2, SpreadWithin
  <2>2. Stamps(from, to, n) = d
    BY <1>2 DEF Stamps
  <2> HIDE DEF d
  <2>3. d # <<>>
    BY <1>2, <2>1
  <2>4. Largest(d) = d[n]
    BY <2>1, <2>3 DEF Largest
  <2> QED BY <1>2, <2>1, <2>2, <2>4
<1> QED BY <1>1, <1>2

\* The first entry of a name.
LEMMA FirstNamed ==
    ASSUME PluginType, NEW name, Named(name) # {}
    PROVE  /\ First(name) \in 1 .. Len(counters) /\ counters[First(name)].name = name
           /\ \A j \in 1 .. First(name) - 1 : counters[j].name # name
<1>1. Named(name) \subseteq Nat /\ DOMAIN counters = 1 .. Len(counters) /\ Len(counters) \in Nat
  BY LenProperties DEF PluginType, Named
<1> DEFINE T == Named(name)
           Least(i) == \A j \in Named(name) : i <= j
<1>2. PICK x \in T : \A y \in T : <<y, x>> \notin OpToRel(<, Nat)
  <2>1. T \subseteq Nat /\ T # {}
    BY <1>1
  <2> HIDE DEF T
  <2> QED BY <2>1, NatLessThanWellFounded, WFMin
<1>3. x \in Named(name) /\ Least(x)
  <2>1. \A y \in T : y \in Nat /\ x \in Nat /\ ~(y < x)
    BY <1>1, <1>2 DEF OpToRel
  <2>2. \A y \in T : x <= y
    BY <2>1
  <2> QED BY <1>2, <2>2
<1>4. First(name) = CHOOSE i \in Named(name) : Least(i)
  BY DEF First
<1> HIDE DEF Least
<1>5. First(name) \in Named(name) /\ Least(First(name))
  BY <1>3, <1>4
<1>6. First(name) \in 1 .. Len(counters) /\ counters[First(name)].name = name
  BY <1>1, <1>5 DEF Named
<1>7. ASSUME NEW j \in 1 .. First(name) - 1, counters[j].name = name PROVE FALSE
  <2>1. j \in 1 .. Len(counters) /\ j < First(name)
    BY <1>1, <1>6
  <2>2. j \in Named(name)
    BY <1>1, <1>7, <2>1 DEF Named
  <2> QED BY <1>5, <1>6, <2>1, <2>2 DEF Least
<1> QED BY <1>6, <1>7

\* A session of a name more.
LEMMA OneMoreSession ==
    ASSUME PluginType, NEW new \in Session, NEW name, sessions' = Append(sessions, new)
    PROVE  Cardinality(SessionsNamed(name)') =
              IF new.name = name THEN Cardinality(SessionsNamed(name)) + 1
              ELSE Cardinality(SessionsNamed(name))
<1>1. /\ sessions' \in Seq(Session) /\ Len(sessions) \in Nat /\ Len(sessions') = Len(sessions) + 1
      /\ \A k \in 1 .. Len(sessions) : sessions'[k] = sessions[k]
      /\ sessions'[Len(sessions) + 1] = new
  BY AppendProperties DEF PluginType
<1>2. DOMAIN sessions = 1 .. Len(sessions) /\ DOMAIN sessions' = 1 .. Len(sessions) + 1
  BY <1>1, LenProperties DEF PluginType
<1>3. IsFiniteSet(SessionsNamed(name))
  <2>1. IsFiniteSet(1 .. Len(sessions))
    BY <1>1, FS_Interval
  <2> QED BY <1>2, <2>1, FS_Subset DEF SessionsNamed
<1>4. CASE new.name = name
  <2>1. SessionsNamed(name)' = SessionsNamed(name) \cup {Len(sessions) + 1}
    BY <1>1, <1>2, <1>4 DEF SessionsNamed
  <2>2. Len(sessions) + 1 \notin SessionsNamed(name)
    BY <1>1, <1>2 DEF SessionsNamed
  <2> QED BY <1>3, <1>4, <2>1, <2>2, FS_AddElement
<1>5. CASE new.name # name
  <2>1. SessionsNamed(name)' = SessionsNamed(name)
    BY <1>1, <1>2, <1>5 DEF SessionsNamed
  <2> QED BY <1>5, <2>1
<1> QED BY <1>4, <1>5

----------------------------------------------------------------------------
\* What the steps do, entry by entry.

\* add_counter
LEMMA AddFacts ==
    ASSUME PluginType, Tick, NEW name \in Names, NEW opened \in Nat, Adds(name, opened)
    PROVE  /\ First(name) \in 1 .. Len(counters) /\ counters[First(name)].name = name
           /\ \A j \in 1 .. First(name) - 1 : counters[j].name # name
           /\ counters' \in Seq(Entry) /\ Len(counters') = Len(counters)
           /\ \A j \in 1 .. Len(counters) :
                 /\ counters'[j].name = counters[j].name
                 /\ j # First(name) => counters'[j] = counters[j]
           /\ counters'[First(name)].session = Len(sessions) + 1
           /\ plugin # "scorep" => counters'[First(name)].timer_start = now'
           /\ \E new \in Session : /\ new.name = name /\ new.opened = opened
                                   /\ sessions' = Append(sessions, new)
<1> DEFINE f == First(name)
<1>1. /\ f \in 1 .. Len(counters) /\ counters[f].name = name
      /\ \A j \in 1 .. f - 1 : counters[j].name # name
  BY FirstNamed DEF Adds, ToolAdds
<1>2. counters[f] \in Entry /\ Len(sessions) \in Nat /\ now' \in Nat
  BY <1>1, ElementOfSeq DEF PluginType, Tick
<1> DEFINE e == IF plugin # "scorep"
                THEN [counters[f] EXCEPT !.session = Len(sessions) + 1, !.timer_start = now']
                ELSE [counters[f] EXCEPT !.session = Len(sessions) + 1]
<1>3. counters' = [counters EXCEPT ![f] = e]
  BY <1>1 DEF Adds, PluginType
<1>4. /\ e \in Entry /\ e.name = name /\ e.session = Len(sessions) + 1
      /\ plugin # "scorep" => e.timer_start = now'
  <2>1. CASE plugin = "scorep"
    BY <1>1, <1>2, <2>1 DEF Entry
  <2>2. CASE plugin # "scorep"
    <3>1. e = [counters[f] EXCEPT !.session = Len(sessions) + 1, !.timer_start = now']
      BY <2>2
    <3> HIDE DEF e, f
    <3>2. Len(sessions) + 1 \in Nat
      BY <1>2
    <3>3. e \in Entry
      BY <1>2, <3>1, <3>2 DEF Entry
    <3>4. e.name = name /\ e.session = Len(sessions) + 1 /\ e.timer_start = now'
      BY <1>1, <1>2, <3>1 DEF Entry
    <3> QED BY <2>2, <3>3, <3>4
  <2> QED BY <2>1, <2>2
<1>5. \E new \in Session : /\ new.name = name /\ new.opened = opened
                           /\ sessions' = Append(sessions, new)
  <2> DEFINE new == [name |-> counters[f].name, device |-> counters[f].device,
                     status |-> "ACTIVE", opened |-> opened]
  <2>1. new \in Session /\ new.name = name /\ new.opened = opened
    BY <1>1, <1>2 DEF Entry, Session
  <2>2. sessions' = Append(sessions, new)
    BY DEF Adds, NewSession
  <2> QED BY <2>1, <2>2
<1> HIDE DEF e, f
<1>6. /\ counters' \in Seq(Entry) /\ Len(counters') = Len(counters)
      /\ \A j \in 1 .. Len(counters) : counters'[j] = IF j = f THEN e ELSE counters[j]
  BY <1>1, <1>3, <1>4, ExceptSeq DEF PluginType
<1> QED BY <1>1, <1>4, <1>5, <1>6 DEF f

\* get_all_values of VampirTrace
LEMMA VtFacts ==
    ASSUME PluginType, OwnInv, Tick, NEW i \in Nat, NEW n \in Nat, VtValues(i, n)
    PROVE  /\ i \in 1 .. Len(counters) /\ counters[i].session # 0
           /\ counters' \in Seq(Entry) /\ Len(counters') = Len(counters)
           /\ \A j \in 1 .. Len(counters) :
                 /\ counters'[j].name = counters[j].name
                 /\ counters'[j].session = counters[j].session
                 /\ counters'[j].timer_start = counters[j].timer_start
           /\ counters'[i].timer_stop = now'
           /\ sessions' \in Seq(Session) /\ Len(sessions') = Len(sessions)
           /\ \A k \in 1 .. Len(sessions) : /\ sessions'[k].name = sessions[k].name
                                            /\ sessions'[k].opened = sessions[k].opened
<1>1. i \in 1 .. Len(counters) /\ counters[i].session # 0
  BY LenProperties DEF VtValues, Known, PluginType
<1>2. counters[i] \in Entry /\ now' \in Nat
  BY <1>1, ElementOfSeq DEF PluginType, Tick
<1> DEFINE e == [counters[i] EXCEPT !.timer_stop = now']
           s == counters[i].session
           g == [sessions[s] EXCEPT !.status = "INACTIVE"]
<1>3. s \in 1 .. Len(sessions)
  BY <1>1 DEF OwnInv
<1>4. sessions[s] \in Session
  BY <1>3, ElementOfSeq DEF PluginType
<1>5. counters' = [counters EXCEPT ![i] = e] /\ sessions' = [sessions EXCEPT ![s] = g]
  BY <1>1, <1>3 DEF VtValues
<1>6. /\ e \in Entry /\ e.name = counters[i].name /\ e.session = counters[i].session
      /\ e.timer_start = counters[i].timer_start /\ e.timer_stop = now'
  BY <1>2 DEF Entry
<1>7. g \in Session /\ g.name = sessions[s].name /\ g.opened = sessions[s].opened
  BY <1>4 DEF Session
<1> HIDE DEF e, g, s
<1>8. /\ counters' \in Seq(Entry) /\ Len(counters') = Len(counters)
      /\ \A j \in 1 .. Len(counters) : counters'[j] = IF j = i THEN e ELSE counters[j]
  BY <1>1, <1>5, <1>6, ExceptSeq DEF PluginType
<1>9. /\ sessions' \in Seq(Session) /\ Len(sessions') = Len(sessions)
      /\ \A k \in 1 .. Len(sessions) : sessions'[k] = IF k = s THEN g ELSE sessions[k]
  BY <1>3, <1>5, <1>7, ExceptSeq DEF PluginType
<1> QED BY <1>1, <1>6, <1>7, <1>8, <1>9

\* get_all_values of Score-P
LEMMA ScorepFacts ==
    ASSUME PluginType, OwnInv, NEW i \in Nat, NEW n \in Nat, NEW opened \in Nat,
           ScorepValues(i, n, opened)
    PROVE  /\ sessions' \in Seq(Session) /\ Len(sessions') = Len(sessions)
           /\ \A k \in 1 .. Len(sessions) : sessions'[k].name = sessions[k].name
<1>1. i \in 1 .. Len(counters) /\ counters[i].session # 0
  BY LenProperties DEF ScorepValues, Known, PluginType
<1> DEFINE s == counters[i].session
           g == [sessions[s] EXCEPT !.opened = opened]
<1>2. s \in 1 .. Len(sessions)
  BY <1>1 DEF OwnInv
<1>3. sessions[s] \in Session
  BY <1>2, ElementOfSeq DEF PluginType
<1>4. sessions' = [sessions EXCEPT ![s] = g]
  BY <1>2 DEF ScorepValues
<1>5. g \in Session /\ g.name = sessions[s].name
  BY <1>3 DEF Session
<1> HIDE DEF g, s
<1>6. /\ sessions' \in Seq(Session) /\ Len(sessions') = Len(sessions)
      /\ \A k \in 1 .. Len(sessions) : sessions'[k] = IF k = s THEN g ELSE sessions[k]
  BY <1>2, <1>4, <1>5, ExceptSeq DEF PluginType
<1> QED BY <1>5, <1>6

\* finalize
LEMMA ReturnFacts ==
    ASSUME PluginType, Returns
    PROVE  /\ sessions' \in Seq(Session) /\ Len(sessions') = Len(sessions)
           /\ \A k \in 1 .. Len(sessions) : /\ sessions'[k].name = sessions[k].name
                                            /\ sessions'[k].opened = sessions[k].opened
<1> DEFINE closes(k) == \E i \in DOMAIN counters : counters[i].session = k
           e(k) == IF closes(k) THEN [sessions[k] EXCEPT !.status = "CLOSED"] ELSE sessions[k]
<1>1. DOMAIN sessions = 1 .. Len(sessions) /\ Len(sessions) \in Nat
  BY LenProperties DEF PluginType
<1>2. ASSUME NEW k \in 1 .. Len(sessions)
      PROVE  e(k) \in Session /\ e(k).name = sessions[k].name /\ e(k).opened = sessions[k].opened
  <2>1. sessions[k] \in Session
    BY ElementOfSeq DEF PluginType
  <2> HIDE DEF closes
  <2> QED BY <2>1 DEF Session
<1>3. sessions' = [k \in 1 .. Len(sessions) |-> e(k)]
  BY <1>1 DEF Returns
<1> HIDE DEF e, closes
<1>4. sessions' \in [1 .. Len(sessions) -> Session]
  BY <1>2, <1>3
<1>5. sessions' \in Seq(Session) /\ Len(sessions') = Len(sessions)
  BY <1>1, <1>4
<1> QED BY <1>2, <1>3, <1>5

----------------------------------------------------------------------------
\* The parts of the invariant, step by step.

\* Entries, sessions and times keep their types.
LEMMA PluginTypeStep == PluginType /\ OwnInv /\ StartInv /\ TimelineInv /\ Next => PluginType'
<1> SUFFICES ASSUME PluginType, OwnInv, StartInv, TimelineInv, Next PROVE PluginType'
  OBVIOUS
<1>0. Tick /\ ended = "no" /\ now' \in Nat /\ now <= now' /\ now \in Nat
  BY PluginSteps DEF Tick, PluginType
<1>1. CASE Quiet
  BY <1>0, <1>1 DEF Quiet, PluginType
<1>2. CASE Enters
  <2>1. counters' \in Seq(Entry)
    BY <1>2, AppendProperties DEF Enters, PluginType
  <2> QED BY <1>0, <1>2, <2>1 DEF Enters, PluginType, result_vars
<1>3. ASSUME NEW name \in Names, NEW opened \in Nat, Adds(name, opened) PROVE PluginType'
  <2>1. counters' \in Seq(Entry)
    BY <1>0, <1>3, AddFacts
  <2>2. sessions' \in Seq(Session)
    <3>1. PICK new \in Session : sessions' = Append(sessions, new)
      BY <1>0, <1>3, AddFacts
    <3> QED BY <3>1, AppendProperties DEF PluginType
  <2> QED BY <1>0, <1>3, <2>1, <2>2 DEF Adds, PluginType, result_vars
<1>4. ASSUME NEW i \in Nat, NEW n \in Nat, VtValues(i, n) PROVE PluginType'
  <2>1. /\ counters' \in Seq(Entry) /\ sessions' \in Seq(Session)
        /\ i \in 1 .. Len(counters) /\ counters[i].session # 0
    BY <1>0, <1>4, VtFacts
  <2>2. counters[i].timer_start \in Nat
    <3>1. counters[i] \in Entry
      BY <2>1, ElementOfSeq DEF PluginType
    <3> QED BY <3>1 DEF Entry
  <2>3. counters[i].timer_start <= now'
    BY <1>0, <1>4, <2>1, <2>2 DEF StartInv, VtValues
  <2>4. latest' = Largest(Stamps(counters[i].timer_start, now', n))
    BY <1>4 DEF VtValues
  <2>5. latest' \in Nat
    BY <1>0, <2>2, <2>3, <2>4, LatestWithin DEF PluginType
  <2> QED BY <1>0, <1>4, <2>1, <2>5 DEF VtValues, PluginType
<1>5. ASSUME NEW i \in Nat, NEW n \in Nat, NEW opened \in Nat, ScorepValues(i, n, opened)
      PROVE  PluginType'
  <2>1. sessions' \in Seq(Session)
    BY <1>5, ScorepFacts
  <2>2. timer_start \in Nat /\ timer_start <= now
    BY <1>5 DEF TimelineInv, ScorepValues, PluginType
  <2>3. latest' = Largest(Stamps(timer_start, now, n))
    BY <1>5 DEF ScorepValues
  <2>4. latest' \in Nat
    BY <1>0, <2>2, <2>3, LatestWithin DEF PluginType
  <2> QED BY <1>0, <1>5, <2>1, <2>2, <2>4 DEF ScorepValues, PluginType
<1>6. CASE Returns
  <2>1. sessions' \in Seq(Session)
    BY <1>6, ReturnFacts
  <2> QED BY <1>0, <1>6, <2>1 DEF Returns, PluginType, result_vars
<1> QED BY <1>1, <1>2, <1>3, <1>4, <1>5, <1>6, PluginSteps

\* Neither the names nor the owners change.
LEMMA SameOwn ==
    ASSUME PluginType, OwnInv, Len(counters) \in Nat,
           Len(counters') = Len(counters), Len(sessions') = Len(sessions),
           \A j \in 1 .. Len(counters) : /\ counters'[j].name = counters[j].name
                                         /\ counters'[j].session = counters[j].session,
           \A k \in 1 .. Len(sessions) : sessions'[k].name = sessions[k].name
    PROVE  OwnInv'
<1> SUFFICES ASSUME NEW i \in 1 .. Len(counters), counters[i].session # 0
             PROVE  /\ counters'[i].session \in 1 .. Len(sessions')
                    /\ sessions'[counters'[i].session].name = counters'[i].name
                    /\ \A j \in 1 .. i - 1 : counters'[j].name # counters'[i].name
  BY DEF OwnInv
<1>1. \A j \in 1 .. i - 1 : j \in 1 .. Len(counters)
  OBVIOUS
<1> QED BY <1>1 DEF OwnInv

\* Only the first entry of a name gets a session, and it is the entry's own.
LEMMA OwnStep == PluginType /\ OwnInv /\ Next => OwnInv'
<1> SUFFICES ASSUME PluginType, OwnInv, Next PROVE OwnInv'
  OBVIOUS
<1>0. Tick /\ Len(counters) \in Nat /\ Len(sessions) \in Nat
  BY PluginSteps, LenProperties DEF PluginType
<1>1. CASE Quiet
  BY <1>1 DEF Quiet, OwnInv
<1>2. CASE Enters
  <2>1. PICK e \in Entry : e.session = 0 /\ counters' = Append(counters, e)
    BY <1>2 DEF Enters
  <2>2. /\ Len(counters') = Len(counters) + 1 /\ counters'[Len(counters) + 1] = e
        /\ \A j \in 1 .. Len(counters) : counters'[j] = counters[j]
    BY <2>1, AppendProperties DEF PluginType
  <2>3. sessions' = sessions
    BY <1>2 DEF Enters
  <2> SUFFICES ASSUME NEW i \in 1 .. Len(counters'), counters'[i].session # 0
               PROVE  /\ counters'[i].session \in 1 .. Len(sessions')
                      /\ sessions'[counters'[i].session].name = counters'[i].name
                      /\ \A j \in 1 .. i - 1 : counters'[j].name # counters'[i].name
    BY DEF OwnInv
  <2>4. i \in 1 .. Len(counters) /\ counters'[i] = counters[i]
    BY <1>0, <2>1, <2>2
  <2>5. \A j \in 1 .. i - 1 : j \in 1 .. Len(counters) /\ counters'[j] = counters[j]
    BY <1>0, <2>2, <2>4
  <2>6. /\ counters[i].session \in 1 .. Len(sessions)
        /\ sessions[counters[i].session].name = counters[i].name
        /\ \A j \in 1 .. i - 1 : counters[j].name # counters[i].name
    BY <2>4 DEF OwnInv
  <2> QED BY <2>3, <2>4, <2>5, <2>6
<1>3. ASSUME NEW name \in Names, NEW opened \in Nat, Adds(name, opened) PROVE OwnInv'
  <2> DEFINE f == First(name)
  <2>1. /\ f \in 1 .. Len(counters) /\ counters[f].name = name
        /\ \A j \in 1 .. f - 1 : counters[j].name # name
        /\ Len(counters') = Len(counters)
        /\ \A j \in 1 .. Len(counters) : /\ counters'[j].name = counters[j].name
                                         /\ j # f => counters'[j] = counters[j]
        /\ counters'[f].session = Len(sessions) + 1
    BY <1>0, <1>3, AddFacts
  <2>2. PICK new \in Session : new.name = name /\ sessions' = Append(sessions, new)
    BY <1>0, <1>3, AddFacts
  <2>3. /\ Len(sessions') = Len(sessions) + 1 /\ sessions'[Len(sessions) + 1] = new
        /\ \A k \in 1 .. Len(sessions) : sessions'[k] = sessions[k]
    BY <2>2, AppendProperties DEF PluginType
  <2> HIDE DEF f
  <2> SUFFICES ASSUME NEW i \in 1 .. Len(counters'), counters'[i].session # 0
               PROVE  /\ counters'[i].session \in 1 .. Len(sessions')
                      /\ sessions'[counters'[i].session].name = counters'[i].name
                      /\ \A j \in 1 .. i - 1 : counters'[j].name # counters'[i].name
    BY DEF OwnInv
  <2>4. i \in 1 .. Len(counters) /\ \A j \in 1 .. i - 1 : j \in 1 .. Len(counters)
    BY <1>0, <2>1
  <2>5. CASE i = f
    <3>1. counters'[i].session \in 1 .. Len(sessions') /\ counters'[i].name = name
      BY <1>0, <2>1, <2>3, <2>5
    <3>2. sessions'[counters'[i].session].name = name
      BY <2>1, <2>2, <2>3, <2>5
    <3>3. \A j \in 1 .. i - 1 : counters'[j].name # name
      BY <2>1, <2>4, <2>5
    <3> QED BY <3>1, <3>2, <3>3
  <2>6. CASE i # f
    <3>1. counters'[i] = counters[i] /\ counters[i].session # 0
      BY <2>1, <2>4, <2>6
    <3>2. /\ counters[i].session \in 1 .. Len(sessions)
          /\ sessions[counters[i].session].name = counters[i].name
          /\ \A j \in 1 .. i - 1 : counters[j].name # counters[i].name
      BY <2>4, <3>1 DEF OwnInv
    <3>3. \A j \in 1 .. i - 1 : counters'[j].name # counters'[i].name
      BY <2>1, <2>4, <3>1, <3>2
    <3> QED BY <1>0, <2>3, <3>1, <3>2, <3>3
  <2> QED BY <2>5, <2>6
<1>4. ASSUME NEW i \in Nat, NEW n \in Nat, VtValues(i, n) PROVE OwnInv'
  <2>1. /\ Len(counters') = Len(counters) /\ Len(sessions') = Len(sessions)
        /\ \A j \in 1 .. Len(counters) : /\ counters'[j].name = counters[j].name
                                         /\ counters'[j].session = counters[j].session
        /\ \A k \in 1 .. Len(sessions) : sessions'[k].name = sessions[k].name
    BY <1>0, <1>4, VtFacts
  <2> QED BY <1>0, <2>1, SameOwn
<1>5. ASSUME NEW i \in Nat, NEW n \in Nat, NEW opened \in Nat, ScorepValues(i, n, opened)
      PROVE  OwnInv'
  <2>1. /\ counters' = counters /\ Len(sessions') = Len(sessions)
        /\ \A k \in 1 .. Len(sessions) : sessions'[k].name = sessions[k].name
    BY <1>5, ScorepFacts DEF ScorepValues
  <2> QED BY <1>0, <2>1, SameOwn
<1>6. CASE Returns
  <2>1. /\ counters' = counters /\ Len(sessions') = Len(sessions)
        /\ \A k \in 1 .. Len(sessions) : sessions'[k].name = sessions[k].name
    BY <1>6, ReturnFacts DEF Returns
  <2> QED BY <1>0, <2>1, SameOwn
<1> QED BY <1>1, <1>2, <1>3, <1>4, <1>5, <1>6, PluginSteps

\* The sessions of a name and its entries are counted alike.
LEMMA AddStep == PluginType /\ OwnInv /\ AddInv /\ Next => AddInv'
<1> SUFFICES ASSUME PluginType, OwnInv, AddInv, Next, NEW name \in Names
             PROVE  Cardinality(SessionsNamed(name)') <= Cardinality(Named(name)')
  BY DEF AddInv
<1>0. /\ Tick /\ Len(counters) \in Nat /\ Len(sessions) \in Nat
      /\ DOMAIN counters = 1 .. Len(counters) /\ DOMAIN sessions = 1 .. Len(sessions)
  BY PluginSteps, LenProperties DEF PluginType
<1>1. Cardinality(SessionsNamed(name)) <= Cardinality(Named(name))
  BY DEF AddInv
<1>2. IsFiniteSet(SessionsNamed(name)) /\ IsFiniteSet(Named(name))
  <2>1. IsFiniteSet(1 .. Len(counters)) /\ IsFiniteSet(1 .. Len(sessions))
    BY <1>0, FS_Interval
  <2>2. Named(name) \subseteq 1 .. Len(counters) /\ SessionsNamed(name) \subseteq 1 .. Len(sessions)
    BY <1>0 DEF Named, SessionsNamed
  <2> QED BY <2>1, <2>2, FS_Subset
<1>3. Cardinality(SessionsNamed(name)) \in Nat /\ Cardinality(Named(name)) \in Nat
  BY <1>2, FS_CardinalityType
<1>4. CASE Quiet
  <2>1. counters' = counters /\ sessions' = sessions
    BY <1>4 DEF Quiet
  <2> QED BY <1>1, <2>1 DEF SessionsNamed, Named
<1>5. CASE Enters
  <2>1. PICK e \in Entry : counters' = Append(counters, e)
    BY <1>5 DEF Enters
  <2>2. /\ counters' \in Seq(Entry) /\ Len(counters') = Len(counters) + 1
        /\ \A j \in 1 .. Len(counters) : counters'[j] = counters[j]
    BY <2>1, AppendProperties DEF PluginType
  <2>3. DOMAIN counters' = 1 .. Len(counters) + 1
    BY <2>2, LenProperties
  <2>4. Named(name) \subseteq Named(name)'
    BY <1>0, <2>2, <2>3 DEF Named
  <2>5. IsFiniteSet(Named(name)')
    <3>1. IsFiniteSet(1 .. Len(counters) + 1)
      BY <1>0, FS_Interval
    <3>2. Named(name)' \subseteq 1 .. Len(counters) + 1
      BY <2>3 DEF Named
    <3> QED BY <3>1, <3>2, FS_Subset
  <2>6. Cardinality(Named(name)) <= Cardinality(Named(name)') /\ Cardinality(Named(name)') \in Nat
    BY <2>4, <2>5, FS_Subset, FS_CardinalityType
  <2>7. SessionsNamed(name)' = SessionsNamed(name)
    BY <1>5 DEF Enters, SessionsNamed
  <2> QED BY <1>1, <1>3, <2>6, <2>7
<1>6. ASSUME NEW other \in Names, NEW opened \in Nat, Adds(other, opened)
      PROVE  Cardinality(SessionsNamed(name)') <= Cardinality(Named(name)')
  <2>1. /\ counters' \in Seq(Entry) /\ Len(counters') = Len(counters)
        /\ \A j \in 1 .. Len(counters) : counters'[j].name = counters[j].name
    BY <1>0, <1>6, AddFacts
  <2>2. Named(name)' = Named(name)
    BY <1>0, <2>1, LenProperties DEF Named
  <2>3. PICK new \in Session : new.name = other /\ sessions' = Append(sessions, new)
    BY <1>0, <1>6, AddFacts
  <2>4. CASE name = other
    <3>1. Cardinality(SessionsNamed(name)) < Cardinality(Named(name))
      BY <1>6, <2>4 DEF Adds, ToolAdds, SessionsNamed
    <3>2. Cardinality(SessionsNamed(name)') = Cardinality(SessionsNamed(name)) + 1
      BY <2>3, <2>4, OneMoreSession
    <3> QED BY <1>3, <2>2, <3>1, <3>2
  <2>5. CASE name # other
    <3>1. Cardinality(SessionsNamed(name)') = Cardinality(SessionsNamed(name))
      BY <2>3, <2>5, OneMoreSession
    <3> QED BY <1>1, <2>2, <3>1
  <2> QED BY <2>4, <2>5
<1>7. ASSUME /\ counters' \in Seq(Entry) /\ Len(counters') = Len(counters)
             /\ sessions' \in Seq(Session) /\ Len(sessions') = Len(sessions)
             /\ \A j \in 1 .. Len(counters) : counters'[j].name = counters[j].name
             /\ \A k \in 1 .. Len(sessions) : sessions'[k].name = sessions[k].name
      PROVE  Cardinality(SessionsNamed(name)') <= Cardinality(Named(name)')
  <2>1. DOMAIN counters' = DOMAIN counters /\ DOMAIN sessions' = DOMAIN sessions
    BY <1>0, <1>7, LenProperties
  <2>2. Named(name)' = Named(name)
    BY <1>0, <1>7, <2>1 DEF Named
  <2>3. SessionsNamed(name)' = SessionsNamed(name)
    BY <1>0, <1>7, <2>1 DEF SessionsNamed
  <2> QED BY <1>1, <2>2, <2>3
<1>8. ASSUME NEW i \in Nat, NEW n \in Nat, VtValues(i, n)
      PROVE  Cardinality(SessionsNamed(name)') <= Cardinality(Named(name)')
  BY <1>0, <1>7, <1>8, VtFacts
<1>9. ASSUME NEW i \in Nat, NEW n \in Nat, NEW opened \in Nat, ScorepValues(i, n, opened)
      PROVE  Cardinality(SessionsNamed(name)') <= Cardinality(Named(name)')
  <2>1. counters' = counters /\ counters \in Seq(Entry)
    BY <1>9 DEF ScorepValues, PluginType
  <2> QED BY <1>7, <1>9, <2>1, ScorepFacts
<1>10. CASE Returns
  <2>1. counters' = counters /\ counters \in Seq(Entry)
    BY <1>10 DEF Returns, PluginType
  <2> QED BY <1>7, <1>10, <2>1, ReturnFacts
<1> QED BY <1>4, <1>5, <1>6, <1>8, <1>9, <1>10, PluginSteps

\* A counter's start time stays between the opening of its session and now.
LEMMA StartStep == PluginType /\ OwnInv /\ StartInv /\ Next => StartInv'
<1> SUFFICES ASSUME PluginType, OwnInv, StartInv, Next, plugin' # "scorep",
                    NEW i \in 1 .. Len(counters'), counters'[i].session # 0
             PROVE  /\ sessions'[counters'[i].session].opened <= counters'[i].timer_start
                    /\ counters'[i].timer_start <= now'
  BY DEF StartInv
<1>0. /\ Tick /\ plugin # "scorep" /\ now \in Nat /\ now' \in Nat /\ now <= now'
      /\ Len(counters) \in Nat /\ Len(sessions) \in Nat
  BY PluginSteps, LenProperties DEF PluginType, Tick
<1>1. ASSUME NEW k \in 1 .. Len(counters), counters[k].session # 0
      PROVE  /\ counters[k].session \in 1 .. Len(sessions)
             /\ sessions[counters[k].session].opened <= counters[k].timer_start
             /\ counters[k].timer_start \in Nat /\ counters[k].timer_start <= now'
  <2>1. counters[k] \in Entry
    BY ElementOfSeq DEF PluginType
  <2> QED BY <1>0, <1>1, <2>1 DEF StartInv, OwnInv, Entry
<1>2. CASE Quiet
  BY <1>1, <1>2 DEF Quiet
<1>3. CASE Enters
  <2>1. PICK e \in Entry : e.session = 0 /\ counters' = Append(counters, e)
    BY <1>3 DEF Enters
  <2>2. /\ Len(counters') = Len(counters) + 1 /\ counters'[Len(counters) + 1] = e
        /\ \A j \in 1 .. Len(counters) : counters'[j] = counters[j]
    BY <2>1, AppendProperties DEF PluginType
  <2>3. i \in 1 .. Len(counters) /\ counters'[i] = counters[i] /\ sessions' = sessions
    BY <1>0, <1>3, <2>1, <2>2 DEF Enters
  <2> QED BY <1>1, <2>3
<1>4. ASSUME NEW name \in Names, NEW opened \in Nat, Adds(name, opened)
      PROVE  /\ sessions'[counters'[i].session].opened <= counters'[i].timer_start
             /\ counters'[i].timer_start <= now'
  <2>1. /\ Len(counters') = Len(counters)
        /\ \A j \in 1 .. Len(counters) : j # First(name) => counters'[j] = counters[j]
        /\ counters'[First(name)].session = Len(sessions) + 1
        /\ counters'[First(name)].timer_start = now'
    BY <1>0, <1>4, AddFacts
  <2>2. PICK new \in Session : new.opened = opened /\ sessions' = Append(sessions, new)
    BY <1>0, <1>4, AddFacts
  <2>3. /\ sessions'[Len(sessions) + 1] = new
        /\ \A k \in 1 .. Len(sessions) : sessions'[k] = sessions[k]
    BY <2>2, AppendProperties DEF PluginType
  <2>4. opened <= now'
    BY <1>4 DEF Adds
  <2>5. CASE i = First(name)
    BY <1>0, <2>1, <2>2, <2>3, <2>4, <2>5
  <2>6. CASE i # First(name)
    <3>1. i \in 1 .. Len(counters) /\ counters'[i] = counters[i] /\ counters[i].session # 0
      BY <2>1, <2>6
    <3>2. sessions'[counters[i].session] = sessions[counters[i].session]
      BY <1>1, <2>3, <3>1
    <3> QED BY <1>1, <3>1, <3>2
  <2> QED BY <2>5, <2>6
<1>5. ASSUME Len(counters') = Len(counters),
             \A j \in 1 .. Len(counters) : /\ counters'[j].session = counters[j].session
                                           /\ counters'[j].timer_start = counters[j].timer_start,
             \A k \in 1 .. Len(sessions) : sessions'[k].opened = sessions[k].opened
      PROVE  /\ sessions'[counters'[i].session].opened <= counters'[i].timer_start
             /\ counters'[i].timer_start <= now'
  <2>1. /\ i \in 1 .. Len(counters) /\ counters[i].session # 0
        /\ counters'[i].session = counters[i].session
        /\ counters'[i].timer_start = counters[i].timer_start
    BY <1>5
  <2> QED BY <1>1, <1>5, <2>1
<1>6. ASSUME NEW k \in Nat, NEW n \in Nat, VtValues(k, n)
      PROVE  /\ sessions'[counters'[i].session].opened <= counters'[i].timer_start
             /\ counters'[i].timer_start <= now'
  <2>1. /\ Len(counters') = Len(counters)
        /\ \A j \in 1 .. Len(counters) : /\ counters'[j].session = counters[j].session
                                         /\ counters'[j].timer_start = counters[j].timer_start
        /\ \A j \in 1 .. Len(sessions) : sessions'[j].opened = sessions[j].opened
    BY <1>0, <1>6, VtFacts
  <2> QED BY <1>5, <2>1
<1>7. CASE Returns
  <2>1. counters' = counters /\ \A j \in 1 .. Len(sessions) : sessions'[j].opened = sessions[j].opened
    BY <1>7, ReturnFacts DEF Returns
  <2> QED BY <1>5, <2>1
<1>8. ~\E k, n, opened \in Nat : ScorepValues(k, n, opened)
  BY <1>0 DEF ScorepValues
<1> QED BY <1>2, <1>3, <1>4, <1>6, <1>7, <1>8, PluginSteps

\* Score-P's start time moves up to the clock, past what was returned.
LEMMA TimelineStep == PluginType /\ TimelineInv /\ Next => TimelineInv'
<1> SUFFICES ASSUME PluginType, TimelineInv, Next, plugin' = "scorep"
             PROVE  latest' <= timer_start' /\ timer_start' <= now'
  BY DEF TimelineInv
<1>1. /\ Tick /\ plugin = "scorep" /\ now \in Nat /\ now' \in Nat /\ now <= now'
      /\ latest \in Nat /\ timer_start \in Nat /\ latest <= timer_start /\ timer_start <= now
  BY PluginSteps DEF PluginType, Tick, TimelineInv
<1>2. CASE Quiet
  BY <1>1, <1>2 DEF Quiet
<1>3. CASE UNCHANGED result_vars
  BY <1>1, <1>3 DEF result_vars
<1>4. ASSUME NEW i \in Nat, NEW n \in Nat, NEW opened \in Nat, ScorepValues(i, n, opened)
      PROVE  latest' <= timer_start' /\ timer_start' <= now'
  <2>1. /\ latest' = Largest(Stamps(timer_start, now, n))
        /\ timer_start' = IF n = 0 THEN timer_start ELSE now
    BY <1>4 DEF ScorepValues
  <2>2. /\ n = 0 => latest' = latest
        /\ n # 0 => latest' \in timer_start .. now
    BY <1>1, <2>1, LatestWithin
  <2> QED BY <1>1, <2>1, <2>2
<1>5. ~\E i, n \in Nat : VtValues(i, n)
  BY <1>1 DEF VtValues
<1> QED BY <1>2, <1>3, <1>4, <1>5, PluginSteps DEF Enters, Adds, Returns

\* finalize returns only when every session is an entry's.
LEMMA ReturnStep ==
    PluginType /\ OwnInv /\ AddInv /\ Next => ReturnsWithNoSessionLeft'
<1> SUFFICES ASSUME PluginType, OwnInv, AddInv, Next, ended' = "returned"
             PROVE  \A s \in DOMAIN sessions' : sessions'[s].status = "CLOSED"
  BY DEF ReturnsWithNoSessionLeft
<1>1. Returns
  <2>1. ended = "no"
    BY PluginSteps
  <2> QED BY <2>1, PluginSteps DEF Quiet, Enters, Adds, VtValues, ScorepValues
<1>2. /\ DOMAIN counters = 1 .. Len(counters) /\ DOMAIN sessions = 1 .. Len(sessions)
      /\ Len(counters) \in Nat /\ Len(sessions) \in Nat
  BY LenProperties DEF PluginType
<1>3. \A i \in 1 .. Len(counters) : counters[i].session # 0
  BY <1>1, <1>2 DEF Returns, Known
<1>4. ASSUME NEW i \in 1 .. Len(counters), NEW j \in 1 .. Len(counters),
             counters[i].name = counters[j].name
      PROVE  i = j
  <2>1. i \in 1 .. j - 1 \/ j \in 1 .. i - 1 \/ i = j
    OBVIOUS
  <2> QED BY <1>3, <1>4, <2>1 DEF OwnInv
<1>5. ASSUME NEW s \in DOMAIN sessions
      PROVE  \E i \in DOMAIN counters : counters[i].session = s
  <2> DEFINE name == sessions[s].name
  <2>1. name \in Names
    <3>1. sessions[s] \in Session
      BY <1>2, ElementOfSeq DEF PluginType
    <3> QED BY <3>1 DEF Session
  <2>2. s \in SessionsNamed(name)
    BY DEF SessionsNamed
  <2> HIDE DEF name
  <2>3. IsFiniteSet(SessionsNamed(name)) /\ IsFiniteSet(Named(name))
    <3>1. IsFiniteSet(1 .. Len(counters)) /\ IsFiniteSet(1 .. Len(sessions))
      BY <1>2, FS_Interval
    <3>2. Named(name) \subseteq 1 .. Len(counters)
          /\ SessionsNamed(name) \subseteq 1 .. Len(sessions)
      BY <1>2 DEF Named, SessionsNamed
    <3> QED BY <3>1, <3>2, FS_Subset
  <2>4. Cardinality(SessionsNamed(name)) <= Cardinality(Named(name))
    BY <2>1 DEF AddInv
  <2>5. Cardinality(SessionsNamed(name)) \in Nat /\ Cardinality(SessionsNamed(name)) # 0
    BY <2>2, <2>3, FS_CardinalityType, FS_EmptySet
  <2>6. PICK i : i \in Named(name)
    <3>1. Named(name) # {}
      BY <2>4, <2>5, FS_EmptySet
    <3> QED BY <3>1
  <2>7. i \in 1 .. Len(counters) /\ counters[i].name = name
    BY <1>2, <2>6 DEF Named
  <2>8. Named(name) = {i}
    BY <1>2, <1>4, <2>6, <2>7 DEF Named
  <2>9. Cardinality(Named(name)) = 1
    BY <2>8, FS_Singleton
  <2>10. Cardinality(SessionsNamed(name)) = 1
    BY <2>4, <2>5, <2>9
  <2>11. PICK x : SessionsNamed(name) = {x}
    BY <2>3, <2>10, FS_Singleton
  <2>12. counters[i].session \in SessionsNamed(name)
    BY <1>2, <1>3, <2>7 DEF OwnInv, SessionsNamed
  <2>13. counters[i].session = s
    BY <2>2, <2>11, <2>12
  <2> QED BY <1>2, <2>7, <2>13
<1>6. ASSUME NEW s \in DOMAIN sessions PROVE sessions'[s].status = "CLOSED"
  <2>1. sessions'[s] = [sessions[s] EXCEPT !.status = "CLOSED"]
    BY <1>1, <1>5 DEF Returns
  <2>2. sessions[s] \in Session
    BY <1>2, ElementOfSeq DEF PluginType
  <2> QED BY <2>1, <2>2 DEF Session
<1> QED BY <1>1, <1>6 DEF Returns

----------------------------------------------------------------------------
\* The invariant holds initially,
LEMMA InitInv == Init => Inv
<1> SUFFICES ASSUME Init PROVE Inv
  OBVIOUS
<1>1. /\ counters = <<>> /\ sessions = <<>> /\ Len(<<>>) = 0 /\ DOMAIN <<>> = {}
      /\ <<>> \in Seq(Entry) /\ <<>> \in Seq(Session)
  BY EmptySeq DEF Init
<1>2. PluginType /\ TimelineInv /\ ReturnsWithNoSessionLeft
  BY <1>1 DEF Init, PluginType, TimelineInv, ReturnsWithNoSessionLeft
<1>3. OwnInv /\ StartInv
  BY <1>1 DEF OwnInv, StartInv
<1>4. AddInv
  <2>1. \A name : SessionsNamed(name) = {} /\ Named(name) = {}
    BY <1>1 DEF SessionsNamed, Named
  <2> QED BY <2>1, FS_EmptySet DEF AddInv
<1> QED BY <1>2, <1>3, <1>4 DEF Inv

\* and every step keeps it.
LEMMA InvStep == Inv /\ [Next]_vars => Inv'
<1> SUFFICES ASSUME Inv, [Next]_vars PROVE Inv'
  OBVIOUS
<1>1. CASE Next
  BY <1>1, PluginTypeStep, OwnStep, AddStep, StartStep, TimelineStep, ReturnStep DEF Inv
<1>2. CASE UNCHANGED vars
  <2>1. UNCHANGED <<plugin, ended, now, counters, sessions, timer_start, latest>>
    BY <1>2 DEF vars, entry_vars, result_vars
  <2>2. AddInv'
    BY <2>1 DEF Inv, AddInv, SessionsNamed, Named
  <2> QED BY <2>1, <2>2
          DEF Inv, PluginType, OwnInv, StartInv, TimelineInv, ReturnsWithNoSessionLeft
<1> QED BY <1>1, <1>2

(***************************************************************************)
(* The inductive invariant holds in every state.                           *)
(***************************************************************************)
THEOREM Invariance == Spec => []Inv
  BY InitInv, InvStep, PTL DEF Spec

(***************************************************************************)
(* When finalize returns to the tool, no session is left at the server,    *)
(* whatever names the events got and however often they were added.        *)
(***************************************************************************)
THEOREM NoSessionLeft == Spec => []ReturnsWithNoSessionLeft
<1>1. Inv => ReturnsWithNoSessionLeft
  BY DEF Inv
<1> QED BY <1>1, Invariance, PTL

(***************************************************************************)
(* A VampirTrace value is stamped within its own measurement.              *)
(***************************************************************************)
THEOREM StampsWithin == Spec => StampsWithinMeasurement
<1> DEFINE Within ==
       plugin # "scorep" /\ vector' # vector =>
          LET entry == counters'[vector'.counter]
              stamps == vector'.stamps
          IN  \A k \in DOMAIN stamps :
                /\ stamps[k] \in entry.timer_start .. entry.timer_stop
                /\ stamps[k] >= sessions'[entry.session].opened
                /\ k > 1 => stamps[k] >= stamps[k - 1]
<1>1. ASSUME Inv, [Next]_vars PROVE [Within]_vars
  <2> SUFFICES ASSUME Next, plugin # "scorep", vector' # vector PROVE Within
    BY <1>1
  <2>1. PluginType /\ OwnInv /\ StartInv /\ StartInv' /\ OwnInv' /\ PluginType'
    BY <1>1, InvStep DEF Inv
  <2>2. Tick
    BY <2>1, PluginSteps
  <2>3. PICK i \in Nat, n \in Nat : VtValues(i, n)
    BY <2>1, PluginSteps DEF Quiet, Enters, Adds, ScorepValues, Returns, result_vars
  <2> DEFINE from == counters[i].timer_start
  <2>4. /\ i \in 1 .. Len(counters) /\ Len(counters') = Len(counters)
        /\ counters'[i].session # 0 /\ counters'[i].timer_start = from
        /\ counters'[i].timer_stop = now'
    BY <2>1, <2>2, <2>3, VtFacts
  <2>5. /\ now' \in Nat /\ from \in Nat /\ counters'[i].session \in 1 .. Len(sessions')
        /\ sessions'[counters'[i].session].opened \in Nat
    <3>1. counters[i] \in Entry
      BY <2>1, <2>4, ElementOfSeq DEF PluginType
    <3>2. counters'[i].session \in 1 .. Len(sessions')
      BY <2>1, <2>4 DEF OwnInv
    <3>3. sessions'[counters'[i].session] \in Session
      BY <2>1, <3>2, ElementOfSeq DEF PluginType
    <3> QED BY <2>2, <3>1, <3>2, <3>3 DEF Tick, Entry, Session
  <2>6. sessions'[counters'[i].session].opened <= from /\ from <= now'
    BY <2>1, <2>2, <2>4 DEF StartInv, Tick
  <2>7. vector'.counter = i /\ vector'.stamps = Stamps(from, now', n)
    BY <2>3 DEF VtValues
  <2> HIDE DEF from
  <2>8. CASE n = 0
    <3>1. DOMAIN vector'.stamps = {}
      BY <2>7, <2>8 DEF Stamps
    <3> QED BY <3>1
  <2>9. CASE n # 0
    <3> DEFINE d == Spread(from, now', n)
    <3>1. /\ DOMAIN d = 1 .. n
          /\ \A k \in 1 .. n : d[k] \in from .. now' /\ (k > 1 => d[k] >= d[k - 1])
      <4>1. n \in Nat \ {0} /\ from \in Nat /\ now' \in Nat /\ from <= now'
        BY <2>3, <2>5, <2>6, <2>9
      <4> QED BY <4>1, SpreadWithin
    <3>2. vector'.stamps = d
      BY <2>7, <2>9 DEF Stamps
    <3> HIDE DEF d
    <3>3. \A k \in 1 .. n : d[k] >= sessions'[counters'[i].session].opened
      BY <2>5, <2>6, <3>1
    <3> QED BY <2>4, <2>7, <3>1, <3>2, <3>3
  <2> QED BY <2>8, <2>9
<1>2. Inv /\ [Next]_vars => [Within]_vars
  BY <1>1
<1> HIDE DEF Within
<1>3. Spec => [][Within]_vars
  BY <1>2, Invariance, PTL DEF Spec
<1> QED BY <1>3 DEF StampsWithinMeasurement, Within

(***************************************************************************)
(* Score-P's values come in the order of their stamps.                     *)
(***************************************************************************)
THEOREM TimelineForward == Spec => TimelineNeverGoesBack
<1> DEFINE Forward ==
       plugin = "scorep" /\ vector' # vector =>
          \A k \in DOMAIN vector'.stamps : vector'.stamps[k] >= latest
<1>1. ASSUME Inv, [Next]_vars PROVE [Forward]_vars
  <2> SUFFICES ASSUME Next, plugin = "scorep", vector' # vector PROVE Forward
    BY <1>1
  <2>1. /\ PluginType /\ now \in Nat /\ latest \in Nat /\ timer_start \in Nat
        /\ latest <= timer_start /\ timer_start <= now
    BY <1>1 DEF Inv, PluginType, TimelineInv
  <2>2. PICK i \in Nat, n \in Nat, opened \in Nat : ScorepValues(i, n, opened)
    BY <2>1, PluginSteps DEF Quiet, Enters, Adds, VtValues, Returns, result_vars
  <2>3. vector'.stamps = Stamps(timer_start, now, n)
    BY <2>2 DEF ScorepValues
  <2>4. CASE n = 0
    <3>1. DOMAIN vector'.stamps = {}
      BY <2>3, <2>4 DEF Stamps
    <3> QED BY <3>1
  <2>5. CASE n # 0
    <3> DEFINE d == Spread(timer_start, now, n)
    <3>1. DOMAIN d = 1 .. n /\ \A k \in 1 .. n : d[k] \in timer_start .. now
      BY <2>1, <2>2, <2>5, SpreadWithin
    <3>2. vector'.stamps = d
      BY <2>3, <2>5 DEF Stamps
    <3> HIDE DEF d
    <3> QED BY <2>1, <3>1, <3>2
  <2> QED BY <2>4, <2>5
<1>2. Inv /\ [Next]_vars => [Forward]_vars
  BY <1>1
<1> HIDE DEF Forward
<1>3. Spec => [][Forward]_vars
  BY <1>2, Invariance, PTL DEF Spec
<1> QED BY <1>3 DEF TimelineNeverGoesBack, Forward

=============================================================================
