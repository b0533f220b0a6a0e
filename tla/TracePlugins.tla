---------------------------- MODULE TracePlugins ----------------------------
(***************************************************************************)
(* The plugins with which a tracing tool (VampirTrace, Score-P) records    *)
(* power through the client library.  The tool hands over its clock, asks  *)
(* which metrics an event names, adds those it records, fetches their      *)
(* values and finalizes the plugin.  Three plugins share this shape:       *)
(*   "vt"     client/plugins/vt_pmlib_plugin.c                             *)
(*   "vthost" client/vt_pmlib_plugin.c, whose events may name a host       *)
(*   "scorep" client/plugins/scorep_pmlib_plugin.c                         *)
(*                                                                         *)
(* They ignore what the library's calls return: a call that fails ends the *)
(* traced program with exit(1) (see ClientSession).  A call takes time,    *)
(* and where the tool's clock is read within a call matters.               *)
(***************************************************************************)
EXTENDS Integers, Sequences, FiniteSets

CONSTANTS
    Events,        \* the texts the tool may ask about
    Parts,         \* Parts[e]: how many parts "_" divides e into
    Device,        \* Device[e]: the device the second part names
    Host,          \* Host[e]: the fourth part, where there is one
    BadLines,      \* events whose third part is no list of lines
    Served,        \* the devices of the server
    MaxCounters,   \* bound: entries of counters
    MaxTime,       \* bound: ticks of the tool's clock
    MaxSamples     \* bound: samples of one reply

ASSUME TracePluginsAssumption ==
    /\ Parts \in [Events -> Nat] /\ BadLines \subseteq Events
    /\ MaxCounters \in Nat /\ MaxTime \in Nat /\ MaxSamples \in Nat

VARIABLES
    plugin,        \* the plugin that is loaded
    clock_set,     \* the tool gave its clock (set_timer_function)
    init_failed,
    ended,         \* "no"; "returned" from finalize; "exited"
    now,           \* the tool's clock
    counters,      \* the entries: name, device, session (0: no socket yet), timer_start, timer_stop
    sessions,      \* the server's sessions for them: device, status, opened
    timer_start, timer_stop,   \* scorep_timer_start, scorep_timer_stop
    vector,        \* what get_all_values returned last: counter and stamps
    latest         \* history: the latest stamp the tool was given

entry_vars == <<counters, sessions>>
result_vars == <<timer_start, timer_stop, vector, latest>>
vars == <<plugin, clock_set, init_failed, ended, now, entry_vars, result_vars>>

Nothing == [counter |-> 0, stamps |-> <<>>]

Init ==
    /\ plugin \in {"vt", "vthost", "scorep"}
    /\ clock_set = FALSE /\ init_failed = "E_NO_INIT" /\ ended = "no" /\ now = 0
    /\ counters = <<>> /\ sessions = <<>>
    /\ timer_start = 0 /\ timer_stop = 0
    /\ vector = Nothing /\ latest = 0

----------------------------------------------------------------------------
\* What the plugins have in common.

\* A call of the tool that returns at time t.
Call(t) == ended = "no" /\ t \in now .. MaxTime /\ now' = t /\ UNCHANGED <<plugin, ended>>

\* A call of the library failed, or a bad pointer was followed.
Exit ==
    /\ ended = "no" /\ ended' = "exited"
    /\ UNCHANGED <<plugin, clock_set, init_failed, now, entry_vars, result_vars>>

\* set_timer_function, set_clock_function
SetClock ==
    /\ Call(now) /\ init_failed = "E_NO_INIT" /\ clock_set' = TRUE
    /\ UNCHANGED <<init_failed, entry_vars, result_vars>>

Initialize ==
    /\ init_failed = "E_NO_INIT"
    /\ init_failed' = IF clock_set THEN "PL_SUCCESS" ELSE "E_INIT_FAILURE"
    /\ UNCHANGED <<clock_set, entry_vars>>

Probed(e) == Device[e] \in Served

\* get_event_info, where strwldcmp returned ok: a counter is created and
\* finalized to see that the event names one, then it gets an entry.
EventInfo(e, ok, name) ==
    /\ init_failed # "E_NO_INIT"
    /\ \/ /\ ok /\ ~Probed(e) /\ Exit
       \/ /\ ok => Probed(e)
          /\ \E t \in now .. MaxTime : Call(t)
          /\ IF ok /\ e \notin BadLines
             THEN /\ Len(counters) < MaxCounters
                  /\ counters' = Append(counters,
                         [name |-> name, device |-> Device[e], session |-> 0,
                          timer_start |-> 0, timer_stop |-> 0])
             ELSE UNCHANGED counters
          /\ UNCHANGED <<clock_set, init_failed, sessions, result_vars>>

Named(name) == {i \in DOMAIN counters : counters[i].name = name}

\* The loop of add_counter ends at the first entry of that name.
First(name) == CHOOSE i \in Named(name) : \A j \in Named(name) : i <= j

\* The tool adds a name once for each time get_event_info returned it.
ToolAdds(name) ==
    /\ init_failed # "E_NO_INIT" /\ Named(name) # {}
    /\ Cardinality({s \in DOMAIN sessions : sessions[s].name = name}) < Cardinality(Named(name))

\* pm_create_counter, pm_start_counter: a new session, ACTIVE.
NewSession(i, time) ==
    Append(sessions, [name |-> counters[i].name, device |-> counters[i].device,
                      status |-> "ACTIVE", opened |-> time])

\* Integer division spreads the n samples over the interval.
Spread(from, to, n) ==
    LET inc_time == (to - from) \div n IN [i \in 1 .. n |-> from + inc_time * (i - 1)]

Largest(stamps) == IF stamps = <<>> THEN latest ELSE stamps[Len(stamps)]

\* The tool asks for the values of a counter that add_counter returned.
Known(i) == i \in DOMAIN counters /\ counters[i].session # 0
SessionOf(i) == sessions[counters[i].session]

\* (A bug: entries that were never added are left out.)
FinalizeOnlyAdded ==
    /\ init_failed # "E_NO_INIT"
    /\ LET added == {i \in DOMAIN counters : Known(i)}
       IN  /\ \A i \in added : SessionOf(i).status = "INACTIVE"
           /\ sessions' = [s \in DOMAIN sessions |->
                  IF \E i \in added : counters[i].session = s
                  THEN [sessions[s] EXCEPT !.status = "CLOSED"] ELSE sessions[s]]
    /\ ended = "no" /\ ended' = "returned"
    /\ UNCHANGED <<plugin, clock_set, init_failed, now, counters, result_vars>>

\* pm_finalize_counter on every entry.  The server refuses a session that is
\* ACTIVE, and an entry that was never added holds no socket: both end the
\* program.
Finalize ==
    /\ init_failed # "E_NO_INIT"
    /\ IF \A i \in DOMAIN counters : Known(i) /\ SessionOf(i).status = "INACTIVE"
       THEN /\ sessions' = [s \in DOMAIN sessions |->
                   IF \E i \in DOMAIN counters : counters[i].session = s
                   THEN [sessions[s] EXCEPT !.status = "CLOSED"] ELSE sessions[s]]
            /\ ended = "no" /\ ended' = "returned"
            /\ UNCHANGED <<plugin, clock_set, init_failed, now, counters, result_vars>>
       ELSE Exit

----------------------------------------------------------------------------
\* VampirTrace: each entry has its own start and stop times.

VtInit ==
    /\ Call(now) /\ Initialize /\ UNCHANGED result_vars

\* (A bug: the clock is read before the session is created and started.)
AddReadsClockFirst(name) ==
    /\ ToolAdds(name) /\ clock_set
    /\ \E t, opened \in now .. MaxTime :
         LET i == First(name)
         IN  /\ opened <= t /\ Call(t)
             /\ sessions' = NewSession(i, opened)
             /\ counters' = [counters EXCEPT ![i].session = Len(sessions) + 1,
                                             ![i].timer_start = now]
    /\ UNCHANGED <<clock_set, init_failed, result_vars>>

\* add_counter: the clock is read once the server has replied.  An init that
\* failed left no clock to read.
VtAddCounter(name) ==
    /\ ToolAdds(name)
    /\ \/ ~clock_set /\ Exit
       \/ /\ clock_set
          /\ \E t, opened \in now .. MaxTime :
               LET i == First(name)
               IN  /\ opened <= t /\ Call(t)
                   /\ sessions' = NewSession(i, opened)
                   /\ counters' = [counters EXCEPT ![i].session = Len(sessions) + 1,
                                                   ![i].timer_start = t]
          /\ UNCHANGED <<clock_set, init_failed, result_vars>>

\* get_all_values: stop, read the clock, get.  The counter stays stopped, so
\* a second call for it is refused.
VtGetAllValues(i) ==
    /\ Known(i)
    /\ \/ SessionOf(i).status # "ACTIVE" /\ Exit
       \/ /\ SessionOf(i).status = "ACTIVE"
          /\ \E t \in now .. MaxTime, n \in 0 .. MaxSamples :
               LET stamps == IF n = 0 THEN <<>> ELSE Spread(counters[i].timer_start, t, n)
               IN  /\ Call(t)
                   /\ sessions' = [sessions EXCEPT ![counters[i].session].status = "INACTIVE"]
                   /\ counters' = [counters EXCEPT ![i].timer_stop = t]
                   /\ vector' = [counter |-> i, stamps |-> stamps]
                   /\ latest' = Largest(stamps)
          /\ UNCHANGED <<clock_set, init_failed, timer_start, timer_stop>>

vt_strwldcmp(e) == Parts[e] = 3
vt_init == plugin = "vt" /\ VtInit
vt_get_event_info(e) == plugin = "vt" /\ EventInfo(e, vt_strwldcmp(e), e)
vt_add_counter(name) == plugin = "vt" /\ VtAddCounter(name)
vt_get_all_values(i) == plugin = "vt" /\ VtGetAllValues(i)
vt_finalize == plugin = "vt" /\ Finalize

\* The plugin of the client directory: with four parts the last is the name.
vthost_strwldcmp(e) == Parts[e] \in {3, 4}
vthost_name(e) == IF Parts[e] = 4 THEN Host[e] ELSE e
vthost_init == plugin = "vthost" /\ VtInit
vthost_get_event_info(e) ==
    plugin = "vthost" /\ EventInfo(e, vthost_strwldcmp(e), vthost_name(e))
vthost_add_counter(name) == plugin = "vthost" /\ VtAddCounter(name)
vthost_get_all_values(i) == plugin = "vthost" /\ VtGetAllValues(i)
vthost_finalize == plugin = "vthost" /\ Finalize

----------------------------------------------------------------------------
\* Score-P: one start and one stop time for all entries.

scorep_strwldcmp(e) == Parts[e] = 3

scorep_init ==
    /\ plugin = "scorep" /\ Call(now) /\ Initialize
    /\ timer_start' = IF clock_set THEN now ELSE timer_start
    /\ UNCHANGED <<timer_stop, vector, latest>>

scorep_get_event_info(e) == plugin = "scorep" /\ EventInfo(e, scorep_strwldcmp(e), e)

scorep_add_counter(name) ==
    /\ plugin = "scorep" /\ ToolAdds(name)
    /\ \E t, opened \in now .. MaxTime :
         LET i == First(name)
         IN  /\ opened <= t /\ Call(t)
             /\ sessions' = NewSession(i, opened)
             /\ counters' = [counters EXCEPT ![i].session = Len(sessions) + 1]
    /\ UNCHANGED <<clock_set, init_failed, result_vars>>

\* (A bug: the next vector starts where this one did.)
NextStartKept == timer_start

\* scorep_timer_start = scorep_timer_stop, at the end of get_all_values.
NextStart == timer_stop'

\* The clock is read, then the counter stopped, read and started again.
\* With no sample the call returns before the start time moves.
scorep_get_all_values(i) ==
    /\ plugin = "scorep" /\ Known(i)
    /\ IF init_failed # "PL_SUCCESS"
       THEN /\ Call(now) /\ UNCHANGED <<clock_set, init_failed, entry_vars, result_vars>>
       ELSE \E t, opened \in now .. MaxTime, n \in 0 .. MaxSamples :
              LET stamps == IF n = 0 THEN <<>> ELSE Spread(timer_start, now, n)
              IN  /\ opened <= t /\ Call(t)
                  /\ timer_stop' = now
                  /\ timer_start' = IF n = 0 THEN timer_start ELSE NextStart
                  /\ sessions' = [sessions EXCEPT ![counters[i].session].opened = opened]
                  /\ vector' = [counter |-> i, stamps |-> stamps]
                  /\ latest' = Largest(stamps)
                  /\ UNCHANGED <<clock_set, init_failed, counters>>

scorep_finalize == plugin = "scorep" /\ Finalize

----------------------------------------------------------------------------
Names == Events \union {Host[e] : e \in Events}

Asks ==
    \/ SetClock
    \/ vt_init \/ vthost_init \/ scorep_init
    \/ \E e \in Events : \/ vt_get_event_info(e)
                         \/ vthost_get_event_info(e)
                         \/ scorep_get_event_info(e)

Records ==
    \/ \E name \in Names : \/ vt_add_counter(name)
                           \/ vthost_add_counter(name)
                           \/ scorep_add_counter(name)
    \/ \E i \in 1 .. MaxCounters : \/ vt_get_all_values(i)
                                   \/ vthost_get_all_values(i)
                                   \/ scorep_get_all_values(i)
    \/ vt_finalize \/ vthost_finalize \/ scorep_finalize

Next == Asks \/ Records

Spec == Init /\ [][Next]_vars

----------------------------------------------------------------------------
\* Properties.

\* VampirTrace's values have stamps that lie between the start and the stop of
\* their own counter and after the session began to record, in order, and
\* never divide by zero samples (get_all_values: Spread needs n > 0).
StampsWithinMeasurement ==
    [][plugin # "scorep" /\ vector' # vector =>
          LET entry == counters'[vector'.counter]
              stamps == vector'.stamps
          IN  \A k \in DOMAIN stamps :
                /\ stamps[k] \in entry.timer_start .. entry.timer_stop
                /\ stamps[k] >= sessions'[entry.session].opened
                /\ k > 1 => stamps[k] >= stamps[k - 1]]_vars

\* Score-P is given values in the order of their stamps, whichever counters it
\* asks for: no stamp of a vector lies before one of an earlier vector, though
\* all counters share scorep_timer_start and a reply with no sample leaves it.
TimelineNeverGoesBack ==
    [][plugin = "scorep" /\ vector' # vector =>
          \A k \in DOMAIN vector'.stamps : vector'.stamps[k] >= latest]_vars

\* When finalize returns to the tool, the server holds no session of the
\* plugin, even where two events got the same name and one entry was never
\* added (finalize walks all entries and exits on one without a socket).
ReturnsWithNoSessionLeft ==
    ended = "returned" => \A s \in DOMAIN sessions : sessions[s].status = "CLOSED"
=============================================================================
