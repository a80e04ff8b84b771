------------------------------- MODULE MCLib -------------------------------
(* What generated programs are linked with and how they are scheduled: the *)
(* blocks and functions of the C library, one family of them at a time,    *)
(* with EN and ENO or without, and the tasks of a configuration.           *)
EXTENDS LibTimers, LibControl, LibFunctions, Configuration

vars == <<timers, counters, controls, functions, schedule, family>>

MCDates == {Date(1999, 12, 31, 86399), Date(2000, 2, 28, 86399), Date(2001, 2, 28, 1), Date(1968, 2, 28, 0),
            Date(2032, 12, 30, 3600)}
MCMaxCalls == [ramp |-> 5, pid |-> 5, rtc |-> 3, switches |-> 5]
HalfSecond == Time(0, 500000000)
MCInstants == {Time(s, n) : s \in 0 .. 2, n \in {0, 500000000}}
OneSecond == Time(1, 0)
MCPresets == {-2, 1, 3}
MCLevels == {-1, 3}

(* Configurations: three tasks with intervals, in two resources; or tasks  *)
(* that wait for g, an input, and for h, which programs of both write.     *)
MCNanos == [s |-> 6, ms |-> 1]
Ms(n) == [s |-> 0, ms |-> 2 * n]
Every(d) == [single |-> None, interval |-> <<d>>]
On(g) == [single |-> g, interval |-> <<>>]
Always == [single |-> None, interval |-> <<>>]
With(k, written) == [task |-> k, writes |-> written]
Periodic(i, j, k) ==
    [inputs |-> {},
     resources |-> <<[tasks |-> <<Every(i), Every(j)>>, programs |-> <<With(2, {}), With(1, {})>>],
                     [tasks |-> <<Every(k), Always>>, programs |-> <<With(1, {}), With(2, {}), With(0, {})>>]>>]
Durations == {Ms(n) : n \in {1, 2, 3, 5}}
Triggering(i) ==
    [inputs |-> {"g"},
     resources |-> <<[tasks |-> <<On("g"), [On("h") EXCEPT !.interval = <<i>>]>>,
                      programs |-> <<With(1, {"h"}), With(2, {}), With(1, {})>>],
                     [tasks |-> <<On("h")>>, programs |-> <<With(1, {"h"}), With(0, {})>>]>>]
MCConfigurations ==
    {Periodic(i, j, k) : i, j, k \in Durations}
        \cup {Periodic([s |-> 2, ms |-> 0], Ms(4), [s |-> 0, ms |-> 5]), Periodic([s |-> 90, ms |-> 0], Ms(1), Ms(1)),
               Periodic(Ms(1), [s |-> 0, ms |-> 1], Ms(1)), Triggering(Ms(2)),
               Periodic(Ms(1), Ms(8), Ms(32)), Periodic(Ms(1), Ms(13), Ms(20)),
               [Triggering(Ms(2)) EXCEPT !.resources[1].tasks[2].interval = <<>>]}

(* The operands of functions: STRINGs of as and bs, and instants about     *)
(* zero and midnight.                                                      *)
MCTexts == UNION {[1 .. n -> {97, 98}] : n \in 0 .. 3}
MCMoments == {HalfSecond, Time(-1, -500000000), Time(2, 0), Time(Day, 0), Time(Day - 1, 500000000), Time(-Day, 0)}

Families == {"timers", "counters", "ramp", "pid", "rtc", "switches", "functions", "tasks"}
Init == /\ TimerInit /\ CounterInit /\ ControlInit /\ FunctionInit /\ ConfigurationInit
        /\ family \in Families
        /\ family \notin {"timers", "functions"} => en_eno
        /\ family # "tasks" => conf = Triggering(Ms(2)) /\ host = "plc.c" /\ ~global["g"]
        /\ family # "counters" => word = Signed /\ inp = (CHOOSE i \in Inputs : TRUE) /\ course.of = "ctu"

BlockCall ==
    /\ UNCHANGED <<functions, schedule>>
    /\ \E en \in Enables :
          \/ family = "timers" /\ TimerNext(en) /\ UNCHANGED <<counters, controls>>
          \/ family = "counters" /\ CounterNext(en) /\ UNCHANGED <<timers, controls>>
          \/ family = "ramp" /\ RampNext(en) /\ UNCHANGED <<timers, counters>>
          \/ family = "pid" /\ PidNext(en) /\ UNCHANGED <<timers, counters>>
          \/ family = "rtc" /\ RtcNext(en) /\ UNCHANGED <<timers, counters>>
          \/ family = "switches" /\ SwitchNext(en) /\ UNCHANGED <<timers, counters>>
FunctionCall == family = "functions" /\ FunctionNext /\ UNCHANGED <<timers, counters, controls, schedule>>
TaskStep == /\ family = "tasks" /\ UNCHANGED <<timers, counters, controls, functions>>
            /\ Generate \/ HostTick \/ RunTasks \/ RunProgram \/ SkipProgram
Next == UNCHANGED family /\ (BlockCall \/ FunctionCall \/ TaskStep)
Spec == Init /\ [][Next]_vars

(* Type invariant of what the other properties are stated over.            *)
TypeOK == TimersTyped /\ CountersTyped /\ ControlsTyped /\ ConfigurationTyped
(* Counters and F_TRIG against all calls with EN on so far: no count wraps *)
(* round its type, passes PV or zero or drops an edge, whatever PV does    *)
(* between the calls, and F_TRIG is on exactly at a falling edge, a first  *)
(* call with CLK off being one.                                            *)
EdgesAreCounted == CountsEdges /\ ShowsFall
(* The blocks of the library are the combinators of LowPLC: the timers     *)
(* TimerSpec, on the clock of the last enabled call, the others            *)
(* CounterSpec.                                                            *)
RefinesCombinators == TimerAbs!Spec /\ CounterAbs!Spec
=============================================================================
