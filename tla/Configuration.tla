--------------------------- MODULE Configuration ---------------------------
(***************************************************************************)
(* The configuration of a generated program: the tick the generator counts *)
(* the intervals of the tasks in (calculate_common_ticktime_c), and what   *)
(* config_run__ does in a tick: one resource after the other, each first   *)
(* deciding which of its tasks are due and then running the programs of    *)
(* those, in the order of their declaration (generate_c_resources_c).      *)
(* PRIORITY is not looked at.  Programs share the BOOL globals that SINGLE *)
(* tasks wait for; what else they do is left out.                          *)
(***************************************************************************)
EXTENDS LibCounters, Sequences

CONSTANTS
    Configurations, \* records: resources, and inputs, the globals the host writes
    Globals,        \* the BOOL variables of VAR_GLOBAL
    Nanos,          \* nanoseconds in a unit of a duration
    UllMax,         \* bound: ULL_MAX, the largest duration and the largest product
    UlMax,          \* bound: UL_MAX, the largest count of ticks
    MaxTicks        \* bound: ticks in a behaviour

(* As the grammar has them: a resource has programs, and each program runs *)
(* WITH a task of its resource or, with task 0, without.                   *)
None == "none"
Duration == [s : Nat, ms : Nat]
Task == [single : Globals \cup {None}, interval : Seq(Duration)]
Program == [task : Nat, writes : SUBSET Globals]
Declared(c) ==
    /\ c.inputs \subseteq Globals /\ c.resources \in Seq([tasks : Seq(Task), programs : Seq(Program)])
    /\ Len(c.resources) > 0
    /\ \A r \in DOMAIN c.resources :
          /\ Len(c.resources[r].programs) > 0
          /\ \A k \in DOMAIN c.resources[r].programs :
                c.resources[r].programs[k].task <= Len(c.resources[r].tasks)

ASSUME ConfigurationAssumption ==
    /\ \A c \in Configurations : Declared(c)
    /\ None \notin Globals /\ Nanos \in Duration
    /\ UllMax \in Nat /\ UlMax \in Nat /\ MaxTicks \in Nat

(* A duration counts half units, the finest fraction told apart here; what *)
(* is below a nanosecond is cut off.                                       *)
calculate_time(d) == (d.s * Nanos.s + d.ms * Nanos.ms) \div 2
TimeOf(t) == calculate_time(t.interval[1])

(* Euclid's algorithm on a and b, which are not zero.                      *)
GCM[b \in Nat \ {0}] ==
    [a \in Nat \ {0} |-> IF a < b THEN GCM[a][b] ELSE IF a % b = 0 THEN b ELSE GCM[a % b][b]]

(* The product is one of 64 bits and not looked at before it is divided.   *)
LcmOf(a, b) == ((a * b) % (UllMax + 1)) \div GCM[b][a]
(* common_ticktime is 0 until a task has an interval.  A division by zero  *)
(* ends the generator: it reaches T#0s, which the code it prints for a     *)
(* task has a case for, and a period of 0, which a product that overflows  *)
(* may leave.  exact is read by the properties alone: none overflowed.     *)
(* Mutant: the periods of the tasks before this one are forgotten.         *)
update_ticktime_last(t, time) ==
    LET ticktime == IF t.ticktime = 0 THEN time ELSE GCM[t.ticktime][time]
    IN  IF time = 0 THEN [t EXCEPT !.outcome = "crashed"]
        ELSE [t EXCEPT !.ticktime = ticktime, !.period = time \div ticktime]
update_ticktime(t, time) ==
    LET ticktime == IF t.ticktime = 0 THEN time ELSE GCM[t.ticktime][time]
        task_period == time \div ticktime
        period == LcmOf(t.period, task_period)
    IN  IF time = 0 \/ t.period = 0 THEN [t EXCEPT !.outcome = "crashed"]
        ELSE IF period >= UlMax THEN [t EXCEPT !.outcome = "refused"]
        ELSE [outcome |-> t.outcome, ticktime |-> ticktime, period |-> period,
              exact |-> t.exact /\ t.period * task_period <= UllMax]
task_initialization(t, task) ==
    IF t.outcome # "runs" \/ task.interval = <<>> THEN t
    ELSE IF TimeOf(task) > UllMax THEN [t EXCEPT !.outcome = "refused"] ELSE update_ticktime(t, TimeOf(task))

(* The tasks are visited in the order of their declaration.                *)
Unscheduled == [outcome |-> "runs", ticktime |-> 0, period |-> 1, exact |-> TRUE]
task_configurations(before, tasks) ==
    LET t[k \in 0 .. Len(tasks)] == IF k = 0 THEN before ELSE task_initialization(t[k - 1], tasks[k])
    IN  t[Len(tasks)]
resources_declared(c) ==
    LET t[r \in 0 .. Len(c.resources)] ==
            IF r = 0 THEN Unscheduled ELSE task_configurations(t[r - 1], c.resources[r].tasks)
    IN  t[Len(c.resources)]
configuration_declaration(c) ==
    LET t == resources_declared(c)
    IN  IF t.outcome = "runs" /\ t.ticktime = 0 THEN [t EXCEPT !.outcome = "refused"]
        ELSE IF t.outcome = "runs" /\ t.period = 0 THEN [t EXCEPT !.outcome = "crashed"]
        ELSE t
get_greatest_tick_count(t) == IF t.period = 1 THEN 0 ELSE UlMax - (UlMax % t.period)

-----------------------------------------------------------------------------
VARIABLES
    conf,               \* the configuration that is compiled
    plan,               \* what the generator made of it; its outcome is "source" before
    host,               \* "plc.c", or "wrapping": it minds greatest_tick_count__
    tick,               \* the argument of config_run__
    resource, program,  \* the resource that runs (0: none) and its next program
                        \* (0: its tasks first)
    due, trig,          \* of each resource, the flags of its tasks and their R_TRIGs
    global,
    (* Ghosts, read by the properties alone.                               *)
    elapsed,            \* ticks so far
    ran,                \* the programs that ran in the last or current tick
    moved,              \* the globals written to another value since the tick began
    rises, served       \* since a global was FALSE throughout a tick, how often it
                        \* rose, and how often each program ran (counted to 3)
schedule == <<conf, plan, host, tick, resource, program, due, trig, global,
              elapsed, ran, moved, rises, served>>

Resources == conf.resources
Programs == UNION {{r} \X DOMAIN Resources[r].programs : r \in DOMAIN Resources}
TaskOf(x) == Resources[x[1]].programs[x[2]].task      \* 0 without WITH
Counted(n) == IF n < 3 THEN n ELSE 3

ConfigurationInit ==
    /\ conf \in Configurations /\ host \in {"plc.c", "wrapping"}
    /\ plan = [Unscheduled EXCEPT !.outcome = "source"]
    /\ tick = 0 /\ resource = 0 /\ program = 0
    /\ due = [r \in DOMAIN Resources |-> [k \in DOMAIN Resources[r].tasks |-> FALSE]]
    /\ trig = [r \in DOMAIN Resources |-> [k \in DOMAIN Resources[r].tasks |-> R_TRIG_init]]
    /\ global \in [Globals -> BOOLEAN] /\ \A g \in Globals \ conf.inputs : ~global[g]
    /\ elapsed = 0 /\ ran = {} /\ moved = {} /\ served = [x \in Programs |-> 0]
    /\ rises = [g \in Globals |-> IF global[g] THEN 1 ELSE 0]

Generate ==
    /\ plan.outcome = "source"
    /\ plan' = configuration_declaration(conf)
    /\ UNCHANGED <<conf, host, tick, resource, program, due, trig, global, elapsed, ran, moved, rises, served>>

Values(written) == {new \in [Globals -> BOOLEAN] : \A g \in Globals \ written : new[g] = global[g]}
Rise(new, before) == [g \in Globals |-> Counted(before[g] + IF new[g] /\ ~global[g] THEN 1 ELSE 0)]

(* The host calls config_run__, with inputs it has written before.  The    *)
(* ghosts start anew for a global that was FALSE all through the last tick.*)
Trigger(x) == IF TaskOf(x) = 0 THEN None ELSE Resources[x[1]].tasks[TaskOf(x)].single
Through(v) == {g \in Globals \ moved : elapsed > 0 /\ resource = 0 /\ global[g] = v}
HostTick ==
    /\ plan.outcome = "runs" /\ resource = 0 /\ elapsed < MaxTicks
    /\ \E new \in Values(conf.inputs) :
          /\ global' = new
          /\ rises' = Rise(new, [g \in Globals |-> IF g \in Through(FALSE) THEN 0 ELSE rises[g]])
    /\ served' = [x \in Programs |-> IF Trigger(x) \in Through(FALSE) THEN 0 ELSE served[x]]
    /\ resource' = 1 /\ program' = 0 /\ ran' = {} /\ moved' = {}
    /\ UNCHANGED <<conf, plan, host, tick, due, trig, elapsed>>

(* The tasks of the resource: a SINGLE task on the rise of its global, its *)
(* INTERVAL then ignored; another at the multiples of its INTERVAL.        *)
Triggered(t, clk) == R_TRIG_body(clk, global[t.single])
OnTick(t) == \/ t.interval = <<>>
             \/ LET time == TimeOf(t)
                IN  time = 0 \/ tick % (time \div plan.ticktime) = 0
RunTasks ==
    /\ resource > 0 /\ program = 0
    /\ LET tasks == Resources[resource].tasks
           new == [k \in DOMAIN tasks |-> IF tasks[k].single = None THEN trig[resource][k]
                                          ELSE Triggered(tasks[k], trig[resource][k])]
       IN  /\ trig' = [trig EXCEPT ![resource] = new]
           /\ due' = [due EXCEPT ![resource] =
                        [k \in DOMAIN tasks |-> IF tasks[k].single = None THEN OnTick(tasks[k])
                                                ELSE new[k].q]]
    /\ program' = 1
    /\ UNCHANGED <<conf, plan, host, tick, resource, global, elapsed, ran, moved, rises, served>>

(* The host counts on; one that minds the greatest count starts again      *)
(* there.                                                                  *)
NextTick == IF host = "wrapping" /\ tick + 1 = get_greatest_tick_count(plan) THEN 0 ELSE tick + 1
Advance ==
    IF program < Len(Resources[resource].programs)
    THEN program' = program + 1 /\ UNCHANGED <<resource, tick, elapsed>>
    ELSE /\ program' = 0
         /\ IF resource < Len(Resources) THEN resource' = resource + 1 /\ UNCHANGED <<tick, elapsed>>
            ELSE resource' = 0 /\ tick' = NextTick /\ elapsed' = elapsed + 1

Released(x) == IF TaskOf(x) = 0 THEN TRUE ELSE due[x[1]][TaskOf(x)]
RunProgram ==
    LET x == <<resource, program>>
    IN  /\ resource > 0 /\ program > 0
        /\ Released(x)
        /\ \E new \in Values(Resources[resource].programs[program].writes) :
              /\ global' = new /\ rises' = Rise(new, rises)
              /\ moved' = moved \cup {g \in Globals : new[g] # global[g]}
        /\ ran' = ran \cup {x}
        /\ served' = [served EXCEPT ![x] = Counted(@ + 1)]
        /\ Advance
        /\ UNCHANGED <<conf, plan, host, due, trig>>
SkipProgram ==
    /\ resource > 0 /\ program > 0
    /\ ~Released(<<resource, program>>)
    /\ Advance
    /\ UNCHANGED <<conf, plan, host, due, trig, global, ran, moved, rises, served>>

-----------------------------------------------------------------------------
ConfigurationTyped ==
    /\ plan.outcome \in {"source", "runs", "refused", "crashed"}
    /\ resource \in 0 .. Len(Resources) /\ elapsed \in 0 .. MaxTicks /\ tick \in 0 .. elapsed
    /\ resource > 0 => program \in 0 .. Len(Resources[resource].programs)
    /\ ran \subseteq Programs /\ served \in [Programs -> 0 .. 3] /\ rises \in [Globals -> 0 .. 3]
    /\ trig \in [DOMAIN Resources -> Seq(EdgeData)] /\ due \in [DOMAIN Resources -> Seq(BOOLEAN)]

(* The tick never changes once it is counted in: the first interval that   *)
(* is declared divides the others, and no product overflowed.              *)
Timed(c) == UNION {{<<r, k>> : k \in {k \in DOMAIN c.resources[r].tasks : c.resources[r].tasks[k].interval # <<>>}}
                      : r \in DOMAIN c.resources}
TimeAt(c, z) == TimeOf(c.resources[z[1]].tasks[z[2]])
Earlier(y, z) == y[1] < z[1] \/ (y[1] = z[1] /\ y[2] < z[2])
FirstDivides(c) ==
    \A y, z \in Timed(c) : (\A x \in Timed(c) : ~Earlier(x, y)) => TimeAt(c, z) % TimeAt(c, y) = 0
FirstIsTick == FirstDivides(conf) /\ plan.exact
AlwaysDue(t) == t.single = None /\ t.interval = <<>>

(* In a tick exactly the programs run that are due by their interval,      *)
(* measured from the first tick, also after a host has begun to count the  *)
(* ticks anew: where the first interval declared divides the others and    *)
(* the common period did not overflow.                                     *)
IntervalsKept ==
    resource = 0 /\ elapsed > 0 /\ (host = "plc.c" \/ FirstIsTick) =>
        \A x \in Programs :
            Trigger(x) = None =>
                (x \in ran <=> \/ TaskOf(x) = 0 \/ AlwaysDue(Resources[x[1]].tasks[TaskOf(x)])
                              \/ ((elapsed - 1) * plan.ticktime)
                                    % TimeOf(Resources[x[1]].tasks[TaskOf(x)]) = 0)

(* A global that was FALSE all through a tick and is TRUE all through a    *)
(* later one has had every program of its SINGLE tasks run, in whichever   *)
(* resource and whoever wrote it; and none more often than it rose.        *)
RisesServed ==
    \A x \in Programs :
        Trigger(x) # None => /\ served[x] <= rises[Trigger(x)]
                             /\ Trigger(x) \in Through(TRUE) => served[x] > 0

(* Programs run when they are due, by the clock or by their trigger.       *)
ReleasedInTime == IntervalsKept /\ RisesServed
=============================================================================
