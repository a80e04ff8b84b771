-------------------------------- MODULE MCSfc --------------------------------
(***************************************************************************)
(* The chart of the token runs: GO starts either S1 or, when that does not *)
(* fire, the parallel branches D1, E1 and D2, which a join ends.  S1 goes  *)
(* back or restarts itself, on conditions that exclude each other.         *)
(***************************************************************************)
EXTENDS Sfc

Move(f, t) == [from |-> f, to |-> t, ranked |-> FALSE, prio |-> 0]
Ranked(p, f, t) == [from |-> f, to |-> t, ranked |-> TRUE, prio |-> p]

McSteps == {"GO", "S1", "D1", "D2", "E1"}
McNet == << Ranked(5, {"GO"}, {"D1", "D2"}),
            Move({"S1"}, {"S1"}),
            Ranked(1, {"GO"}, {"S1"}),
            Move({"S1"}, {"GO"}),
            Move({"D1"}, {"E1"}),
            Move({"E1", "D2"}, {"GO"}) >>
McFlows == {{"GO", "S1", "D1", "E1"}, {"GO", "S1", "D2"}}
McExclusive == {{2, 4}}
Does(s, a, q, t) == [step |-> s, action |-> a, qual |-> q, time |-> t]
McAssocs == << Does("GO", "p0", "P0", 0), Does("S1", "p1", "P1", 0),
               Does("D2", "lamp", "P", 0), Does("E1", "n", "N", 0),
               Does("S1", "off", "P0", 0) >>
McActions == {"p0", "p1", "lamp", "n", "off"}
McElapsed == {0}

ASSUME McChoices == ChoicesMade
ASSUME McFlowsConserved == FlowsConserved

(* The chart of the timed runs: A and B in turn, A also restarting itself. *)
TwoSteps == << Ranked(2, {"A"}, {"B"}), Move({"B"}, {"A"}), Ranked(3, {"A"}, {"A"}) >>
TwoFlows == {{"A", "B"}}
TwoAssocs ==
    << Does("A", "sl", "SL", 2), Does("A", "sd", "SD", 2), Does("A", "lim", "L", 1),
       Does("A", "del", "D", 1), Does("A", "mem", "S", 0), Does("A", "late", "SD", 1),
       Does("B", "ds", "DS", 2), Does("B", "mem", "R", 0), Does("B", "late", "R", 0),
       Does("B", "go", "N", 0), Does("A", "on", "D", 1) >>
TwoActions == {"sl", "sd", "lim", "del", "mem", "late", "ds", "go", "on"}

-----------------------------------------------------------------------------
(* Clocks the code does not have, read by the properties alone.            *)
VARIABLES
    since,      \* the time since a transition last entered the step
    act,        \* the time since it last entered it from outside, or Never
    was,        \* the steps active when the scan began
    entered,    \* the steps this scan entered from outside
    gone,       \* the steps this scan left
    due         \* the SD and DS associations whose delay has elapsed

Never == -1
hvars == <<vars, since, act, was, entered, gone, due>>

HInit ==
    /\ Init
    /\ since = [s \in Steps |-> 0] /\ act = [s \in Steps |-> Never]
    /\ was = {} /\ entered = {} /\ gone = {} /\ due = {}

delayed(a) == a.qual \in {"SD", "DS"}

HBegin(e) ==
    /\ begin_scan(e)
    /\ was' = X
    /\ since' = [s \in Steps |-> Cap(since[s] + e)]
    /\ act' = [s \in Steps |-> IF act[s] = Never THEN Never ELSE Cap(act[s] + e)]
    /\ due' = due \cup {k \in 1 .. Len(Assocs) :
                          LET a == Assocs[k]
                          IN  /\ delayed(a) /\ act[a.step] # Never
                              /\ act[a.step] + e >= a.time
                              /\ a.qual = "DS" => a.step \in X}
    /\ UNCHANGED <<entered, gone>>

HMove ==
    /\ move_tokens
    /\ LET into == UNION {to(t) : t \in fired}
       IN  /\ since' = [s \in Steps |-> IF s \in into THEN 0 ELSE since[s]]
           /\ act' = [s \in Steps |-> IF s \in into \ was THEN 0 ELSE act[s]]
           /\ entered' = into \ was
           /\ gone' = was \ X'
    /\ UNCHANGED <<was, due>>

HNext ==
    \/ \E e \in Elapsed : HBegin(e)
    \/ HMove
    \/ /\ \/ \E t \in Transitions : test_transition(t)
          \/ action_association \/ actions_execution
       /\ UNCHANGED <<since, act, was, entered, gone, due>>

HSpec == HInit /\ [][HNext]_hvars

-----------------------------------------------------------------------------
(* An association whose action no other association names, and what its    *)
(* action or variable is after a scan.                                     *)
Sole(k) == \A j \in 1 .. Len(Assocs) : j # k => Assocs[j].action # Assocs[k].action
On(a) == a.action \in IF a.action \in Variables THEN vals ELSE state
Scanned == phase = "idle" /\ assoc > Len(Assocs)

(* N runs while its step is active, L until the step has been active for   *)
(* its time, D from then on: measured from the entry of the step, also by  *)
(* a transition that restarts it.  A variable that D has set is not        *)
(* cleared by a restart: only leaving the step clears it.                  *)
FollowsStep ==
    Scanned => \A k \in 1 .. Len(Assocs) :
        LET a == Assocs[k]
        IN  Sole(k) => /\ a.qual = "N" => (On(a) <=> active(a))
                       /\ a.qual = "L" => (On(a) <=> active(a) /\ since[a.step] < a.time)
                       /\ a.qual = "D" =>
                             /\ On(a) => active(a)
                             /\ active(a) /\ since[a.step] >= a.time => On(a)
                             /\ On(a) /\ since[a.step] < a.time => a.action \in Variables

(* A pulse runs its action in the one scan that enters the step, P0 in the *)
(* one that leaves it, however short the stay.  A variable that P0 has set *)
(* is cleared only when the step is next active.                           *)
PulseOncePerEntry ==
    Scanned => \A k \in 1 .. Len(Assocs) :
        LET a == Assocs[k]
        IN  Sole(k) => /\ a.qual \in {"P", "P1"} => (On(a) <=> a.step \in entered)
                       /\ a.qual = "P0" =>
                             /\ a.step \in gone => On(a)
                             /\ On(a) => ~active(a)
                             /\ On(a) /\ a.step \notin gone => a.action \in Variables

(* A time-limited stored action never runs at or past its time, whether or *)
(* not its step is still active, and a delayed one is stored when its      *)
(* delay has elapsed, for DS with the step still active, and not before:   *)
(* set_remaining_time is the "time before set will be requested"           *)
(* (lib/C/iec_types_all.h).  A time of 0 is no time: a remaining time of 0 *)
(* requests nothing.                                                       *)
StoredInTime ==
    Scanned => \A k \in 1 .. Len(Assocs) :
        LET a == Assocs[k]
        IN  Sole(k) /\ a.time > 0 =>
                /\ a.qual = "SL" /\ On(a) => act[a.step] # Never /\ act[a.step] < a.time
                /\ delayed(a) => (On(a) <=> k \in due)
=============================================================================
