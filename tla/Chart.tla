-------------------------------- MODULE Chart --------------------------------
(***************************************************************************)
(* The steps and transitions of a sequential function chart.               *)
(***************************************************************************)
EXTENDS Integers, Sequences

CONSTANTS
    Steps, Initial,     \* the steps, and the initial ones
    Net,                \* the transitions as declared: records with fields from
                        \* and to (sets of steps), ranked (it has a PRIORITY)
                        \* and prio (its PRIORITY, 0 without one)
    Flows               \* sets of steps the chart is meant to keep one token in

Transitions == DOMAIN Net
from(t) == Net[t].from
to(t) == Net[t].to
ranked(t) == Net[t].ranked
Conflict(t, u) == t # u /\ from(t) \cap from(u) # {}
One(s) == \E x \in s : s = {x}

ASSUME ChartAssumption ==
    /\ Initial \subseteq Steps
    /\ Net \in Seq([from : SUBSET Steps, to : SUBSET Steps, ranked : BOOLEAN, prio : Nat])

(* The chart is drawn so that every transition takes from a flow as many   *)
(* tokens, one or none, as it puts there.                                  *)
FlowsConserved ==
    \A f \in Flows :
        /\ One(Initial \cap f)
        /\ \A t \in Transitions :
              \/ from(t) \cap f = {} /\ to(t) \cap f = {}
              \/ One(from(t) \cap f) /\ One(to(t) \cap f)
=============================================================================
