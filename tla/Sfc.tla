--------------------------------- MODULE Sfc ---------------------------------
(***************************************************************************)
(* The C code stage4/generate_c/generate_c_sfc.cc generates for a          *)
(* sequential function chart, which the PLC calls once a scan.  Steps,     *)
(* transitions, actions and their qualifiers are the chart's; what a       *)
(* transition condition reads is the user's program and is any Boolean.    *)
(***************************************************************************)
EXTENDS Chart

CONSTANTS
    Exclusive,  \* pairs {t, u} of transitions whose conditions the user wrote
                \* never to hold together
    Actions, Variables,     \* action names, and those that name BOOL variables
    Assocs,     \* the action associations in the order of the step blocks:
                \* records with fields step, action, qual and time
    Elapsed,    \* bound: the elapsed_time of a scan
    TMax        \* bound: step.T saturates here, beyond every action time

VARIABLES
    phase,      \* "idle" between scans, "test", then "act"
    X, prev,    \* the steps with X, and with prev_state, set
    T,          \* step.T
    fired,      \* the transitions with __transition_list set
    tested,     \* the transitions tested in this scan
    assoc,      \* the next association
    state, set, reset, stored,      \* the actions with these flags set
    set_rem, reset_rem,             \* set_remaining_time, reset_remaining_time
    vals        \* the BOOL variables that are TRUE

action_vars == <<state, set, reset, stored, set_rem, reset_rem, vals>>
vars == <<phase, X, prev, T, fired, tested, assoc, action_vars>>

Quals == {"none", "N", "S", "R", "L", "D", "P", "P1", "P0", "SL", "SD", "DS"}

ASSUME SfcAssumption ==
    /\ Elapsed \subseteq Nat /\ TMax \in Nat
    /\ Variables \subseteq Actions
    /\ Assocs \in Seq([step : Steps, action : Actions, qual : Quals, time : 0 .. TMax])

Init ==
    /\ phase = "idle"
    /\ X = Initial /\ prev = {} /\ T = [s \in Steps |-> 0]
    /\ fired = {} /\ tested = {} /\ assoc = 1
    /\ state = {} /\ set = {} /\ reset = {} /\ stored = {}
    /\ set_rem = [a \in Actions |-> 0] /\ reset_rem = [a \in Actions |-> 0]
    /\ vals = {}

-----------------------------------------------------------------------------
(* The start of a scan: the transitions, steps and actions are            *)
(* initialised.  __transition_list is copied from the debug list, which   *)
(* holds the value every condition had when it was last evaluated.         *)
Cap(n) == IF n > TMax THEN TMax ELSE n
Due(rem, e) == rem > 0 /\ rem - e <= 0
Left(rem, e) == IF rem > e THEN rem - e ELSE 0

(* Mutant: prev_state is only ever set.                                    *)
prev_kept == prev \cup X
prev_state == X

begin_scan(e) ==
    /\ phase = "idle" /\ phase' = "test"
    /\ \E debug \in SUBSET Transitions : fired' = debug
    /\ tested' = {}
    /\ prev' = prev_state
    /\ T' = [s \in Steps |-> IF s \in X THEN Cap(T[s] + e) ELSE T[s]]
    /\ state' = {}
    /\ set' = {a \in Actions : Due(set_rem[a], e)}
    /\ reset' = {a \in Actions : Due(reset_rem[a], e)}
    /\ set_rem' = [a \in Actions |-> Left(set_rem[a], e)]
    /\ reset_rem' = [a \in Actions |-> Left(reset_rem[a], e)]
    /\ UNCHANGED <<X, assoc, stored, vals>>

-----------------------------------------------------------------------------
(* transition_list, in the order of the tests.  The generator inserts each *)
(* transition as it meets it: one with a PRIORITY before the first of a    *)
(* greater one, one without, whose priority counts as 0, at the end.       *)
Insert(list, t) ==
    LET greater == {p \in DOMAIN list : ranked(t) /\ Net[list[p]].prio > Net[t].prio}
    IN  IF greater = {} THEN Append(list, t)
        ELSE LET p == CHOOSE p \in greater : \A q \in greater : p <= q
             IN  SubSeq(list, 1, p - 1) \o <<t>> \o SubSeq(list, p, Len(list))

transition_list ==
    LET upto[n \in 0 .. Len(Net)] == IF n = 0 THEN <<>> ELSE Insert(upto[n - 1], n)
    IN  upto[Len(Net)]

Precedes(t, u) == \E p, q \in DOMAIN transition_list :
    p < q /\ transition_list[p] = t /\ transition_list[q] = u
NextTest(t) == t \notin tested /\ \A u \in Transitions \ (tested \cup {t}) : Precedes(t, u)

(* Mutants: the steps before a transition with a priority keep their       *)
(* tokens until all are tested; a transition is tested on any of its steps.*)
taken_late(t) == {}
enabled_by_any(t) == from(t) \cap X # {}

taken(t) == IF ranked(t) THEN from(t) ELSE {}
enabled(t) == from(t) \subseteq X

test_transition(t) ==
    /\ phase = "test" /\ NextTest(t)
    /\ tested' = tested \cup {t}
    /\ \/ /\ enabled(t) /\ \A u \in fired \cap tested : {t, u} \notin Exclusive
          /\ fired' = fired \cup {t}
          /\ X' = X \ taken(t)
       \/ fired' = fired \ {t} /\ UNCHANGED X
    /\ UNCHANGED <<phase, prev, T, assoc, action_vars>>

(* Reset steps, then set steps: the transitions without a priority take    *)
(* their tokens, and every fired one puts its own.                         *)
move_tokens ==
    /\ phase = "test" /\ tested = Transitions /\ phase' = "act"
    /\ LET leaving == UNION {from(t) : t \in {u \in fired : ~ranked(u)}}
           entering == UNION {to(t) : t \in fired}
       IN  /\ X' = (X \ leaving) \cup entering
           /\ T' = [s \in Steps |-> IF s \in entering THEN 0 ELSE T[s]]
    /\ assoc' = 1
    /\ UNCHANGED <<prev, fired, tested, action_vars>>

-----------------------------------------------------------------------------
(* The action associations of a step.  An action that names a BOOL         *)
(* variable drives the variable; any other drives the state of its body.   *)
active(a) == a.step \in X
activated(a) == active(a) /\ a.step \notin prev
desactivated(a) == ~active(a) /\ a.step \in prev

raises(a) ==
    \/ a.qual \in {"none", "N"} /\ active(a)
    \/ a.qual = "L" /\ active(a) /\ T[a.step] < a.time
    \/ a.qual = "D" /\ active(a) /\ T[a.step] >= a.time
    \/ a.qual \in {"P", "P1"} /\ activated(a)
    \/ a.qual = "P0" /\ desactivated(a)

(* Mutant: L lowers when its step is left, as N and D do.                  *)
lowers_on_leave(a) ==
    \/ a.qual \in {"N", "D", "L", "P", "P1"} /\ desactivated(a)
    \/ a.qual = "P0" /\ active(a)

lowers(a) ==
    \/ a.qual \in {"N", "D"} /\ desactivated(a)
    \/ a.qual \in {"L", "P", "P1"} /\ (desactivated(a) \/ active(a))
    \/ a.qual = "P0" /\ active(a)

driven(a, on) == IF raises(a) THEN on \cup {a.action}
                 ELSE IF lowers(a) THEN on \ {a.action} ELSE on

(* Mutant: SD and DS count from every scan of their step.                  *)
delays_always(a, rem) == IF a.qual \in {"SD", "DS"} /\ active(a) THEN a.time ELSE rem

sets(a) == \/ a.qual = "S" /\ active(a)
           \/ a.qual = "SL" /\ activated(a)
resets(a) == a.qual = "R" /\ active(a)
limits(a, rem) == IF a.qual = "SL" /\ activated(a) THEN a.time ELSE rem
delays(a, rem) == IF a.qual \in {"SD", "DS"} /\ activated(a) THEN a.time
                  ELSE IF a.qual = "DS" /\ desactivated(a) THEN 0 ELSE rem

action_association ==
    /\ phase = "act" /\ assoc <= Len(Assocs)
    /\ LET a == Assocs[assoc]
           variable == a.action \in Variables /\ a.qual # "none"
       IN  /\ state' = IF variable THEN state ELSE driven(a, state)
           /\ vals' = IF variable THEN driven(a, vals) ELSE vals
           /\ set' = IF sets(a) THEN set \cup {a.action} ELSE set
           /\ reset' = IF resets(a) THEN reset \cup {a.action} ELSE reset
           /\ reset_rem' = [reset_rem EXCEPT ![a.action] = limits(a, @)]
           /\ set_rem' = [set_rem EXCEPT ![a.action] = delays(a, @)]
    /\ assoc' = assoc + 1
    /\ UNCHANGED <<phase, X, prev, T, fired, tested, stored>>

(* Mutant: set wins over reset.                                            *)
stored_set_dominant == (stored \ reset) \cup set
stored_after == (stored \cup set) \ reset

(* The state evaluation, and the execution: the actions with state run     *)
(* their bodies, the variables that are stored or reset are written.       *)
actions_execution ==
    /\ phase = "act" /\ assoc > Len(Assocs) /\ phase' = "idle"
    /\ set_rem' = [a \in Actions |-> IF a \in set THEN 0 ELSE set_rem[a]]
    /\ reset_rem' = [a \in Actions |-> IF a \in reset THEN 0 ELSE reset_rem[a]]
    /\ stored' = stored_after
    /\ state' = state \cup stored_after
    /\ vals' = (vals \cup (set \cap Variables)) \ reset
    /\ UNCHANGED <<X, prev, T, fired, tested, assoc, set, reset>>

Next ==
    \/ \E e \in Elapsed : begin_scan(e)
    \/ \E t \in Transitions : test_transition(t)
    \/ move_tokens \/ action_association \/ actions_execution

Spec == Init /\ [][Next]_vars

-----------------------------------------------------------------------------
(* The token game: a scan moves its tokens at once, when the tests end.    *)
Marking == INSTANCE TokenGame WITH marking <- IF phase = "test" THEN prev ELSE X

(* Type invariant.  The bound TMax holds of step.T, and no action waits    *)
(* longer than its association says.                                       *)
TypeOK ==
    /\ phase \in {"idle", "test", "act"}
    /\ X \subseteq Steps /\ prev \subseteq Steps /\ T \in [Steps -> 0 .. TMax]
    /\ fired \subseteq Transitions /\ tested \subseteq Transitions
    /\ assoc \in 1 .. Len(Assocs) + 1
    /\ {state, set, reset, stored} \subseteq SUBSET Actions /\ vals \subseteq Variables
    /\ {set_rem, reset_rem} \subseteq [Actions -> 0 .. TMax]

(* Where the user's choices are made, by a PRIORITY or by conditions that  *)
(* exclude each other, two transitions never fire on one token: the scan   *)
(* plays the token game, however its tests are ordered.                    *)
ChoicesMade == \A t, u \in Transitions :
    Conflict(t, u) => {t, u} \in Exclusive \/ (ranked(t) /\ ranked(u))
PlaysTokenGame == Marking!Spec

(* No step is entered twice or lost: of the branches of a choice one is    *)
(* active, of parallel branches one step each, and none while their join   *)
(* is done.                                                                *)
FlowsMarked == Marking!FlowsMarked

(* While a step that resets an action is active, the action is not stored, *)
(* whatever else sets it in the same scan.                                 *)
ResetHolds ==
    phase = "idle" => \A k \in 1 .. Len(Assocs) :
        resets(Assocs[k]) => Assocs[k].action \notin stored
=============================================================================
