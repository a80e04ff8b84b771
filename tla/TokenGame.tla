------------------------------ MODULE TokenGame ------------------------------
(***************************************************************************)
(* What a sequential function chart promises: a token game.  In one scan a *)
(* set of transitions fires at once; no two of them claim the same token.  *)
(***************************************************************************)
EXTENDS Chart

VARIABLE marking        \* the active steps

Init == marking = Initial

Fire(F) ==
    /\ \A t \in F : from(t) \subseteq marking
    /\ \A t, u \in F : ~Conflict(t, u)
    /\ marking' = (marking \ UNION {from(t) : t \in F}) \cup UNION {to(t) : t \in F}

Next == \E F \in SUBSET Transitions : Fire(F)
Spec == Init /\ [][Next]_marking

(* Every flow holds one token.                                             *)
FlowsMarked == \A f \in Flows : One(marking \cap f)
=============================================================================
