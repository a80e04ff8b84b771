------------------------------ MODULE SfcProofs ------------------------------
(***************************************************************************)
(* Every scan of a chart plays the token game, for every chart whose       *)
(* choices are made, and so keeps one token in each of its flows; and for  *)
(* every chart and elapsed time, its actions do what their qualifiers say. *)
(***************************************************************************)
EXTENDS MCSfc, TLAPS

(* The transitions this scan has tested and found true.                    *)
Won == fired \cap tested
TakenBy(F) == UNION {from(t) : t \in {u \in F : ranked(u)}}

(* The invariant, which makes the test loop atomic: what the tests have    *)
(* taken from X so far are the tokens of the ranked transitions that won,  *)
(* all of them were there when the scan began, and none was won twice.     *)
TokenInv ==
    /\ phase \in {"idle", "test", "act"}
    /\ fired \subseteq Transitions /\ tested \subseteq Transitions
    /\ phase = "test" =>
          /\ X = prev \ TakenBy(Won)
          /\ \A t \in Won : from(t) \subseteq prev
          /\ \A t, u \in Won : ~Conflict(t, u)

LEMMA InitTokens == Init => TokenInv
BY DEF Init, TokenInv

LEMMA BeginTokens == ASSUME TokenInv, NEW e, begin_scan(e) PROVE TokenInv'
<1>1. phase' = "test" /\ fired' \subseteq Transitions /\ tested' = {} /\ X' = X /\ prev' = X
  BY DEF begin_scan, prev_state
<1>2. Won' = {}
  BY <1>1 DEF Won
<1>3. TakenBy(Won)' = {}
  BY <1>2 DEF TakenBy
<1>4. QED  BY <1>1, <1>2, <1>3 DEF TokenInv

LEMMA TestTokens ==
    ASSUME ChoicesMade, TokenInv, NEW t \in Transitions, test_transition(t) PROVE TokenInv'
<1>1. /\ phase = "test" /\ phase' = phase /\ prev' = prev
      /\ t \notin tested /\ tested' = tested \cup {t}
  BY DEF test_transition, NextTest
<1>2. /\ fired \subseteq Transitions /\ tested \subseteq Transitions
      /\ X = prev \ TakenBy(Won)
      /\ \A u \in Won : from(u) \subseteq prev
      /\ \A u, v \in Won : ~Conflict(u, v)
  BY <1>1 DEF TokenInv
<1>3. CASE /\ enabled(t) /\ \A u \in fired \cap tested : {t, u} \notin Exclusive
           /\ fired' = fired \cup {t} /\ X' = X \ taken(t)
  <2>1. Won' = Won \cup {t} /\ t \notin Won /\ Won \subseteq Transitions
    BY <1>1, <1>2, <1>3 DEF Won
  <2>2. TakenBy(Won)' = TakenBy(Won) \cup taken(t)
    BY <2>1 DEF TakenBy, taken
  <2>3. from(t) \subseteq X
    BY <1>3 DEF enabled
  <2>4. ASSUME NEW u \in Won PROVE ~Conflict(t, u) /\ ~Conflict(u, t)
    <3>1. SUFFICES ASSUME Conflict(t, u) \/ Conflict(u, t) PROVE FALSE
      OBVIOUS
    <3>2. Conflict(t, u)
      BY <3>1 DEF Conflict
    <3>3. u \in Transitions /\ {t, u} \notin Exclusive
      BY <1>3, <2>1 DEF Won
    <3>4. ranked(u)
      BY <3>2, <3>3 DEF ChoicesMade
    <3>5. from(u) \subseteq TakenBy(Won)
      BY <3>4 DEF TakenBy
    <3>6. from(t) \cap from(u) = {}
      BY <1>2, <2>3, <3>5
    <3>7. QED  BY <3>2, <3>6 DEF Conflict
  <2>5. ~Conflict(t, t)
    BY DEF Conflict
  <2>6. X' = prev' \ TakenBy(Won)'
    BY <1>1, <1>2, <1>3, <2>2
  <2>7. \A u \in Won' : from(u) \subseteq prev'
    BY <1>1, <1>2, <2>1, <2>3
  <2>8. \A u, v \in Won' : ~Conflict(u, v)
    BY <1>2, <2>1, <2>4, <2>5
  <2>9. QED  BY <1>1, <1>2, <1>3, <2>6, <2>7, <2>8 DEF TokenInv
<1>4. CASE fired' = fired \ {t} /\ UNCHANGED X
  <2>1. Won' = Won
    BY <1>1, <1>2, <1>4 DEF Won
  <2>2. TakenBy(Won)' = TakenBy(Won)
    BY <2>1 DEF TakenBy
  <2>3. QED  BY <1>1, <1>2, <1>4, <2>1, <2>2 DEF TokenInv
<1>5. QED  BY <1>3, <1>4 DEF test_transition

LEMMA StepTokens == ASSUME ChoicesMade PROVE TokenInv /\ [Next]_vars => TokenInv'
<1> SUFFICES ASSUME TokenInv, [Next]_vars PROVE TokenInv'
  OBVIOUS
<1>1. CASE \E e \in Elapsed : begin_scan(e)
  BY <1>1, BeginTokens
<1>2. CASE \E t \in Transitions : test_transition(t)
  BY <1>2, TestTokens
<1>3. CASE move_tokens \/ action_association \/ actions_execution
  <2>1. phase' \in {"idle", "act"} /\ fired' = fired /\ tested' = tested
    BY <1>3 DEF move_tokens, action_association, actions_execution, TokenInv
  <2>2. QED  BY <2>1 DEF TokenInv
<1>4. CASE UNCHANGED vars
  <2>1. UNCHANGED <<phase, X, prev, fired, tested>>
    BY <1>4 DEF vars
  <2>2. Won' = Won /\ TakenBy(Won)' = TakenBy(Won)
    BY <2>1 DEF Won, TakenBy
  <2>3. QED  BY <2>1, <2>2 DEF TokenInv
<1>5. QED  BY <1>1, <1>2, <1>3, <1>4 DEF Next

-----------------------------------------------------------------------------
(* The step of the refinement: the tokens move when the tests have ended,  *)
(* as if all the transitions that won had fired at once.                   *)
LEMMA MoveFires == ASSUME TokenInv, move_tokens PROVE Marking!Fire(fired)
<1>1. /\ phase = "test" /\ phase' = "act" /\ tested = Transitions
      /\ X' = (X \ UNION {from(t) : t \in {u \in fired : ~ranked(u)}})
                 \cup UNION {to(t) : t \in fired}
  BY DEF move_tokens
<1>2. Won = fired
  BY <1>1 DEF Won, TokenInv
<1>3. /\ X = prev \ TakenBy(fired)
      /\ \A t \in fired : from(t) \subseteq prev
      /\ \A t, u \in fired : ~Conflict(t, u)
  BY <1>1, <1>2 DEF TokenInv
<1>4. X \ UNION {from(t) : t \in {u \in fired : ~ranked(u)}} = prev \ UNION {from(t) : t \in fired}
  BY <1>3 DEF TakenBy
<1>5. X' = (prev \ UNION {from(t) : t \in fired}) \cup UNION {to(t) : t \in fired}
  BY <1>1, <1>4
<1>6. QED  BY <1>1, <1>3, <1>5 DEF Marking!Fire, Marking!from, Marking!to, Marking!Conflict,
                                   from, to, Conflict

LEMMA OtherStepsStutter ==
    ASSUME TokenInv, [Next]_vars, ~move_tokens
    PROVE  UNCHANGED (IF phase = "test" THEN prev ELSE X)
<1>1. CASE \E e \in Elapsed : begin_scan(e)
  BY <1>1 DEF begin_scan, prev_state
<1>2. CASE \E t \in Transitions : test_transition(t)
  BY <1>2 DEF test_transition
<1>3. CASE action_association \/ actions_execution
  BY <1>3 DEF action_association, actions_execution
<1>4. CASE UNCHANGED vars
  BY <1>4 DEF vars
<1>5. QED  BY <1>1, <1>2, <1>3, <1>4 DEF Next

(* A scan plays the token game: its tests, one by one and by priority,     *)
(* with the tokens of ranked transitions taken on the way, come to the     *)
(* same as firing at once a set of transitions that share no token.        *)
THEOREM ScanPlaysTokenGame == ASSUME ChoicesMade PROVE Spec => PlaysTokenGame
<1>1. Init => Marking!Init
  BY DEF Init, Marking!Init
<1>2. TokenInv /\ [Next]_vars => [Marking!Next]_(IF phase = "test" THEN prev ELSE X)
  <2> SUFFICES ASSUME TokenInv, [Next]_vars
               PROVE  [Marking!Next]_(IF phase = "test" THEN prev ELSE X)
    OBVIOUS
  <2>1. CASE move_tokens
    <3>1. fired \in SUBSET Transitions
      BY DEF TokenInv
    <3>2. QED  BY <2>1, <3>1, MoveFires DEF Marking!Next, Marking!Transitions, Transitions
  <2>2. CASE ~move_tokens
    BY <2>2, OtherStepsStutter
  <2>3. QED  BY <2>1, <2>2
<1>3. TokenInv /\ [Next]_vars => TokenInv'
  BY StepTokens
<1>4. QED  BY <1>1, <1>2, <1>3, InitTokens, PTL DEF Spec, PlaysTokenGame, Marking!Spec

-----------------------------------------------------------------------------
(* Firing transitions that share no token keeps one token in a flow: the   *)
(* only one of them that can take the flow's token puts another there.     *)
LEMMA FlowStep ==
    ASSUME NEW m, NEW n, NEW F \in SUBSET Transitions, NEW f \in Flows,
           FlowsConserved, One(m \cap f),
           \A t \in F : from(t) \subseteq m,
           \A t, u \in F : ~Conflict(t, u),
           n = (m \ UNION {from(t) : t \in F}) \cup UNION {to(t) : t \in F}
    PROVE  One(n \cap f)
<1>1. \A t \in F : \/ from(t) \cap f = {} /\ to(t) \cap f = {}
                   \/ One(from(t) \cap f) /\ One(to(t) \cap f)
  BY DEF FlowsConserved
<1>2. PICK x \in m \cap f : m \cap f = {x}
  BY DEF One
<1>3. CASE \E t \in F : from(t) \cap f # {}
  <2>1. PICK t \in F : from(t) \cap f # {}
    BY <1>3
  <2>2. from(t) \cap f = {x}
    BY <1>2, <2>1
  <2>3. PICK y \in to(t) \cap f : to(t) \cap f = {y}
    BY <1>1, <2>1 DEF One
  <2>4. ASSUME NEW u \in F, u # t PROVE from(u) \cap f = {} /\ to(u) \cap f = {}
    <3>1. from(u) \cap from(t) = {}
      BY <2>4 DEF Conflict
    <3>2. from(u) \cap f = {}
      BY <1>2, <2>2, <3>1
    <3>3. ~One(from(u) \cap f)
      BY <3>2 DEF One
    <3>4. QED  BY <1>1, <3>2, <3>3
  <2>5. \A z \in f : z \in UNION {to(u) : u \in F} <=> z = y
    BY <2>3, <2>4
  <2>6. \A z \in f : z \notin m \ UNION {from(u) : u \in F}
    BY <1>2, <2>2
  <2>7. n \cap f = {y}
    BY <2>3, <2>5, <2>6
  <2>8. QED  BY <2>7 DEF One
<1>4. CASE \A t \in F : from(t) \cap f = {}
  <2>1. \A t \in F : to(t) \cap f = {}
    <3>1. ~One({})
      BY DEF One
    <3>2. QED  BY <1>1, <1>4, <3>1
  <2>2. n \cap f = m \cap f
    BY <1>4, <2>1
  <2>3. QED  BY <2>2
<1>5. QED  BY <1>3, <1>4

LEMMA MoveFlows ==
    ASSUME FlowsConserved, TokenInv, FlowsMarked, move_tokens PROVE FlowsMarked'
<1> DEFINE m == IF phase = "test" THEN prev ELSE X
<1>1. fired \in SUBSET Transitions /\ Marking!Fire(fired)
  BY MoveFires DEF TokenInv
<1>2. /\ \A t \in fired : from(t) \subseteq m
      /\ \A t, u \in fired : ~Conflict(t, u)
      /\ m' = (m \ UNION {from(t) : t \in fired}) \cup UNION {to(t) : t \in fired}
  BY <1>1 DEF Marking!Fire, Marking!from, Marking!to, Marking!Conflict, from, to, Conflict
<1>3. SUFFICES ASSUME NEW f \in Flows PROVE One(m' \cap f)
  BY DEF FlowsMarked, Marking!FlowsMarked, Marking!One, One
<1>4. One(m \cap f)
  BY DEF FlowsMarked, Marking!FlowsMarked, Marking!One, One
<1> DEFINE n == m'
<1>5. n = (m \ UNION {from(t) : t \in fired}) \cup UNION {to(t) : t \in fired}
  BY <1>2
<1> HIDE DEF m, n
<1>6. One(n \cap f)
  BY <1>1, <1>2, <1>4, <1>5, FlowStep
<1>7. QED  BY <1>6 DEF n

(* FlowsMarked, for every chart that is drawn to conserve its flows.       *)
THEOREM FlowsStayMarked ==
    ASSUME ChoicesMade, FlowsConserved PROVE Spec => []FlowsMarked
<1>1. Init => FlowsMarked
  BY DEF Init, FlowsMarked, FlowsConserved, Marking!FlowsMarked, Marking!One, One
<1>2. TokenInv /\ FlowsMarked /\ [Next]_vars => FlowsMarked'
  <2> SUFFICES ASSUME TokenInv, FlowsMarked, [Next]_vars PROVE FlowsMarked'
    OBVIOUS
  <2>1. CASE move_tokens
    BY <2>1, MoveFlows
  <2>2. CASE ~move_tokens
    <3>1. (IF phase = "test" THEN prev ELSE X)' = IF phase = "test" THEN prev ELSE X
      BY <2>2, OtherStepsStutter
    <3>2. QED  BY <3>1 DEF FlowsMarked, Marking!FlowsMarked, Marking!One
  <2>3. QED  BY <2>1, <2>2
<1>3. TokenInv /\ [Next]_vars => TokenInv'
  BY StepTokens
<1>4. QED  BY <1>1, <1>2, <1>3, InitTokens, PTL DEF Spec
-----------------------------------------------------------------------------
(* Types.                                                                  *)
LEMMA ChartTyped ==
    ASSUME NEW t \in Transitions
    PROVE  from(t) \subseteq Steps /\ to(t) \subseteq Steps
<1> DEFINE R == [from : SUBSET Steps, to : SUBSET Steps, ranked : BOOLEAN, prio : Nat]
<1>1. Net \in Seq(R)
  BY ChartAssumption
<1> HIDE DEF R
<1>2. Net[t] \in R
  BY <1>1 DEF Transitions
<1>3. QED  BY <1>2 DEF R, from, to

LEMMA AssocTyped ==
    /\ Len(Assocs) \in Nat
    /\ \A k \in 1 .. Len(Assocs) :
          /\ Assocs[k].step \in Steps /\ Assocs[k].action \in Actions
          /\ Assocs[k].qual \in Quals /\ Assocs[k].time \in 0 .. TMax
<1> DEFINE R == [step : Steps, action : Actions, qual : Quals, time : 0 .. TMax]
<1>1. Assocs \in Seq(R)
  BY SfcAssumption
<1> HIDE DEF R
<1>2. Len(Assocs) \in Nat /\ \A k \in 1 .. Len(Assocs) : Assocs[k] \in R
  BY <1>1
<1>3. QED  BY <1>2 DEF R

LEMMA CapType ==
    /\ \A n \in Nat : Cap(n) \in 0 .. TMax
    /\ \A n \in 0 .. TMax, e \in Elapsed : n \in Nat /\ e \in Nat /\ n + e \in Nat
    /\ \A n \in 0 .. TMax, e \in Elapsed : Left(n, e) \in 0 .. TMax
BY SfcAssumption DEF Cap, Left

LEMMA TypeInit == Init => TypeOK
<1> SUFFICES ASSUME Init PROVE TypeOK
  OBVIOUS
<1>1. 0 \in 0 .. TMax /\ 1 \in 1 .. Len(Assocs) + 1
  BY SfcAssumption, AssocTyped
<1>2. X \subseteq Steps /\ T \in [Steps -> 0 .. TMax]
  BY <1>1, ChartAssumption DEF Init
<1>3. {set_rem, reset_rem} \subseteq [Actions -> 0 .. TMax]
  BY <1>1 DEF Init
<1>4. QED  BY <1>1, <1>2, <1>3 DEF Init, TypeOK

LEMMA TypeStep == TypeOK /\ [Next]_vars => TypeOK'
<1> SUFFICES ASSUME TypeOK, [Next]_vars PROVE TypeOK'
  OBVIOUS
<1>1. ASSUME NEW e \in Elapsed, begin_scan(e) PROVE TypeOK'
  <2>1. T' \in [Steps -> 0 .. TMax]
    BY <1>1, CapType DEF TypeOK, begin_scan
  <2>2. set_rem' \in [Actions -> 0 .. TMax] /\ reset_rem' \in [Actions -> 0 .. TMax]
    BY <1>1, CapType DEF TypeOK, begin_scan
  <2>3. set' \subseteq Actions /\ reset' \subseteq Actions /\ state' = {}
    BY <1>1 DEF begin_scan
  <2>4. fired' \subseteq Transitions /\ tested' = {} /\ prev' = X
    BY <1>1 DEF begin_scan, prev_state
  <2>5. phase' = "test" /\ X' = X /\ assoc' = assoc /\ stored' = stored /\ vals' = vals
    BY <1>1 DEF begin_scan
  <2>6. QED  BY <2>1, <2>2, <2>3, <2>4, <2>5 DEF TypeOK
<1>2. ASSUME NEW t \in Transitions, test_transition(t) PROVE TypeOK'
  <2>1. X' \subseteq X /\ fired' \subseteq fired \cup {t} /\ tested' = tested \cup {t}
    BY <1>2 DEF test_transition
  <2>2. UNCHANGED <<phase, prev, T, assoc, action_vars>>
    BY <1>2 DEF test_transition
  <2>3. QED  BY <2>1, <2>2 DEF TypeOK, action_vars
<1>3. CASE move_tokens
  <2>1. fired \subseteq Transitions
    BY DEF TypeOK
  <2>2. UNION {to(t) : t \in fired} \subseteq Steps
    BY <2>1, ChartTyped
  <2>3. X' \subseteq Steps
    BY <1>3, <2>2 DEF move_tokens, TypeOK
  <2>4. T' \in [Steps -> 0 .. TMax]
    BY <1>3, SfcAssumption DEF move_tokens, TypeOK
  <2>5. phase' = "act" /\ assoc' = 1 /\ 1 \in 1 .. Len(Assocs) + 1
    BY <1>3, AssocTyped DEF move_tokens
  <2>6. UNCHANGED <<prev, fired, tested, action_vars>>
    BY <1>3 DEF move_tokens
  <2>7. QED  BY <2>3, <2>4, <2>5, <2>6 DEF TypeOK, action_vars
<1>4. CASE action_association
  <2> DEFINE a == Assocs[assoc]
  <2>1. assoc \in 1 .. Len(Assocs) /\ assoc' \in 1 .. Len(Assocs) + 1
    BY <1>4, AssocTyped DEF action_association, TypeOK
  <2>2. a.action \in Actions /\ a.time \in 0 .. TMax /\ 0 \in 0 .. TMax
    BY <2>1, AssocTyped, SfcAssumption
  <2> HIDE DEF a
  <2>3. state' \subseteq Actions /\ set' \subseteq Actions /\ reset' \subseteq Actions
    BY <1>4, <2>2 DEF action_association, TypeOK, driven, a
  <2>4. vals' \subseteq Variables
    BY <1>4, <2>2 DEF action_association, TypeOK, driven, a
  <2>5. reset_rem' \in [Actions -> 0 .. TMax]
    BY <1>4, <2>2 DEF action_association, TypeOK, limits, a
  <2>6. set_rem' \in [Actions -> 0 .. TMax]
    BY <1>4, <2>2 DEF action_association, TypeOK, delays, a
  <2>7. UNCHANGED <<phase, X, prev, T, fired, tested, stored>>
    BY <1>4 DEF action_association
  <2>8. QED  BY <2>1, <2>3, <2>4, <2>5, <2>6, <2>7 DEF TypeOK
<1>5. CASE actions_execution
  <2>1. set_rem' \in [Actions -> 0 .. TMax] /\ reset_rem' \in [Actions -> 0 .. TMax]
    BY <1>5, SfcAssumption DEF actions_execution, TypeOK
  <2>2. stored' \subseteq Actions /\ state' \subseteq Actions /\ vals' \subseteq Variables
    BY <1>5 DEF actions_execution, TypeOK, stored_after
  <2>3. phase' = "idle" /\ UNCHANGED <<X, prev, T, fired, tested, assoc, set, reset>>
    BY <1>5 DEF actions_execution
  <2>4. QED  BY <2>1, <2>2, <2>3 DEF TypeOK
<1>6. CASE UNCHANGED vars
  BY <1>6 DEF vars, action_vars, TypeOK
<1>7. QED  BY <1>1, <1>2, <1>3, <1>4, <1>5, <1>6 DEF Next

(* The flags of the steps, transitions and actions stay flags of the       *)
(* chart's, and no time runs past the longest association.                 *)
THEOREM ChartTypes == Spec => []TypeOK
BY TypeInit, TypeStep, PTL DEF Spec

-----------------------------------------------------------------------------
(* R: once its association has been met, the reset flag is up until the    *)
(* stored flag is written, and the step does not change meanwhile.         *)
ResetInv ==
    /\ assoc \in 1 .. Len(Assocs) + 1
    /\ phase = "act" => \A k \in 1 .. Len(Assocs) :
          k < assoc /\ resets(Assocs[k]) => Assocs[k].action \in reset
    /\ ResetHolds

LEMMA ResetStep == TypeOK /\ TypeOK' /\ ResetInv /\ [Next]_vars => ResetInv'
<1> SUFFICES ASSUME TypeOK, TypeOK', ResetInv, [Next]_vars PROVE ResetInv'
  OBVIOUS
<1>1. assoc' \in 1 .. Len(Assocs) + 1
  BY DEF TypeOK
<1>2. ASSUME NEW e \in Elapsed, begin_scan(e) PROVE ResetInv'
  BY <1>1, <1>2 DEF ResetInv, ResetHolds, begin_scan
<1>3. ASSUME NEW t \in Transitions, test_transition(t) PROVE ResetInv'
  BY <1>1, <1>3 DEF ResetInv, ResetHolds, test_transition
<1>4. CASE move_tokens
  BY <1>1, <1>4 DEF ResetInv, ResetHolds, move_tokens
<1>5. CASE action_association
  <2>1. phase = "act" /\ phase' = "act" /\ X' = X /\ assoc' = assoc + 1
    BY <1>5 DEF action_association
  <2>2. reset' = IF resets(Assocs[assoc]) THEN reset \cup {Assocs[assoc].action} ELSE reset
    BY <1>5 DEF action_association
  <2>3. ASSUME NEW k \in 1 .. Len(Assocs), k < assoc', resets(Assocs[k])'
        PROVE  Assocs[k].action \in reset'
    <3>1. resets(Assocs[k])
      BY <2>1, <2>3 DEF resets, active
    <3>2. k < assoc \/ k = assoc
      BY <2>1, <2>3 DEF TypeOK
    <3>3. QED  BY <2>1, <2>2, <3>1, <3>2 DEF ResetInv
  <2>4. QED  BY <1>1, <2>1, <2>3 DEF ResetInv, ResetHolds
<1>6. CASE actions_execution
  <2>1. /\ phase = "act" /\ phase' = "idle" /\ X' = X
        /\ stored' = (stored \cup set) \ reset /\ assoc > Len(Assocs)
    BY <1>6 DEF actions_execution, stored_after
  <2>2. ASSUME NEW k \in 1 .. Len(Assocs), resets(Assocs[k])'
        PROVE  Assocs[k].action \notin stored'
    <3>1. resets(Assocs[k]) /\ k < assoc
      BY <2>1, <2>2 DEF resets, active, TypeOK
    <3>2. QED  BY <2>1, <3>1 DEF ResetInv
  <2>3. QED  BY <1>1, <2>1, <2>2 DEF ResetInv, ResetHolds
<1>7. CASE UNCHANGED vars
  BY <1>1, <1>7 DEF vars, action_vars, ResetInv, ResetHolds, resets, active
<1>8. QED  BY <1>2, <1>3, <1>4, <1>5, <1>6, <1>7 DEF Next

(* While a step that resets an action is active, the action is not stored: *)
(* for every chart and every order of its associations.                    *)
THEOREM ResetAlwaysHolds == Spec => []ResetHolds
<1>1. Init => ResetInv
  BY TypeInit DEF Init, ResetInv, ResetHolds, TypeOK
<1>2. ResetInv => ResetHolds
  BY DEF ResetInv
<1>3. QED  BY <1>1, <1>2, ResetStep, TypeInit, TypeStep, PTL DEF Spec
-----------------------------------------------------------------------------
(* The timed actions, against the clocks of MCSfc.                         *)
Clocks == since \in [Steps -> 0 .. TMax] /\ act \in [Steps -> {Never} \cup (0 .. TMax)]

(* prev is what was active when the scan began; step.T measures the time   *)
(* since the entry of every step that is active.                           *)
Sync ==
    /\ TypeOK /\ Clocks
    /\ phase \in {"test", "act"} => was = prev
    /\ phase = "test" => X \subseteq prev
    /\ phase = "act" \/ (phase = "idle" /\ assoc # 1) => entered = X \ prev /\ gone = prev \ X
    /\ phase = "act" => \A s \in entered : act[s] = 0
    /\ \A s \in X : T[s] = since[s]

LEMMA SyncInit == HInit => Sync
<1> SUFFICES ASSUME HInit PROVE Sync
  OBVIOUS
<1>1. TypeOK /\ phase = "idle" /\ entered = {} /\ gone = {}
  BY TypeInit DEF HInit, Init
<1>2. 0 \in 0 .. TMax
  BY SfcAssumption
<1>3. since \in [Steps -> 0 .. TMax]
  BY <1>2 DEF HInit
<1>4. act \in [Steps -> {Never} \cup (0 .. TMax)]
  BY DEF HInit
<1>5. \A s \in X : T[s] = since[s]
  BY ChartAssumption DEF HInit, Init
<1>6. assoc = 1
  BY DEF HInit, Init
<1>7. QED  BY <1>1, <1>3, <1>4, <1>5, <1>6 DEF Sync, Clocks

LEMMA SyncStep == Sync /\ [HNext]_hvars => Sync'
<1> SUFFICES ASSUME Sync, [HNext]_hvars PROVE Sync'
  OBVIOUS
<1>1. TypeOK'
  BY TypeStep DEF Sync, HNext, HBegin, HMove, Next, hvars
<1>2. ASSUME NEW e \in Elapsed, HBegin(e) PROVE Sync'
  <2>1. since' \in [Steps -> 0 .. TMax]
    BY <1>2, CapType DEF HBegin, Sync, Clocks
  <2>2. act' \in [Steps -> {Never} \cup (0 .. TMax)]
    <3>1. \A s \in Steps : act[s] = Never \/ act[s] \in 0 .. TMax
      BY DEF Sync, Clocks
    <3>2. \A s \in Steps : act[s] = Never \/ Cap(act[s] + e) \in 0 .. TMax
      BY <3>1, CapType
    <3>3. QED  BY <1>2, <3>2 DEF HBegin
  <2>3. phase' = "test" /\ X' = X /\ prev' = X /\ was' = X
    BY <1>2 DEF HBegin, begin_scan, prev_state
  <2>4. \A s \in X' : T'[s] = since'[s]
    BY <1>2, <2>3 DEF HBegin, begin_scan, Sync, TypeOK
  <2>5. QED  BY <1>1, <2>1, <2>2, <2>3, <2>4 DEF Sync, Clocks
<1>3. CASE HMove
  <2> DEFINE into == UNION {to(t) : t \in fired}
             leaving == UNION {from(t) : t \in {u \in fired : ~ranked(u)}}
  <2>1. /\ phase = "test" /\ phase' = "act" /\ prev' = prev /\ was' = was
        /\ X' = (X \ leaving) \cup into
        /\ T' = [s \in Steps |-> IF s \in into THEN 0 ELSE T[s]]
    BY <1>3 DEF HMove, move_tokens
  <2>2. /\ since' = [s \in Steps |-> IF s \in into THEN 0 ELSE since[s]]
        /\ act' = [s \in Steps |-> IF s \in into \ was THEN 0 ELSE act[s]]
        /\ entered' = into \ was /\ gone' = was \ X'
    BY <1>3 DEF HMove
  <2>3. into \subseteq Steps
    BY ChartTyped DEF Sync, TypeOK
  <2> HIDE DEF into, leaving
  <2>4. was = prev /\ X \subseteq prev /\ X \subseteq Steps
    BY <2>1 DEF Sync, TypeOK
  <2>5. since' \in [Steps -> 0 .. TMax] /\ act' \in [Steps -> {Never} \cup (0 .. TMax)]
    BY <2>2, SfcAssumption DEF Sync, Clocks
  <2>6. entered' = X' \ prev' /\ gone' = prev' \ X'
    BY <2>1, <2>2, <2>4
  <2>7. \A s \in entered' : act'[s] = 0
    BY <2>2, <2>3
  <2>8. \A s \in X' : T'[s] = since'[s]
    BY <2>1, <2>2, <2>3, <2>4 DEF Sync
  <2>9. QED  BY <1>1, <2>1, <2>4, <2>5, <2>6, <2>7, <2>8 DEF Sync, Clocks
<1>4. ASSUME NEW t \in Transitions, test_transition(t),
             UNCHANGED <<since, act, was, entered, gone, due>>
      PROVE  Sync'
  <2>1. phase = "test" /\ UNCHANGED <<phase, prev, T>> /\ X' \subseteq X
    BY <1>4 DEF test_transition
  <2>2. QED  BY <1>1, <1>4, <2>1 DEF Sync, Clocks
<1>5. ASSUME action_association \/ actions_execution,
             UNCHANGED <<since, act, was, entered, gone, due>>
      PROVE  Sync'
  <2>1. phase = "act" /\ phase' \in {"idle", "act"} /\ UNCHANGED <<X, prev, T>>
    BY <1>5 DEF action_association, actions_execution
  <2>2. QED  BY <1>1, <1>5, <2>1 DEF Sync, Clocks
<1>6. CASE UNCHANGED hvars
  BY <1>1, <1>6 DEF hvars, vars, action_vars, Sync, Clocks
<1>7. QED  BY <1>2, <1>3, <1>4, <1>5, <1>6 DEF HNext
(* Before association k is met in a scan, and after.                       *)
Early(k) == phase = "test" \/ (phase = "act" /\ assoc <= k)
Late(k) == (phase = "act" /\ assoc > k) \/ Scanned
DrivenQuals == {"N", "L", "D", "P", "P1", "P0"}

(* What FollowsStep and PulseOncePerEntry say of association k.            *)
Obeys(k) ==
    LET a == Assocs[k]
    IN  /\ a.qual = "N" => (On(a) <=> active(a))
        /\ a.qual = "L" => (On(a) <=> active(a) /\ since[a.step] < a.time)
        /\ a.qual = "D" => /\ On(a) => active(a)
                           /\ active(a) /\ since[a.step] >= a.time => On(a)
                           /\ On(a) /\ since[a.step] < a.time => a.action \in Variables
        /\ a.qual \in {"P", "P1"} => (On(a) <=> a.step \in entered)
        /\ a.qual = "P0" => /\ a.step \in gone => On(a)
                            /\ On(a) => ~active(a)
                            /\ On(a) /\ a.step \notin gone => a.action \in Variables

(* No one stores the action of a sole association that drives it.          *)
Unstored(k) ==
    LET x == Assocs[k].action
    IN  x \notin set /\ x \notin reset /\ x \notin stored /\ set_rem[x] = 0 /\ reset_rem[x] = 0

(* What a variable driven by it was left at by the last scan.              *)
LeftOver(k) ==
    LET a == Assocs[k]
    IN  /\ a.action \notin Variables => a.action \notin state
        /\ a.action \in vals => (a.step \in prev <=> a.qual # "P0")

DrivenInv(k) ==
    Sole(k) /\ Assocs[k].qual \in DrivenQuals =>
        /\ Unstored(k)
        /\ Early(k) => LeftOver(k)
        /\ Late(k) => Obeys(k)
        /\ phase = "idle" /\ ~Scanned => vals = {}

(* After a scan a driven variable is TRUE only while its step is active,   *)
(* one driven by P0 only while it is not.                                  *)
LEMMA ObeysSides ==
    ASSUME NEW k \in 1 .. Len(Assocs), Assocs[k].qual \in DrivenQuals, Obeys(k),
           phase = "idle", Scanned, Sync, On(Assocs[k])
    PROVE  Assocs[k].step \in X <=> Assocs[k].qual # "P0"
<1> DEFINE a == Assocs[k]
<1>1. entered = X \ prev /\ gone = prev \ X
  BY AssocTyped DEF Sync, Scanned
<1>2. a.qual \in {"N", "L", "D", "P", "P1", "P0"}
  BY DEF DrivenQuals
<1> HIDE DEF a
<1>3. On(a) /\ (active(a) <=> a.step \in X)
  BY DEF active, a
<1>4. CASE a.qual = "N"
  BY <1>3, <1>4 DEF Obeys, a
<1>5. CASE a.qual = "L"
  BY <1>3, <1>5 DEF Obeys, a
<1>6. CASE a.qual = "D"
  BY <1>3, <1>6 DEF Obeys, a
<1>7. CASE a.qual \in {"P", "P1"}
  BY <1>1, <1>3, <1>7 DEF Obeys, a
<1>8. CASE a.qual = "P0"
  BY <1>3, <1>8 DEF Obeys, a
<1>9. QED  BY <1>2, <1>4, <1>5, <1>6, <1>7, <1>8 DEF a

LEMMA DrivenBegin ==
    ASSUME Sync, NEW k \in 1 .. Len(Assocs), DrivenInv(k), NEW e \in Elapsed, HBegin(e)
    PROVE  DrivenInv(k)'
<1> DEFINE a == Assocs[k]
<1>1. SUFFICES ASSUME Sole(k), a.qual \in DrivenQuals
               PROVE  Unstored(k)' /\ LeftOver(k)' /\ phase' = "test"
  BY DEF DrivenInv, Early, Late, Scanned
<1>2. /\ phase = "idle" /\ phase' = "test" /\ prev' = X /\ state' = {}
      /\ stored' = stored /\ vals' = vals
      /\ set' = {b \in Actions : Due(set_rem[b], e)}
      /\ reset' = {b \in Actions : Due(reset_rem[b], e)}
      /\ set_rem' = [b \in Actions |-> Left(set_rem[b], e)]
      /\ reset_rem' = [b \in Actions |-> Left(reset_rem[b], e)]
  BY DEF HBegin, begin_scan, prev_state
<1>3. a.action \in Actions /\ e \in Nat
  BY AssocTyped, CapType, SfcAssumption
<1> HIDE DEF a
<1>4. set_rem[a.action] = 0 /\ reset_rem[a.action] = 0 /\ a.action \notin stored
  BY <1>1 DEF DrivenInv, Unstored, a
<1>5. ~Due(0, e) /\ Left(0, e) = 0
  BY <1>3 DEF Due, Left
<1>6. /\ a.action \notin set' /\ a.action \notin reset' /\ a.action \notin stored'
      /\ set_rem'[a.action] = 0 /\ reset_rem'[a.action] = 0
  BY <1>2, <1>3, <1>4, <1>5
<1>7. Unstored(k)'
  BY <1>6 DEF Unstored, a
<1>8. a.action \in vals => (a.step \in X <=> a.qual # "P0")
  <2>1. SUFFICES ASSUME a.action \in vals PROVE a.step \in X <=> a.qual # "P0"
    OBVIOUS
  <2>2. Scanned
    BY <1>1, <1>2, <2>1 DEF DrivenInv, a
  <2>3. Obeys(k)
    BY <1>1, <2>2 DEF DrivenInv, Late, a
  <2>4. On(a)
    BY <2>1 DEF On, Sync, TypeOK
  <2>5. QED  BY <1>1, <1>2, <2>2, <2>3, <2>4, ObeysSides DEF a
<1>9. QED  BY <1>2, <1>7, <1>8 DEF LeftOver, a

LEMMA DrivenTests ==
    ASSUME Sync, NEW k \in 1 .. Len(Assocs), DrivenInv(k),
           (\E t \in Transitions : test_transition(t)) \/ move_tokens
    PROVE  DrivenInv(k)'
<1>1. phase = "test" /\ UNCHANGED <<prev, state, set, reset, stored, set_rem, reset_rem, vals>>
  BY DEF test_transition, move_tokens, action_vars
<1>2. phase' = "test" \/ (phase' = "act" /\ assoc' = 1)
  BY <1>1 DEF test_transition, move_tokens
<1>3. Early(k)' /\ ~Late(k)' /\ phase' # "idle" /\ Early(k)
  BY <1>1, <1>2 DEF Early, Late, Scanned
<1>4. (Unstored(k) => Unstored(k)') /\ (LeftOver(k) => LeftOver(k)')
  BY <1>1 DEF Unstored, LeftOver
<1>5. QED  BY <1>3, <1>4 DEF DrivenInv
(* The association in turn is not k: it leaves the action of k alone.      *)
LEMMA OtherAssociation ==
    ASSUME TypeOK, NEW k \in 1 .. Len(Assocs), Sole(k), action_association, assoc # k,
           NEW x, x = Assocs[k].action
    PROVE  /\ x \in state' <=> x \in state
           /\ x \in vals' <=> x \in vals
           /\ x \in set' <=> x \in set
           /\ x \in reset' <=> x \in reset
           /\ stored' = stored
           /\ set_rem'[x] = set_rem[x]
           /\ reset_rem'[x] = reset_rem[x]
<1> DEFINE b == Assocs[assoc]
<1>1. assoc \in 1 .. Len(Assocs)
  BY AssocTyped DEF action_association, TypeOK
<1>2. b.action # x
  BY <1>1 DEF Sole
<1>3. x \in Actions
  BY AssocTyped
<1> HIDE DEF b
<1>4. (x \in driven(b, state) <=> x \in state) /\ (x \in driven(b, vals) <=> x \in vals)
  BY <1>2 DEF driven
<1>5. x \in state' <=> x \in state
  BY <1>4 DEF action_association, b
<1>6. x \in vals' <=> x \in vals
  BY <1>4 DEF action_association, b
<1>7. (x \in set' <=> x \in set) /\ (x \in reset' <=> x \in reset) /\ stored' = stored
  BY <1>2 DEF action_association, b
<1>8. set_rem'[x] = set_rem[x] /\ reset_rem'[x] = reset_rem[x]
  BY <1>2, <1>3 DEF action_association, TypeOK, b
<1>9. QED  BY <1>5, <1>6, <1>7, <1>8

(* The association in turn is k, and it drives its action.                 *)
LEMMA OwnAssociation ==
    ASSUME TypeOK, NEW k \in 1 .. Len(Assocs), action_association, assoc = k,
           Assocs[k].qual \in DrivenQuals, NEW a, a = Assocs[k]
    PROVE  /\ a.action \in Variables =>
                 /\ a.action \in vals' <=> raises(a) \/ (~lowers(a) /\ a.action \in vals)
                 /\ a.action \in state' <=> a.action \in state
           /\ a.action \notin Variables =>
                 a.action \in state' <=> raises(a) \/ (~lowers(a) /\ a.action \in state)
           /\ set' = set /\ reset' = reset /\ stored' = stored
           /\ set_rem'[a.action] = set_rem[a.action]
           /\ reset_rem'[a.action] = reset_rem[a.action]
<1>1. a.qual \in {"N", "L", "D", "P", "P1", "P0"} /\ a.action \in Actions /\ a = Assocs[assoc]
  BY AssocTyped DEF DrivenQuals
<1>2. a.qual # "none" /\ ~sets(a) /\ ~resets(a)
  BY <1>1 DEF sets, resets
<1>3. /\ limits(a, reset_rem[a.action]) = reset_rem[a.action]
      /\ delays(a, set_rem[a.action]) = set_rem[a.action]
  BY <1>1 DEF limits, delays
<1>4. /\ \A on : a.action \in driven(a, on) <=> raises(a) \/ (~lowers(a) /\ a.action \in on)
  BY DEF driven
<1>5. /\ a.action \in Variables => vals' = driven(a, vals) /\ state' = state
      /\ a.action \notin Variables => state' = driven(a, state)
  BY <1>1, <1>2 DEF action_association
<1>6. set' = set /\ reset' = reset /\ stored' = stored
  BY <1>1, <1>2 DEF action_association
<1>7. /\ set_rem' = [set_rem EXCEPT ![a.action] = delays(a, @)]
      /\ reset_rem' = [reset_rem EXCEPT ![a.action] = limits(a, @)]
  BY <1>1 DEF action_association
<1>8. set_rem'[a.action] = set_rem[a.action] /\ reset_rem'[a.action] = reset_rem[a.action]
  BY <1>1, <1>3, <1>7 DEF TypeOK
<1>9. QED  BY <1>4, <1>5, <1>6, <1>8

(* ... and so comes to obey: the rules of the qualifiers, one by one.      *)
LEMMA OwnObeys ==
    ASSUME Sync, NEW k \in 1 .. Len(Assocs), action_association, assoc = k,
           Assocs[k].qual \in DrivenQuals, LeftOver(k),
           UNCHANGED <<since, act, was, entered, gone, due>>
    PROVE  Obeys(k)'
<1> DEFINE a == Assocs[k]
           new == raises(a) \/ (~lowers(a) /\ a.action \in Variables /\ a.action \in vals)
<1>1. phase = "act" /\ X' = X
  BY DEF action_association
<1>2. a.qual \in {"N", "L", "D", "P", "P1", "P0"} /\ a.step \in Steps
  BY AssocTyped DEF DrivenQuals
<1>3. On(a)' <=> new
  BY OwnAssociation DEF On, LeftOver, Sync
<1>4. a.action \in vals => (a.step \in prev <=> a.qual # "P0")
  BY DEF LeftOver
<1>5. entered = X \ prev /\ gone = prev \ X
  BY <1>1 DEF Sync
<1>6. a.step \in X => T[a.step] = since[a.step]
  BY DEF Sync
<1>7. /\ active(a) <=> a.step \in X
      /\ activated(a) <=> a.step \in entered
      /\ desactivated(a) <=> a.step \in gone
  BY <1>2, <1>5 DEF active, activated, desactivated
<1>8. /\ active(a)' <=> active(a)
      /\ since' = since /\ entered' = entered /\ gone' = gone
  BY <1>1 DEF active
<1>9. CASE a.qual = "N"
  <2>1. On(a)' <=> active(a)
    BY <1>3, <1>4, <1>5, <1>7, <1>9 DEF raises, lowers
  <2>2. QED  BY <1>8, <1>9, <2>1 DEF Obeys
<1>10. CASE a.qual = "L"
  <2>1. On(a)' <=> active(a) /\ since[a.step] < a.time
    BY <1>3, <1>4, <1>5, <1>6, <1>7, <1>10 DEF raises, lowers
  <2>2. QED  BY <1>8, <1>10, <2>1 DEF Obeys
<1>11. CASE a.qual = "D"
  <2>1. /\ On(a)' => active(a)
        /\ active(a) /\ since[a.step] >= a.time => On(a)'
        /\ On(a)' /\ ~(since[a.step] >= a.time) => a.action \in Variables
    BY <1>3, <1>4, <1>5, <1>6, <1>7, <1>11 DEF raises, lowers
  <2>2. since[a.step] \in 0 .. TMax /\ a.time \in 0 .. TMax
    BY <1>2, AssocTyped DEF Sync, Clocks
  <2>3. since[a.step] < a.time <=> ~(since[a.step] >= a.time)
    BY <2>2, SfcAssumption
  <2>4. QED  BY <1>8, <1>11, <2>1, <2>3 DEF Obeys
<1>12. CASE a.qual \in {"P", "P1"}
  <2>1. On(a)' <=> a.step \in entered
    BY <1>3, <1>4, <1>5, <1>7, <1>12 DEF raises, lowers
  <2>2. QED  BY <1>8, <1>12, <2>1 DEF Obeys
<1>13. CASE a.qual = "P0"
  <2>1. /\ a.step \in gone => On(a)'
        /\ On(a)' => ~active(a)
        /\ On(a)' /\ a.step \notin gone => a.action \in Variables
    BY <1>3, <1>4, <1>5, <1>7, <1>13 DEF raises, lowers
  <2>2. QED  BY <1>8, <1>13, <2>1 DEF Obeys
<1>14. QED  BY <1>2, <1>9, <1>10, <1>11, <1>12, <1>13
LEMMA DrivenAssociation ==
    ASSUME Sync, NEW k \in 1 .. Len(Assocs), DrivenInv(k), action_association,
           UNCHANGED <<since, act, was, entered, gone, due>>
    PROVE  DrivenInv(k)'
<1> DEFINE a == Assocs[k]
<1>1. SUFFICES ASSUME Sole(k), a.qual \in DrivenQuals
               PROVE  Unstored(k)' /\ (Early(k)' => LeftOver(k)') /\ (Late(k)' => Obeys(k)')
                      /\ phase' # "idle"
  BY DEF DrivenInv
<1>2. phase = "act" /\ phase' = "act" /\ assoc' = assoc + 1 /\ X' = X /\ prev' = prev
  BY DEF action_association
<1>3. assoc \in Nat /\ k \in Nat
  BY AssocTyped DEF Sync, TypeOK
<1>4. Unstored(k) /\ (Early(k) => LeftOver(k)) /\ (Late(k) => Obeys(k))
  BY <1>1 DEF DrivenInv
<1>5. CASE assoc = k
  <2>1. Early(k) /\ ~Early(k)'
    BY <1>2, <1>3, <1>5 DEF Early
  <2>2. Obeys(k)'
    BY <1>1, <1>4, <1>5, <2>1, OwnObeys
  <2>3. Unstored(k)'
    BY <1>1, <1>4, <1>5, OwnAssociation DEF Unstored, Sync
  <2>4. QED  BY <1>2, <2>1, <2>2, <2>3
<1>6. CASE assoc # k
  <2>1. /\ a.action \in state' <=> a.action \in state
        /\ a.action \in vals' <=> a.action \in vals
        /\ a.action \in set' <=> a.action \in set
        /\ a.action \in reset' <=> a.action \in reset
        /\ stored' = stored
        /\ set_rem'[a.action] = set_rem[a.action]
        /\ reset_rem'[a.action] = reset_rem[a.action]
    BY <1>1, <1>6, OtherAssociation DEF Sync
  <2>2. (Early(k)' <=> Early(k)) /\ (Late(k)' <=> Late(k))
    BY <1>2, <1>3, <1>6 DEF Early, Late, Scanned
  <2>3. Unstored(k)'
    BY <1>4, <2>1 DEF Unstored
  <2>4. LeftOver(k) => LeftOver(k)'
    BY <1>2, <2>1 DEF LeftOver
  <2>5. (On(a)' <=> On(a)) /\ (active(a)' <=> active(a))
    BY <1>2, <2>1 DEF On, active
  <2>6. Obeys(k) => Obeys(k)'
    BY <2>5 DEF Obeys
  <2>7. QED  BY <1>2, <1>4, <2>2, <2>3, <2>4, <2>6
<1>7. QED  BY <1>5, <1>6

LEMMA DrivenExecution ==
    ASSUME Sync, NEW k \in 1 .. Len(Assocs), DrivenInv(k), actions_execution,
           UNCHANGED <<since, act, was, entered, gone, due>>
    PROVE  DrivenInv(k)'
<1> DEFINE a == Assocs[k]
<1>1. SUFFICES ASSUME Sole(k), a.qual \in DrivenQuals
               PROVE  Unstored(k)' /\ Obeys(k)' /\ phase' = "idle" /\ Scanned'
  BY DEF DrivenInv, Early
<1>2. /\ phase = "act" /\ assoc > Len(Assocs) /\ phase' = "idle"
      /\ UNCHANGED <<X, prev, T, assoc, set, reset>>
      /\ set_rem' = [b \in Actions |-> IF b \in set THEN 0 ELSE set_rem[b]]
      /\ reset_rem' = [b \in Actions |-> IF b \in reset THEN 0 ELSE reset_rem[b]]
      /\ stored' = (stored \cup set) \ reset
      /\ state' = state \cup ((stored \cup set) \ reset)
      /\ vals' = (vals \cup (set \cap Variables)) \ reset
  BY DEF actions_execution, stored_after
<1>3. Unstored(k) /\ Late(k) /\ a.action \in Actions
  <2>1. assoc > k
    BY <1>2, AssocTyped DEF Sync, TypeOK
  <2>2. QED  BY <1>1, <1>2, <2>1, AssocTyped DEF DrivenInv, Late
<1>4. Unstored(k)'
  BY <1>2, <1>3 DEF Unstored
<1>5. Obeys(k) /\ (On(a)' <=> On(a)) /\ (active(a)' <=> active(a))
  BY <1>1, <1>2, <1>3 DEF DrivenInv, Unstored, On, active
<1>6. Obeys(k)'
  BY <1>5 DEF Obeys
<1>7. QED  BY <1>2, <1>4, <1>6 DEF Scanned

DrivenAll == \A k \in 1 .. Len(Assocs) : DrivenInv(k)

LEMMA DrivenStep == Sync /\ DrivenAll /\ [HNext]_hvars => DrivenAll'
<1> SUFFICES ASSUME Sync, DrivenAll, [HNext]_hvars, NEW k \in 1 .. Len(Assocs)
             PROVE  DrivenInv(k)'
  BY DEF DrivenAll
<1>1. DrivenInv(k)
  BY DEF DrivenAll
<1>2. ASSUME NEW e \in Elapsed, HBegin(e) PROVE DrivenInv(k)'
  BY <1>1, <1>2, DrivenBegin
<1>3. CASE HMove \/ \E t \in Transitions : test_transition(t)
  BY <1>1, <1>3, DrivenTests DEF HMove
<1>4. ASSUME action_association \/ actions_execution,
             UNCHANGED <<since, act, was, entered, gone, due>>
      PROVE  DrivenInv(k)'
  BY <1>1, <1>4, DrivenAssociation, DrivenExecution
<1>5. CASE UNCHANGED hvars
  <2>1. /\ UNCHANGED <<phase, X, prev, assoc, state, set, reset, stored>>
        /\ UNCHANGED <<set_rem, reset_rem, vals, since, entered, gone>>
    BY <1>5 DEF hvars, vars, action_vars
  <2>2. /\ Unstored(k)' <=> Unstored(k)
        /\ LeftOver(k)' <=> LeftOver(k)
        /\ Early(k)' <=> Early(k)
        /\ Late(k)' <=> Late(k)
        /\ Scanned' <=> Scanned
    BY <2>1 DEF Unstored, LeftOver, Early, Late, Scanned
  <2>3. (On(Assocs[k])' <=> On(Assocs[k])) /\ (active(Assocs[k])' <=> active(Assocs[k]))
    BY <2>1 DEF On, active
  <2>4. Obeys(k)' <=> Obeys(k)
    BY <2>1, <2>3 DEF Obeys
  <2>5. QED  BY <1>1, <2>1, <2>2, <2>4 DEF DrivenInv
<1>6. QED  BY <1>2, <1>3, <1>4, <1>5 DEF HNext

LEMMA DrivenInit == HInit => DrivenAll
<1> SUFFICES ASSUME HInit, NEW k \in 1 .. Len(Assocs) PROVE DrivenInv(k)
  BY DEF DrivenAll
<1>1. Assocs[k].action \in Actions /\ Len(Assocs) >= 1 /\ Len(Assocs) \in Nat
  BY AssocTyped
<1>2. phase = "idle" /\ assoc = 1 /\ vals = {}
  BY DEF HInit, Init
<1>3. Unstored(k)
  BY <1>1 DEF Unstored, HInit, Init
<1>4. ~Early(k) /\ ~Late(k) /\ ~Scanned
  BY <1>1, <1>2 DEF Early, Late, Scanned
<1>5. QED  BY <1>2, <1>3, <1>4 DEF DrivenInv

(* N, L and D follow their step, measured from its entry, in every chart.  *)
THEOREM ActionsFollowSteps == HSpec => []FollowsStep
<1>1. DrivenAll => FollowsStep
  <2> SUFFICES ASSUME DrivenAll, Scanned, NEW k \in 1 .. Len(Assocs), Sole(k),
                      Assocs[k].qual \in {"N", "L", "D"}
               PROVE  Obeys(k)
    BY DEF FollowsStep, Obeys
  <2>1. QED  BY DEF DrivenAll, DrivenInv, DrivenQuals, Late
<1>2. QED  BY <1>1, DrivenInit, DrivenStep, SyncInit, SyncStep, PTL DEF HSpec

(* P, P1 and P0 pulse once an entry or an exit, in every chart.            *)
THEOREM PulsesComeOnce == HSpec => []PulseOncePerEntry
<1>1. DrivenAll => PulseOncePerEntry
  <2> SUFFICES ASSUME DrivenAll, Scanned, NEW k \in 1 .. Len(Assocs), Sole(k),
                      Assocs[k].qual \in {"P", "P1", "P0"}
               PROVE  Obeys(k)
    BY DEF PulseOncePerEntry, Obeys
  <2>1. QED  BY DEF DrivenAll, DrivenInv, DrivenQuals, Late
<1>2. QED  BY <1>1, DrivenInit, DrivenStep, SyncInit, SyncStep, PTL DEF HSpec
-----------------------------------------------------------------------------
(* SL, SD and DS: the remaining times run with the clocks.                 *)
StoredQuals == {"SL", "SD", "DS"}
Timed(k) == Sole(k) /\ Assocs[k].qual \in StoredQuals /\ Assocs[k].time > 0

(* The output of a stored action is its stored flag, after a scan.         *)
Shows(k) ==
    LET x == Assocs[k].action
    IN  /\ x \in Variables => (x \in vals <=> x \in stored)
        /\ x \notin Variables =>
              IF Scanned THEN x \in state <=> x \in stored
              ELSE phase \in {"test", "act"} => x \notin state

(* A limit counts down to the reset of a stored action ...                 *)
Running(k) ==
    LET a == Assocs[k]
    IN  /\ act[a.step] # Never /\ act[a.step] < a.time
        /\ reset_rem[a.action] = a.time - act[a.step]

LimitInv(k) ==
    LET x == Assocs[k].action
    IN  /\ set_rem[x] = 0
        /\ phase = "idle" /\ x \in stored => Running(k)
        /\ Early(k) => /\ x \notin set
                       /\ x \in stored \ reset /\ ~activated(Assocs[k]) => Running(k)
        /\ phase = "act" /\ assoc > k /\ x \in (stored \cup set) \ reset => Running(k)

(* ... and a delay to its set, unless DS has been left meanwhile.          *)
Pending(k, M) ==
    LET a == Assocs[k]
    IN  IF act[a.step] = Never \/ (a.qual = "DS" /\ a.step \notin M)
        THEN set_rem[a.action] = 0
        ELSE act[a.step] < a.time /\ set_rem[a.action] = a.time - act[a.step]

DelayInv(k) ==
    LET x == Assocs[k].action
    IN  /\ x \notin reset /\ reset_rem[x] = 0
        /\ phase = "idle" => (k \in due <=> x \in stored)
        /\ phase \in {"test", "act"} => (k \in due <=> x \in stored \cup set)
        /\ k \notin due =>
              /\ phase = "idle" => Pending(k, X)
              /\ Early(k) /\ ~activated(Assocs[k]) => Pending(k, prev)
              /\ phase = "act" /\ assoc > k => Pending(k, X)

StoredInv(k) ==
    Timed(k) => /\ Shows(k)
                /\ Assocs[k].qual = "SL" => LimitInv(k)
                /\ Assocs[k].qual # "SL" => DelayInv(k)

LEMMA StoredInit == ASSUME HInit, NEW k \in 1 .. Len(Assocs) PROVE StoredInv(k)
<1> DEFINE x == Assocs[k].action
<1>1. x \in Actions /\ Assocs[k].step \in Steps /\ Len(Assocs) >= 1 /\ Len(Assocs) \in Nat
  BY AssocTyped
<1>2. /\ phase = "idle" /\ assoc = 1 /\ vals = {} /\ stored = {} /\ reset = {} /\ set = {}
      /\ due = {} /\ ~Scanned /\ ~Early(k)
  BY <1>1 DEF HInit, Init, Scanned, Early
<1>3. set_rem[x] = 0 /\ reset_rem[x] = 0 /\ act[Assocs[k].step] = Never
  BY <1>1 DEF HInit, Init
<1>4. Shows(k) /\ LimitInv(k) /\ DelayInv(k)
  BY <1>2, <1>3 DEF Shows, LimitInv, DelayInv, Pending
<1>5. QED  BY <1>4 DEF StoredInv

(* The beginning of a scan: every clock and every countdown moves by e.    *)
LEMMA CountsDown ==
    ASSUME NEW r \in Nat, NEW c \in 0 .. TMax, NEW p \in 0 .. TMax, NEW e \in Elapsed,
           c < p, r = p - c
    PROVE  /\ Due(r, e) <=> c + e >= p
           /\ ~Due(r, e) => Cap(c + e) < p /\ Left(r, e) = p - Cap(c + e)
BY SfcAssumption DEF Due, Left, Cap

LEMMA NothingDue == ASSUME NEW e \in Elapsed PROVE ~Due(0, e) /\ Left(0, e) = 0
BY SfcAssumption DEF Due, Left

LEMMA StoredBegin ==
    ASSUME Sync, NEW k \in 1 .. Len(Assocs), StoredInv(k), NEW e \in Elapsed, HBegin(e)
    PROVE  StoredInv(k)'
<1> DEFINE a == Assocs[k]
           x == a.action
           s == a.step
<1>1. SUFFICES ASSUME Timed(k)
               PROVE  Shows(k)' /\ (a.qual = "SL" => LimitInv(k)') /\ (a.qual # "SL" => DelayInv(k)')
  BY DEF StoredInv, Timed
<1>2. /\ phase = "idle" /\ phase' = "test" /\ X' = X /\ prev' = X /\ state' = {}
      /\ stored' = stored /\ vals' = vals
      /\ set' = {b \in Actions : Due(set_rem[b], e)}
      /\ reset' = {b \in Actions : Due(reset_rem[b], e)}
      /\ set_rem' = [b \in Actions |-> Left(set_rem[b], e)]
      /\ reset_rem' = [b \in Actions |-> Left(reset_rem[b], e)]
  BY DEF HBegin, begin_scan, prev_state
<1>3. x \in Actions /\ s \in Steps /\ a.time \in 0 .. TMax /\ a.qual \in StoredQuals
  BY <1>1, AssocTyped DEF Timed
<1>4. act'[s] = IF act[s] = Never THEN Never ELSE Cap(act[s] + e)
  BY <1>3 DEF HBegin
<1>5. k \in due' <=> \/ k \in due
                     \/ /\ delayed(a) /\ act[s] # Never /\ act[s] + e >= a.time
                        /\ a.qual = "DS" => s \in X
  BY DEF HBegin
<1>6. act[s] = Never \/ act[s] \in 0 .. TMax
  BY <1>3 DEF Sync, Clocks
<1>7. set_rem[x] \in Nat /\ reset_rem[x] \in Nat
  BY <1>3, CapType, SfcAssumption DEF Sync, TypeOK
<1>8. /\ x \in set' <=> Due(set_rem[x], e)
      /\ x \in reset' <=> Due(reset_rem[x], e)
      /\ set_rem'[x] = Left(set_rem[x], e)
      /\ reset_rem'[x] = Left(reset_rem[x], e)
  BY <1>2, <1>3
<1>9. Shows(k)'
  BY <1>1, <1>2 DEF Shows, StoredInv, Scanned
<1>10. ~activated(a)' /\ Early(k)' /\ phase' # "idle" /\ phase' # "act"
  BY <1>2 DEF activated, active, Early
<1>11. \A n \in 0 .. TMax : Cap(n + e) # Never
  BY CapType, SfcAssumption DEF Never
<1> HIDE DEF a, x, s
<1>12. ASSUME a.qual = "SL" PROVE LimitInv(k)'
  <2>1. set_rem[x] = 0 /\ (x \in stored => Running(k))
    BY <1>1, <1>2, <1>12 DEF StoredInv, LimitInv, a, x
  <2>2. x \notin set' /\ set_rem'[x] = 0
    BY <1>8, <2>1, NothingDue
  <2>3. x \in stored' \ reset' => Running(k)'
    <3>1. SUFFICES ASSUME x \in stored, ~Due(reset_rem[x], e) PROVE Running(k)'
      BY <1>2, <1>8
    <3>2. act[s] # Never /\ act[s] < a.time /\ reset_rem[x] = a.time - act[s]
      BY <2>1, <3>1 DEF Running, a, x, s
    <3>3. act'[s] # Never /\ act'[s] < a.time /\ reset_rem'[x] = a.time - act'[s]
      BY <1>3, <1>4, <1>6, <1>7, <1>8, <1>11, <3>1, <3>2, CountsDown
    <3>4. QED  BY <3>3 DEF Running, a, x, s
  <2>4. QED  BY <1>10, <2>2, <2>3 DEF LimitInv, a, x
<1>13. ASSUME a.qual # "SL" PROVE DelayInv(k)'
  <2>1. /\ x \notin reset /\ reset_rem[x] = 0 /\ (k \in due <=> x \in stored)
        /\ k \notin due => Pending(k, X)
    BY <1>1, <1>2, <1>13 DEF StoredInv, DelayInv, a, x
  <2>2. x \notin reset' /\ reset_rem'[x] = 0
    BY <1>8, <2>1, NothingDue
  <2>3. delayed(a)
    BY <1>3, <1>13 DEF StoredQuals, delayed
  <2>4. CASE k \in due
    BY <1>2, <1>5, <1>10, <2>1, <2>2, <2>4 DEF DelayInv, a, x
  <2>5. CASE k \notin due /\ (act[s] = Never \/ (a.qual = "DS" /\ s \notin X))
    <3>1. set_rem[x] = 0
      BY <2>1, <2>5 DEF Pending, a, x, s
    <3>2. x \notin set' /\ set_rem'[x] = 0
      BY <1>8, <3>1, NothingDue
    <3>3. k \notin due'
      BY <1>5, <2>5
    <3>4. act'[s] = Never \/ (a.qual = "DS" /\ s \notin prev')
      BY <1>2, <1>4, <2>5
    <3>5. Pending(k, prev)'
      BY <3>2, <3>4 DEF Pending, a, x, s
    <3>6. QED  BY <1>2, <1>10, <2>1, <2>2, <2>5, <3>2, <3>3, <3>5 DEF DelayInv, a, x
  <2>6. CASE k \notin due /\ act[s] # Never /\ (a.qual = "DS" => s \in X)
    <3>1. act[s] < a.time /\ set_rem[x] = a.time - act[s]
      BY <2>1, <2>6 DEF Pending, a, x, s
    <3>2. Due(set_rem[x], e) <=> act[s] + e >= a.time
      BY <1>3, <1>6, <1>7, <2>6, <3>1, CountsDown
    <3>3. x \in set' <=> k \in due'
      BY <1>5, <1>8, <2>3, <2>6, <3>2
    <3>4. k \notin due' => Pending(k, prev)'
      <4>1. SUFFICES ASSUME k \notin due' PROVE Pending(k, prev)'
        OBVIOUS
      <4>2. ~Due(set_rem[x], e)
        BY <1>8, <3>3, <4>1
      <4>3. act'[s] < a.time /\ set_rem'[x] = a.time - act'[s] /\ act'[s] # Never
        BY <1>3, <1>4, <1>6, <1>7, <1>8, <1>11, <2>6, <3>1, <4>2, CountsDown
      <4>4. a.qual = "DS" => s \in prev'
        BY <1>2, <2>6
      <4>5. QED  BY <4>3, <4>4 DEF Pending, a, x, s
    <3>5. QED  BY <1>2, <1>10, <2>1, <2>2, <2>6, <3>3, <3>4 DEF DelayInv, a, x
  <2>7. QED  BY <2>4, <2>5, <2>6
<1>14. QED  BY <1>9, <1>12, <1>13
LEMMA StoredTests ==
    ASSUME Sync, Sync', NEW k \in 1 .. Len(Assocs), StoredInv(k),
           \/ HMove
           \/ /\ \E t \in Transitions : test_transition(t)
              /\ UNCHANGED <<since, act, was, entered, gone, due>>
    PROVE  StoredInv(k)'
<1> DEFINE a == Assocs[k]
           x == a.action
           s == a.step
<1>1. SUFFICES ASSUME Timed(k)
               PROVE  Shows(k)' /\ (a.qual = "SL" => LimitInv(k)') /\ (a.qual # "SL" => DelayInv(k)')
  BY DEF StoredInv, Timed
<1>2. /\ phase = "test" /\ UNCHANGED <<prev, state, set, reset, stored, set_rem, reset_rem, vals>>
      /\ phase' = "test" \/ (phase' = "act" /\ assoc' = 1)
      /\ due' = due
  BY DEF HMove, test_transition, move_tokens, action_vars
<1>3. s \in Steps
  BY AssocTyped
<1>4. Early(k)' /\ Early(k) /\ ~Scanned' /\ ~Scanned /\ phase' # "idle"
      /\ ~(phase' = "act" /\ assoc' > k)
  BY <1>2 DEF Early, Scanned
<1>5. ~activated(a)
  BY <1>2 DEF activated, active, Sync
<1>6. ~activated(a)' => act'[s] = act[s]
  <2>1. CASE HMove
    <3>1. phase' = "act" /\ act'[s] = IF s \in entered' THEN 0 ELSE act[s]
      BY <1>3, <2>1 DEF HMove, move_tokens
    <3>2. entered' = X' \ prev'
      BY <3>1 DEF Sync
    <3>3. s \in entered' <=> activated(a)'
      BY <3>2 DEF activated, active
    <3>4. QED  BY <3>1, <3>3
  <2>2. QED  BY <2>1
<1>7. Shows(k)'
  BY <1>1, <1>2, <1>4 DEF Shows, StoredInv
<1> HIDE DEF a, x, s
<1>8. ASSUME a.qual = "SL" PROVE LimitInv(k)'
  <2>1. set_rem[x] = 0 /\ x \notin set /\ (x \in stored \ reset => Running(k))
    BY <1>1, <1>4, <1>5, <1>8 DEF StoredInv, LimitInv, a, x
  <2>2. ~activated(a)' /\ Running(k) => Running(k)'
    BY <1>2, <1>6 DEF Running, a, s
  <2>3. QED  BY <1>2, <1>4, <2>1, <2>2 DEF LimitInv, a, x
<1>9. ASSUME a.qual # "SL" PROVE DelayInv(k)'
  <2>1. /\ x \notin reset /\ reset_rem[x] = 0 /\ (k \in due <=> x \in stored \cup set)
        /\ k \notin due => Pending(k, prev)
    BY <1>1, <1>2, <1>4, <1>5, <1>9 DEF StoredInv, DelayInv, a, x
  <2>2. ~activated(a)' /\ Pending(k, prev) => Pending(k, prev)'
    BY <1>2, <1>6 DEF Pending, a, s
  <2>3. QED  BY <1>2, <1>4, <2>1, <2>2 DEF DelayInv, a, x
<1>10. QED  BY <1>7, <1>8, <1>9

(* The association in turn is k, and it stores its action.                 *)
LEMMA OwnStored ==
    ASSUME TypeOK, NEW k \in 1 .. Len(Assocs), action_association, assoc = k,
           Assocs[k].qual \in StoredQuals, NEW a, a = Assocs[k]
    PROVE  /\ state' = state /\ vals' = vals /\ reset' = reset /\ stored' = stored
           /\ a.action \in set' <=> a.action \in set \/ (a.qual = "SL" /\ activated(a))
           /\ set_rem'[a.action] = delays(a, set_rem[a.action])
           /\ reset_rem'[a.action] = limits(a, reset_rem[a.action])
<1>1. a.qual \in {"SL", "SD", "DS"} /\ a.action \in Actions /\ a = Assocs[assoc]
  BY AssocTyped DEF StoredQuals
<1>2. a.qual # "none" /\ ~resets(a) /\ ~raises(a) /\ ~lowers(a)
      /\ (sets(a) <=> a.qual = "SL" /\ activated(a))
  BY <1>1 DEF sets, resets, raises, lowers
<1>3. state' = state /\ vals' = vals
  BY <1>1, <1>2 DEF action_association, driven
<1>4. /\ reset' = reset /\ stored' = stored
      /\ set' = IF sets(a) THEN set \cup {a.action} ELSE set
  BY <1>1, <1>2 DEF action_association
<1>5. /\ set_rem' = [set_rem EXCEPT ![a.action] = delays(a, @)]
      /\ reset_rem' = [reset_rem EXCEPT ![a.action] = limits(a, @)]
  BY <1>1 DEF action_association
<1>6. set_rem'[a.action] = delays(a, set_rem[a.action])
  BY <1>1, <1>5 DEF TypeOK
<1>7. reset_rem'[a.action] = limits(a, reset_rem[a.action])
  BY <1>1, <1>5 DEF TypeOK
<1>8. QED  BY <1>2, <1>3, <1>4, <1>6, <1>7
LEMMA OwnLimit ==
    ASSUME Sync, NEW k \in 1 .. Len(Assocs), action_association, assoc = k, Timed(k),
           Assocs[k].qual = "SL", LimitInv(k),
           UNCHANGED <<since, act, was, entered, gone, due>>
    PROVE  LimitInv(k)'
<1> DEFINE a == Assocs[k]
           x == a.action
           s == a.step
<1>1. /\ phase = "act" /\ phase' = "act" /\ assoc' = assoc + 1 /\ X' = X /\ prev' = prev
      /\ assoc \in Nat
  BY DEF action_association, Sync, TypeOK
<1>2. s \in Steps /\ a.time > 0 /\ a.time \in 0 .. TMax
  BY AssocTyped DEF Timed
<1>3. Early(k) /\ ~Early(k)'
  BY <1>1 DEF Early
<1>4. /\ reset' = reset /\ stored' = stored
      /\ x \in set' <=> x \in set \/ activated(a)
      /\ set_rem'[x] = delays(a, set_rem[x])
      /\ reset_rem'[x] = limits(a, reset_rem[x])
  BY OwnStored DEF StoredQuals, Sync
<1>5. activated(a) => act[s] = 0
  BY <1>1 DEF Sync, activated, active
<1> HIDE DEF a, x, s
<1>6. /\ set_rem[x] = 0 /\ x \notin set
      /\ x \in stored \ reset /\ ~activated(a) => Running(k)
  BY <1>3 DEF LimitInv, a, x
<1>7. set_rem'[x] = 0
  BY <1>4, <1>6 DEF delays, a
<1>8. x \in (stored' \cup set') \ reset' => Running(k)'
  <2>1. SUFFICES ASSUME x \in (stored' \cup set') \ reset' PROVE Running(k)'
    OBVIOUS
  <2>2. CASE activated(a)
    <3>1. reset_rem'[x] = a.time /\ act'[s] = 0
      BY <1>4, <1>5, <2>2 DEF limits, a
    <3>2. 0 # Never /\ 0 < a.time /\ a.time = a.time - 0
      BY <1>2, SfcAssumption DEF Never
    <3>3. QED  BY <3>1, <3>2 DEF Running, a, x, s
  <2>3. CASE ~activated(a)
    <3>1. Running(k)
      BY <1>4, <1>6, <2>1, <2>3
    <3>2. reset_rem'[x] = reset_rem[x] /\ act' = act
      BY <1>4, <2>3 DEF limits
    <3>3. QED  BY <3>1, <3>2 DEF Running, a, x
  <2>4. QED  BY <2>2, <2>3
<1>9. QED  BY <1>1, <1>3, <1>7, <1>8 DEF LimitInv, a, x

LEMMA OwnDelay ==
    ASSUME Sync, NEW k \in 1 .. Len(Assocs), action_association, assoc = k, Timed(k),
           Assocs[k].qual # "SL", DelayInv(k),
           UNCHANGED <<since, act, was, entered, gone, due>>
    PROVE  DelayInv(k)'
<1> DEFINE a == Assocs[k]
           x == a.action
           s == a.step
<1>1. /\ phase = "act" /\ phase' = "act" /\ assoc' = assoc + 1 /\ X' = X /\ prev' = prev
      /\ assoc \in Nat
  BY DEF action_association, Sync, TypeOK
<1>2. s \in Steps /\ a.time > 0 /\ a.time \in 0 .. TMax /\ a.qual \in {"SD", "DS"}
  BY AssocTyped DEF Timed, StoredQuals
<1>3. Early(k) /\ ~Early(k)'
  BY <1>1 DEF Early
<1>4. /\ reset' = reset /\ stored' = stored
      /\ x \in set' <=> x \in set
      /\ set_rem'[x] = delays(a, set_rem[x])
      /\ reset_rem'[x] = limits(a, reset_rem[x])
  BY <1>2, OwnStored DEF StoredQuals, Sync
<1>5. activated(a) => act[s] = 0 /\ s \in X
  BY <1>1 DEF Sync, activated, active
<1> HIDE DEF a, x, s
<1>6. /\ x \notin reset /\ reset_rem[x] = 0 /\ (k \in due <=> x \in stored \cup set)
      /\ k \notin due /\ ~activated(a) => Pending(k, prev)
  BY <1>1, <1>3 DEF DelayInv, a, x
<1>7. reset_rem'[x] = 0
  BY <1>2, <1>4, <1>6 DEF limits
<1>8. k \notin due => Pending(k, X)'
  <2>1. SUFFICES ASSUME k \notin due PROVE Pending(k, X)'
    OBVIOUS
  <2>2. CASE activated(a)
    <3>1. set_rem'[x] = a.time /\ act'[s] = 0 /\ s \in X'
      BY <1>1, <1>2, <1>4, <1>5, <2>2 DEF delays
    <3>2. 0 # Never /\ 0 < a.time /\ a.time = a.time - 0
      BY <1>2, SfcAssumption DEF Never
    <3>3. QED  BY <3>1, <3>2 DEF Pending, a, x, s
  <2>3. CASE ~activated(a)
    <3>1. Pending(k, prev) /\ (s \in X => s \in prev)
      BY <1>6, <2>1, <2>3 DEF activated, active, s
    <3>2. CASE a.qual = "DS" /\ s \notin X
      <4>1. set_rem'[x] = 0
        <5>1. CASE s \in prev
          BY <1>2, <1>4, <2>3, <3>2, <5>1 DEF delays, desactivated, active, s
        <5>2. CASE s \notin prev
          <6>1. set_rem[x] = 0
            BY <3>1, <3>2, <5>2 DEF Pending, a, x, s
          <6>2. QED  BY <1>4, <2>3, <6>1 DEF delays
        <5>3. QED  BY <5>1, <5>2
      <4>2. QED  BY <1>1, <3>2, <4>1 DEF Pending, a, x, s
    <3>3. CASE ~(a.qual = "DS" /\ s \notin X)
      <4>1. set_rem'[x] = set_rem[x]
        BY <1>4, <2>3, <3>3 DEF delays, desactivated, active, s
      <4>2. act' = act
        OBVIOUS
      <4>3. QED  BY <1>1, <3>1, <3>3, <4>1, <4>2 DEF Pending, a, x, s
    <3>4. QED  BY <3>2, <3>3
  <2>4. QED  BY <2>2, <2>3
<1>9. QED  BY <1>1, <1>3, <1>4, <1>6, <1>7, <1>8 DEF DelayInv, a, x

LEMMA StoredAssociation ==
    ASSUME Sync, NEW k \in 1 .. Len(Assocs), StoredInv(k), action_association,
           UNCHANGED <<since, act, was, entered, gone, due>>
    PROVE  StoredInv(k)'
<1> DEFINE a == Assocs[k]
           x == a.action
<1>1. SUFFICES ASSUME Timed(k)
               PROVE  Shows(k)' /\ (a.qual = "SL" => LimitInv(k)') /\ (a.qual # "SL" => DelayInv(k)')
  BY DEF StoredInv, Timed
<1>2. Shows(k) /\ (a.qual = "SL" => LimitInv(k)) /\ (a.qual # "SL" => DelayInv(k))
  BY <1>1 DEF StoredInv
<1>3. /\ phase = "act" /\ phase' = "act" /\ assoc' = assoc + 1 /\ X' = X /\ prev' = prev
      /\ assoc \in Nat /\ k \in Nat /\ ~Scanned /\ ~Scanned'
  BY AssocTyped DEF action_association, Sync, TypeOK, Scanned
<1>4. CASE assoc = k
  <2>1. state' = state /\ vals' = vals /\ stored' = stored
    BY <1>1, <1>4, OwnStored DEF Timed, Sync
  <2>2. Shows(k)'
    BY <1>2, <1>3, <2>1 DEF Shows
  <2>3. QED  BY <1>1, <1>2, <1>4, <2>2, OwnLimit, OwnDelay
<1>5. CASE assoc # k
  <2>1. /\ x \in state' <=> x \in state
        /\ x \in vals' <=> x \in vals
        /\ x \in set' <=> x \in set
        /\ x \in reset' <=> x \in reset
        /\ stored' = stored
        /\ set_rem'[x] = set_rem[x]
        /\ reset_rem'[x] = reset_rem[x]
    BY <1>1, <1>5, OtherAssociation DEF Timed, Sync
  <2>2. (Early(k)' <=> Early(k)) /\ (assoc' > k <=> assoc > k)
    BY <1>3, <1>5 DEF Early
  <2>3. Shows(k)'
    BY <1>2, <1>3, <2>1 DEF Shows
  <2>4. activated(a)' <=> activated(a)
    BY <1>3 DEF activated, active
  <2>5. Running(k)' <=> Running(k)
    BY <2>1 DEF Running
  <2>6. (Pending(k, X)' <=> Pending(k, X)) /\ (Pending(k, prev)' <=> Pending(k, prev))
    BY <1>3, <2>1 DEF Pending
  <2> HIDE DEF a, x
  <2>7. ASSUME a.qual = "SL" PROVE LimitInv(k)'
    <3>1. LimitInv(k)
      BY <1>2, <2>7
    <3>2. QED  BY <1>3, <2>1, <2>2, <2>4, <2>5, <3>1 DEF LimitInv, a, x
  <2>8. ASSUME a.qual # "SL" PROVE DelayInv(k)'
    <3>1. DelayInv(k)
      BY <1>2, <2>8
    <3>2. QED  BY <1>3, <2>1, <2>2, <2>4, <2>6, <3>1 DEF DelayInv, a, x
  <2>9. QED  BY <2>3, <2>7, <2>8
<1>6. QED  BY <1>4, <1>5

LEMMA StoredExecution ==
    ASSUME Sync, NEW k \in 1 .. Len(Assocs), StoredInv(k), actions_execution,
           UNCHANGED <<since, act, was, entered, gone, due>>
    PROVE  StoredInv(k)'
<1> DEFINE a == Assocs[k]
           x == a.action
<1>1. SUFFICES ASSUME Timed(k)
               PROVE  Shows(k)' /\ (a.qual = "SL" => LimitInv(k)') /\ (a.qual # "SL" => DelayInv(k)')
  BY DEF StoredInv, Timed
<1>2. Shows(k) /\ (a.qual = "SL" => LimitInv(k)) /\ (a.qual # "SL" => DelayInv(k))
  BY <1>1 DEF StoredInv
<1>3. /\ phase = "act" /\ assoc > Len(Assocs) /\ phase' = "idle"
      /\ UNCHANGED <<X, prev, T, assoc, set, reset>>
      /\ set_rem' = [b \in Actions |-> IF b \in set THEN 0 ELSE set_rem[b]]
      /\ reset_rem' = [b \in Actions |-> IF b \in reset THEN 0 ELSE reset_rem[b]]
      /\ stored' = (stored \cup set) \ reset
      /\ state' = state \cup ((stored \cup set) \ reset)
      /\ vals' = (vals \cup (set \cap Variables)) \ reset
  BY DEF actions_execution, stored_after
<1>4. x \in Actions /\ assoc > k /\ ~Early(k)' /\ Scanned'
  BY <1>3, AssocTyped DEF Early, Scanned, Sync, TypeOK
<1> HIDE DEF a, x
<1>5. /\ x \in stored' <=> x \in (stored \cup set) \ reset
      /\ set_rem'[x] = IF x \in set THEN 0 ELSE set_rem[x]
      /\ reset_rem'[x] = IF x \in reset THEN 0 ELSE reset_rem[x]
  BY <1>3, <1>4
<1>6. Shows(k)'
  <2>1. /\ x \in Variables => (x \in vals' <=> x \in stored')
        /\ x \notin Variables => (x \in state' <=> x \in stored')
    BY <1>2, <1>3, <1>5 DEF Shows, Scanned, a, x
  <2>2. QED  BY <1>4, <2>1 DEF Shows, a, x
<1>7. ASSUME a.qual = "SL" PROVE LimitInv(k)'
  <2>1. set_rem[x] = 0 /\ (x \in (stored \cup set) \ reset => Running(k))
    BY <1>2, <1>3, <1>4, <1>7 DEF LimitInv, a, x
  <2>2. x \in stored' => Running(k)'
    BY <1>5, <2>1 DEF Running, a, x
  <2>3. QED  BY <1>3, <1>4, <1>5, <2>1, <2>2 DEF LimitInv, a, x
<1>8. ASSUME a.qual # "SL" PROVE DelayInv(k)'
  <2>1. /\ x \notin reset /\ reset_rem[x] = 0 /\ (k \in due <=> x \in stored \cup set)
        /\ k \notin due => Pending(k, X)
    BY <1>2, <1>3, <1>4, <1>8 DEF DelayInv, a, x
  <2>2. k \notin due => Pending(k, X)'
    BY <1>3, <1>5, <2>1 DEF Pending, a, x
  <2>3. QED  BY <1>3, <1>4, <1>5, <2>1, <2>2 DEF DelayInv, a, x
<1>9. QED  BY <1>6, <1>7, <1>8

StoredAll == \A k \in 1 .. Len(Assocs) : StoredInv(k)

LEMMA StoredStep == Sync /\ Sync' /\ StoredAll /\ [HNext]_hvars => StoredAll'
<1> SUFFICES ASSUME Sync, Sync', StoredAll, [HNext]_hvars, NEW k \in 1 .. Len(Assocs)
             PROVE  StoredInv(k)'
  BY DEF StoredAll
<1>1. StoredInv(k)
  BY DEF StoredAll
<1>2. ASSUME NEW e \in Elapsed, HBegin(e) PROVE StoredInv(k)'
  BY <1>1, <1>2, StoredBegin
<1>3. ASSUME \/ HMove
             \/ /\ \E t \in Transitions : test_transition(t)
                /\ UNCHANGED <<since, act, was, entered, gone, due>>
      PROVE  StoredInv(k)'
  BY <1>1, <1>3, StoredTests
<1>4. ASSUME action_association \/ actions_execution,
             UNCHANGED <<since, act, was, entered, gone, due>>
      PROVE  StoredInv(k)'
  BY <1>1, <1>4, StoredAssociation, StoredExecution
<1>5. CASE UNCHANGED hvars
  <2>1. /\ UNCHANGED <<phase, X, prev, assoc, state, set, reset, stored>>
        /\ UNCHANGED <<set_rem, reset_rem, vals, act, due>>
    BY <1>5 DEF hvars, vars, action_vars
  <2>2. /\ Scanned' <=> Scanned
        /\ Early(k)' <=> Early(k)
        /\ activated(Assocs[k])' <=> activated(Assocs[k])
        /\ Running(k)' <=> Running(k)
        /\ Pending(k, X)' <=> Pending(k, X)
        /\ Pending(k, prev)' <=> Pending(k, prev)
    BY <2>1 DEF Scanned, Early, activated, active, Running, Pending
  <2>3. Shows(k)' <=> Shows(k)
    BY <2>1, <2>2 DEF Shows
  <2>4. LimitInv(k)' <=> LimitInv(k)
    BY <2>1, <2>2 DEF LimitInv
  <2>5. DelayInv(k)' <=> DelayInv(k)
    BY <2>1, <2>2 DEF DelayInv
  <2>6. QED  BY <1>1, <2>3, <2>4, <2>5 DEF StoredInv, Timed
<1>6. QED  BY <1>2, <1>3, <1>4, <1>5 DEF HNext

(* SL, SD and DS store their action in their time, in every chart: a       *)
(* limited action is stored only within it, a delayed one just when its    *)
(* delay has run out.                                                      *)
THEOREM StoredActionsKeepTime == HSpec => []StoredInTime
<1>1. StoredAll => StoredInTime
  <2> SUFFICES ASSUME StoredAll, Scanned, NEW k \in 1 .. Len(Assocs), Sole(k), Assocs[k].time > 0
               PROVE  LET a == Assocs[k]
                      IN  /\ a.qual = "SL" /\ On(a) => act[a.step] # Never /\ act[a.step] < a.time
                          /\ delayed(a) => (On(a) <=> k \in due)
    BY DEF StoredInTime
  <2> DEFINE a == Assocs[k]
  <2>1. StoredInv(k) /\ phase = "idle"
    BY DEF StoredAll, Scanned
  <2>2. a.qual \in StoredQuals => Shows(k)
    BY <2>1 DEF StoredInv, Timed
  <2>3. a.qual \in StoredQuals => (On(a) <=> a.action \in stored)
    BY <2>2 DEF Shows, On
  <2> HIDE DEF a
  <2>4. ASSUME a.qual = "SL", On(a) PROVE act[a.step] # Never /\ act[a.step] < a.time
    <3>1. a.qual \in StoredQuals
      BY <2>4 DEF StoredQuals
    <3>2. LimitInv(k)
      BY <2>1, <2>4, <3>1 DEF StoredInv, Timed, a
    <3>3. Running(k)
      BY <2>1, <2>3, <2>4, <3>1, <3>2 DEF LimitInv, a
    <3>4. QED  BY <3>3 DEF Running, a
  <2>5. ASSUME delayed(a) PROVE On(a) <=> k \in due
    <3>1. a.qual \in StoredQuals /\ a.qual # "SL"
      BY <2>5 DEF StoredQuals, delayed
    <3>2. DelayInv(k)
      BY <2>1, <3>1 DEF StoredInv, Timed, a
    <3>3. k \in due <=> a.action \in stored
      BY <2>1, <3>2 DEF DelayInv, a
    <3>4. QED  BY <2>3, <3>1, <3>3
  <2>6. QED  BY <2>4, <2>5 DEF a
<1>2. HInit => StoredAll
  BY StoredInit DEF StoredAll
<1>3. QED  BY <1>1, <1>2, StoredStep, SyncInit, SyncStep, PTL DEF HSpec
=============================================================================
