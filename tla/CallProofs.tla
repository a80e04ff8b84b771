----------------------------- MODULE CallProofs -----------------------------
(***************************************************************************)
(* What is promised of one call of exec_stmts_low on a whole program, for  *)
(* every set of programs, every memory, every pool size and every gas.     *)
(***************************************************************************)
EXTENDS InterpCall, InterpProofs

(* What the call should compute.                                           *)
Result(c, p) == Pure!exec_stmts(c, 0, Len(c), p, Gas)

(* The inductive invariant: every pending call has its precondition, lies  *)
(* in its caller's block, does its part of what the semantics computes and *)
(* fits into what the bound leaves.                                        *)
CInv ==
    /\ IInv /\ pool0 \in Pools /\ code \in Programs
    /\ WellFormed(code) => Nested(stack)
    /\ Meaningful(code) => Meaning(code, stack, pool, Result(code, pool0))
    /\ Paid(code, stack, spent, Bound(code, Gas, 0, Len(code)))

LEMMA InitCalled == Init => CInv
<1> SUFFICES ASSUME Init PROVE CInv
  OBVIOUS
<1>1. /\ code \in Programs /\ code \in Seq(Cells) /\ Len(code) \in Nat /\ pool \in Pools /\ pool0 = pool
      /\ stack = <<Stmts(0, Len(code), Gas)>> /\ spent = 0 /\ 0 + Len(code) <= Len(code) /\ 0 \in Nat
  BY CallAssumption DEF Init
<1>2. IInv
  <2>1. StackGood(code, stack)
    BY <1>1, StartGood
  <2>2. QED  BY <1>1, <2>1 DEF IInv
<1>3. Nested(stack)
  BY <1>1 DEF Nested
<1>4. Meaningful(code) => Meaning(code, stack, pool, Result(code, pool0))
  BY <1>1, StartMeans DEF Result
<1>5. Paid(code, stack, spent, Bound(code, Gas, 0, Len(code)))
  BY <1>1, StartPays
<1>6. QED  BY <1>1, <1>2, <1>3, <1>4, <1>5 DEF CInv

LEMMA CodeStays == ASSUME Step PROVE code' = code
BY DEF Step, exec_stmts_return, exec_leaf, exec_if_block, exec_for_block,
       exec_for_return, exec_for_body, exec_for_next

LEMMA StepCalled == ASSUME CInv, [Next]_vars PROVE CInv'
<1>1. CASE UNCHANGED vars
  <2>1. /\ code' = code /\ pool' = pool /\ stack' = stack /\ spent' = spent /\ pool0' = pool0
    BY <1>1 DEF vars
  <2>2. QED  BY <2>1 DEF CInv, IInv
<1>2. CASE Step /\ pool0' = pool0
  <2>1. code' = code
    BY <1>2, CodeStays
  <2>2. IInv'
    BY <1>2, StepKeeps DEF CInv
  <2>3. ASSUME WellFormed(code) PROVE Nested(stack')
    <3>1. NInv
      BY <2>3 DEF CInv, NInv
    <3>2. QED  BY <1>2, <3>1, StepNests
  <2>4. ASSUME Meaningful(code) PROVE Meaning(code, stack', pool', Result(code, pool0))
    <3>1. MInv(Result(code, pool0))
      BY <2>4 DEF CInv, MInv
    <3>2. QED  BY <1>2, <3>1, StepMeans
  <2>5. Paid(code, stack', spent', Bound(code, Gas, 0, Len(code)))
    <3>1. PInv(Bound(code, Gas, 0, Len(code)))
      BY DEF CInv, PInv
    <3>2. QED  BY <1>2, <3>1, StepPays
  <2>6. QED  BY <1>2, <2>1, <2>2, <2>3, <2>4, <2>5 DEF CInv
<1>3. QED  BY <1>1, <1>2 DEF Next, Returned

LEMMA AlwaysCalled == Spec => []CInv
BY InitCalled, StepCalled, PTL DEF Spec

-----------------------------------------------------------------------------
(* Type correctness of the machine of exec_stmts_low: every INT slot keeps *)
(* a word whatever the arithmetic of the program, and a loop frame inside  *)
(* its body has an iteration and gas left to give back.                    *)
THEOREM InterpTypes == Spec => []TypeOK
<1>1. CInv => TypeOK
  BY DEF CInv, IInv, StackGood, Good, TypeOK
<1>2. QED  BY <1>1, AlwaysCalled, PTL

(* No call reads past the end of code: off + rem <= code_len holds of      *)
(* every pending call, for every program, whatever lengths its cells       *)
(* carry: the interpreter's own checks are enough without the validator's. *)
THEOREM ReadsStayInCode == Spec => []FramesInCode
<1>1. CInv => FramesInCode
  BY DEF CInv, IInv, StackGood, Good, FramesInCode
<1>2. QED  BY <1>1, AlwaysCalled, PTL

(* In a program whose block lengths add up, as the validator demands, a    *)
(* body never runs past the end of its block: after a nested block the     *)
(* interpreter resumes exactly the statements that follow it.              *)
THEOREM BodiesStayInBlocks == Spec => []BlocksNest
<1>1. CInv => BlocksNest
  BY DEF CInv, Nested, Holds, BlocksNest
<1>2. QED  BY <1>1, AlwaysCalled, PTL

(* Whatever a pending call of the interpreter reads lies in the code and,  *)
(* in a program the validator accepts, in the block it runs.               *)
THEOREM ReadsStayInPlace == Spec => []FramesNest
BY ReadsStayInCode, BodiesStayInBlocks, PTL DEF FramesNest

(* When the call of exec_stmts_low on a program that the validator accepts *)
(* and that stays in its pools returns, the pool is what the pure          *)
(* semantics computes from the pool it was given.                          *)
THEOREM MachineMeetsSemantics == Spec => []MatchesSpec
<1>1. CInv => MatchesSpec
  <2> SUFFICES ASSUME CInv, Meaningful(code), stack = <<>> PROVE pool = Result(code, pool0)
    BY DEF MatchesSpec, Result
  <2>1. Meaning(code, stack, pool, Result(code, pool0))
    BY DEF CInv
  <2>2. QED  BY <2>1, ReturnMeans
<1>2. QED  BY <1>1, AlwaysCalled, PTL

(* At no moment of a scan have more cycles been spent than the bound that  *)
(* wcet_stmts computes for the program, well formed or not, provided a     *)
(* uint32_t holds that bound: it wraps around if not.                      *)
THEOREM CyclesStayWithinWcet ==
    ASSUME \A c \in Programs : ExactWcet(c, 0, Len(c)) < WordMod
    PROVE  Spec => []CostWithinWcet
<1>1. CInv => CostWithinWcet
  <2> SUFFICES ASSUME CInv PROVE spent <= wcet_stmts(code, 0, Len(code))
    BY DEF CostWithinWcet
  <2>1. IInv /\ code \in Programs /\ Paid(code, stack, spent, Bound(code, Gas, 0, Len(code)))
    BY DEF CInv
  <2>2. spent <= Bound(code, Gas, 0, Len(code))
    BY <2>1, PaidWithin
  <2>3. code \in Seq(Cells) /\ Len(code) \in Nat /\ 0 \in Nat /\ ExactWcet(code, 0, Len(code)) < WordMod
    BY <2>1, CallAssumption
  <2>4. wcet_stmts(code, 0, Len(code)) = Bound(code, Gas, 0, Len(code))
    BY <2>3, WordHoldsBound
  <2>5. QED  BY <2>2, <2>4
<1>2. QED  BY <1>1, AlwaysCalled, PTL
=============================================================================
