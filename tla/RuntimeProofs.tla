--------------------------- MODULE RuntimeProofs ---------------------------
(***************************************************************************)
(* What a host may rely on, for every set of images, every cost table and  *)
(* every pool: what a load does to the pool, and, if the host scans only   *)
(* after a load that returned LOWPLC_OK, what its scans run and spend.     *)
(***************************************************************************)
EXTENDS Runtime, InterpProofs

(* What the init section and the body of the image in place should do.     *)
Initial(t) == Pure!exec_stmts(CodeOf(t), 0, Len(t.init), ZeroPool, Gas)
BodyBound(t) == Bound(CodeOf(t), Gas, Len(t.init), Len(t.body))

(* While no call is pending there is nothing to say of the stack; the call *)
(* of a load works its way to the initial pool, the call of a scan its way *)
(* through the bound of the body.                                          *)
RInv ==
    /\ IInv /\ TypeOK
    /\ mode = "init" => /\ image \in Images /\ image.valid
                        /\ Meaningful(code) => Meaning(code, stack, pool, Initial(image))
    /\ mode = "scan" => Paid(code, stack, spent, BodyBound(image))
    /\ budget = 0 \/ BodyWcet(accepted) <= budget

LEMMA ZeroIsAPool == ZeroPool \in Pools
BY WordFacts DEF ZeroPool, Pools

(* The two sections of an image.                                           *)
LEMMA Sections ==
    ASSUME NEW t \in Images \cup {NoImage}
    PROVE  /\ CodeOf(t) \in Seq(Cells) /\ Len(t.init) \in Nat /\ Len(t.body) \in Nat
           /\ 0 + Len(t.init) <= Len(CodeOf(t)) /\ Len(t.init) + Len(t.body) <= Len(CodeOf(t))
<1>1. t.init \in Seq(Cells) /\ t.body \in Seq(Cells)
  <2>1. CASE t \in Images
    BY <2>1, RuntimeAssumption
  <2>2. CASE t = NoImage
    <3>1. t.init = <<>> /\ t.body = <<>> /\ <<>> \in Seq(Cells)
      BY <2>2 DEF NoImage
    <3>2. QED  BY <3>1
  <2>3. QED  BY <2>1, <2>2
<1>2. \A x, y \in Seq(Cells) : x \o y \in Seq(Cells) /\ Len(x \o y) = Len(x) + Len(y) /\ Len(x) \in Nat
  OBVIOUS
<1>3. CodeOf(t) \in Seq(Cells) /\ Len(CodeOf(t)) = Len(t.init) + Len(t.body)
      /\ Len(t.init) \in Nat /\ Len(t.body) \in Nat
  BY <1>1, <1>2 DEF CodeOf
<1>4. \A a, b \in Nat : 0 + a <= a + b /\ a + b <= a + b
  OBVIOUS
<1>5. QED  BY <1>3, <1>4

LEMMA IdleStack == ASSUME code \in Seq(Cells), stack = <<>> PROVE StackGood(code, stack)
BY DEF StackGood

LEMMA InitRuns == Init => RInv
<1> SUFFICES ASSUME Init PROVE RInv
  OBVIOUS
<1>1. code = <<>> /\ code \in Seq(Cells) /\ stack = <<>> /\ pool \in Pools /\ spent = 0
  BY ZeroIsAPool DEF Init
<1>2. IInv
  BY <1>1, IdleStack DEF IInv
<1>3. code = CodeOf(image)
  BY DEF Init, CodeOf, NoImage
<1>4. TypeOK
  BY <1>1, <1>3 DEF TypeOK, Init
<1>5. QED  BY <1>2, <1>4 DEF RInv, Init

-----------------------------------------------------------------------------
(* One lemma for each action.                                              *)
LEMMA LoadRefused ==
    ASSUME RInv, NEW t \in Images, NEW us, load_refused(t, us) PROVE RInv'
<1>1. /\ mode = "idle" /\ UNCHANGED <<code, pool, stack, spent, image, mode, accepted, budget>>
      /\ err' = LoadError(t, us) /\ LoadError(t, us) # "none"
  BY DEF load_refused, Idle
<1>2. err' \in Errors
  BY <1>1 DEF LoadError, Errors
<1>3. TypeOK'
  BY <1>1, <1>2 DEF RInv, TypeOK
<1>4. IInv'
  BY <1>1 DEF RInv, IInv
<1>5. budget' = 0 \/ BodyWcet(accepted') <= budget'
  BY <1>1 DEF RInv
<1>6. QED  BY <1>1, <1>3, <1>4, <1>5 DEF RInv

LEMMA LoadOverBudget ==
    ASSUME RInv, NEW t \in Images, NEW us, NEW cycles, load_over_budget(t, us, cycles) PROVE RInv'
<1>1. /\ mode = "idle" /\ UNCHANGED <<pool, stack, spent, mode, accepted, budget>>
      /\ err' = "ERR_WCET" /\ image' = t /\ code' = CodeOf(t)
  BY DEF load_over_budget, Idle
<1>2. stack = <<>> /\ stack' = <<>> /\ pool \in Pools /\ spent \in Nat
  BY <1>1 DEF RInv, TypeOK, IInv
<1>3. code' \in Seq(Cells)
  BY <1>1, Sections
<1>4. IInv'
  BY <1>1, <1>2, <1>3 DEF IInv, StackGood
<1>5. TypeOK'
  BY <1>1, <1>2 DEF RInv, TypeOK, Errors
<1>6. budget' = 0 \/ BodyWcet(accepted') <= budget'
  BY <1>1 DEF RInv
<1>7. QED  BY <1>1, <1>4, <1>5, <1>6 DEF RInv

LEMMA LoadInit ==
    ASSUME RInv, NEW t \in Images, NEW us, NEW cycles \in Budgets, load_init(t, us, cycles) PROVE RInv'
<1>1. /\ image' = t /\ code' = CodeOf(t) /\ pool' = ZeroPool /\ stack' = <<Stmts(0, Len(t.init), Gas)>>
      /\ spent' = 0 /\ mode' = "init" /\ accepted' = t /\ budget' = cycles /\ err' = err
      /\ LoadError(t, us) = "none" /\ WithinBudget(t, cycles)
  BY DEF load_init, init_pool_from_header
<1>2. t.valid
  BY <1>1 DEF LoadError
<1>3. /\ code' \in Seq(Cells) /\ Len(t.init) \in Nat /\ 0 + Len(t.init) <= Len(code') /\ 0 \in Nat
      /\ pool' \in Pools
  BY <1>1, Sections, ZeroIsAPool
<1>4. IInv'
  <2>1. StackGood(code', stack')
    BY <1>1, <1>3, StartGood
  <2>2. QED  BY <1>1, <1>3, <2>1 DEF IInv
<1>5. Meaningful(code') => Meaning(code', stack', pool', Initial(t))
  BY <1>1, <1>3, StartMeans DEF Initial
<1>6. TypeOK'
  BY <1>1, <1>3 DEF RInv, TypeOK
<1>7. budget' = 0 \/ BodyWcet(accepted') <= budget'
  BY <1>1 DEF WithinBudget
<1>8. QED  BY <1>1, <1>2, <1>4, <1>5, <1>6, <1>7 DEF RInv

LEMMA LoadOk == ASSUME RInv, load_ok PROVE RInv'
<1>1. /\ mode' = "idle" /\ err' = "OK" /\ stack = <<>>
      /\ UNCHANGED <<code, pool, stack, spent, image, accepted, budget>>
  BY DEF load_ok
<1>2. IInv'
  BY <1>1 DEF RInv, IInv
<1>3. TypeOK'
  BY <1>1 DEF RInv, TypeOK
<1>4. budget' = 0 \/ BodyWcet(accepted') <= budget'
  BY <1>1 DEF RInv
<1>5. QED  BY <1>1, <1>2, <1>3, <1>4 DEF RInv

LEMMA ScanStarts == ASSUME RInv, exec_scan PROVE RInv'
<1>1. /\ mode' = "scan" /\ stack' = <<Stmts(Len(image.init), Len(image.body), Gas)>> /\ spent' = 0
      /\ UNCHANGED <<code, pool, image, err, accepted, budget>>
  BY DEF exec_scan
<1>2. image \in Images \cup {NoImage} /\ code = CodeOf(image) /\ pool \in Pools
  BY DEF RInv, TypeOK
<1>3. /\ code \in Seq(Cells) /\ Len(image.init) \in Nat /\ Len(image.body) \in Nat
      /\ Len(image.init) + Len(image.body) <= Len(code)
  BY <1>2, Sections
<1>4. IInv'
  <2>1. StackGood(code, stack')
    BY <1>1, <1>3, StartGood
  <2>2. QED  BY <1>1, <1>2, <1>3, <2>1 DEF IInv
<1>5. Paid(code, stack', 0, BodyBound(image))
  BY <1>1, <1>2, <1>3, StartPays DEF BodyBound
<1>6. TypeOK'
  BY <1>1 DEF RInv, TypeOK
<1>7. budget' = 0 \/ BodyWcet(accepted') <= budget'
  BY <1>1 DEF RInv
<1>8. QED  BY <1>1, <1>2, <1>4, <1>5, <1>6, <1>7 DEF RInv

LEMMA ScanReturns == ASSUME RInv, exec_scan_return PROVE RInv'
<1>1. /\ mode' = "idle" /\ stack = <<>>
      /\ UNCHANGED <<code, pool, stack, spent, image, err, accepted, budget>>
  BY DEF exec_scan_return
<1>2. IInv'
  BY <1>1 DEF RInv, IInv
<1>3. TypeOK'
  BY <1>1 DEF RInv, TypeOK
<1>4. budget' = 0 \/ BodyWcet(accepted') <= budget'
  BY <1>1 DEF RInv
<1>5. QED  BY <1>1, <1>2, <1>3, <1>4 DEF RInv

LEMMA InputSet ==
    ASSUME RInv, NEW idx \in BoolSlots, NEW val \in BOOLEAN, set_bool(idx, val) PROVE RInv'
<1>1. /\ mode = "idle" /\ pool' = [pool EXCEPT !.bools[idx] = val]
      /\ UNCHANGED <<code, stack, spent, image, mode, err, accepted, budget>>
  BY DEF set_bool, Idle
<1>2. pool' \in Pools
  BY <1>1, WriteBool DEF RInv, TypeOK
<1>3. IInv'
  BY <1>1, <1>2 DEF RInv, IInv
<1>4. TypeOK'
  BY <1>1, <1>2 DEF RInv, TypeOK
<1>5. budget' = 0 \/ BodyWcet(accepted') <= budget'
  BY <1>1 DEF RInv
<1>6. QED  BY <1>1, <1>3, <1>4, <1>5 DEF RInv

LEMMA CodeStays == ASSUME Step PROVE code' = code
BY DEF Step, exec_stmts_return, exec_leaf, exec_if_block, exec_for_block,
       exec_for_return, exec_for_body, exec_for_next

LEMMA Interprets == ASSUME RInv, interpret PROVE RInv'
<1>1. Step /\ code' = code /\ UNCHANGED <<image, mode, err, accepted, budget>>
  BY CodeStays DEF interpret
<1>2. IInv'
  BY <1>1, StepKeeps DEF RInv
<1>3. ASSUME mode = "init", Meaningful(code) PROVE Meaning(code, stack', pool', Initial(image))
  <2>1. MInv(Initial(image))
    BY <1>3 DEF RInv, MInv
  <2>2. QED  BY <1>1, <2>1, StepMeans
<1>4. ASSUME mode = "scan" PROVE Paid(code, stack', spent', BodyBound(image))
  <2>1. PInv(BodyBound(image))
    BY <1>4 DEF RInv, PInv
  <2>2. QED  BY <1>1, <2>1, StepPays
<1>5. mode # "idle"
  <2>1. stack # <<>>
    BY <1>1 DEF Step, exec_stmts_return, exec_leaf, exec_if_block, exec_for_block,
                exec_for_return, exec_for_body, exec_for_next, Running
  <2>2. QED  BY <2>1 DEF RInv, TypeOK
<1>6. TypeOK'
  <2>1. pool' \in Pools
    BY <1>2 DEF IInv
  <2>2. QED  BY <1>1, <1>5, <2>1 DEF RInv, TypeOK
<1>7. budget' = 0 \/ BodyWcet(accepted') <= budget'
  BY <1>1 DEF RInv
<1>8. QED  BY <1>1, <1>2, <1>3, <1>4, <1>6, <1>7 DEF RInv

LEMMA StepRuns == ASSUME RInv, [Next]_runtime_vars PROVE RInv'
<1>1. CASE load_program
  <2>1. PICK t \in Images, us \in {0, 1}, cycles \in Budgets :
            load_refused(t, us) \/ load_over_budget(t, us, cycles) \/ load_init(t, us, cycles)
    BY <1>1 DEF load_program
  <2>2. QED  BY <2>1, LoadRefused, LoadOverBudget, LoadInit
<1>2. CASE UNCHANGED runtime_vars
  <2>1. UNCHANGED <<code, pool, stack, spent, image, mode, err, accepted, budget>>
    BY <1>2 DEF runtime_vars
  <2>2. IInv' /\ TypeOK'
    BY <2>1 DEF RInv, IInv, TypeOK
  <2>3. budget' = 0 \/ BodyWcet(accepted') <= budget'
    BY <2>1 DEF RInv
  <2>4. QED  BY <2>1, <2>2, <2>3 DEF RInv
<1>3. CASE \E idx \in BoolSlots, val \in BOOLEAN : set_bool(idx, val)
  BY <1>3, InputSet
<1>4. QED  BY <1>1, <1>2, <1>3, LoadOk, ScanStarts, ScanReturns, Interprets DEF Next

LEMMA AlwaysRuns == Spec => []RInv
BY InitRuns, StepRuns, PTL DEF Spec

-----------------------------------------------------------------------------
(* Type correctness of the firmware's state: whatever is loaded, written   *)
(* and scanned in whatever order, the pool keeps its words.                *)
THEOREM RuntimeTypes == Spec => []TypeOK
<1>1. RInv => TypeOK
  BY DEF RInv
<1>2. QED  BY <1>1, AlwaysRuns, PTL

(* However often the host has loaded and scanned before: at the end of a   *)
(* load the pool is what the semantics of the init section makes of a pool *)
(* of zeros, if the images that the validator accepts stay in their pools, *)
(* as those of the compiler do.                                            *)
THEOREM LoadsStartFromZero ==
    ASSUME \A t \in Images : t.valid => Meaningful(CodeOf(t))
    PROVE  Spec => []InitFromZero
<1>1. RInv => InitFromZero
  <2> SUFFICES ASSUME RInv, mode = "init", stack = <<>> PROVE pool = Initial(image)
    BY DEF InitFromZero, Initial, RInv, TypeOK
  <2>1. Meaningful(code)
    BY DEF RInv, TypeOK
  <2>2. Meaning(code, stack, pool, Initial(image))
    BY <2>1 DEF RInv
  <2>3. QED  BY <2>2, ReturnMeans
<1>2. QED  BY <1>1, AlwaysRuns, PTL

-----------------------------------------------------------------------------
(* OnlyAcceptedRuns is not inductive: whether a scan may start is decided  *)
(* on the result of the last load, which must therefore say that the image *)
(* in place is the accepted one, and so must the load in progress.         *)
Settled == mode # "idle" \/ err = "OK" => image = accepted /\ accepted # NoImage

LEMMA InitSettled == Init => Settled
BY DEF Init, Settled

LEMMA StartedImage ==
    ASSUME NEW t, NEW us, LoadError(t, us) = "none" PROVE t # NoImage
BY DEF LoadError, NoImage

LEMMA RefusedIsAnError ==
    ASSUME NEW t, NEW us, LoadError(t, us) # "none" PROVE LoadError(t, us) # "OK"
BY DEF LoadError

LEMMA StepSettled ==
    ASSUME Host = "each", Settled, [Next]_runtime_vars PROVE Settled'
<1>1. CASE load_program
  <2>1. PICK t \in Images, us \in {0, 1}, cycles \in Budgets :
            load_refused(t, us) \/ load_over_budget(t, us, cycles) \/ load_init(t, us, cycles)
    BY <1>1 DEF load_program
  <2>2. CASE load_refused(t, us)
    BY <2>2, RefusedIsAnError DEF load_refused, Idle, Settled
  <2>3. CASE load_over_budget(t, us, cycles)
    BY <2>3 DEF load_over_budget, Idle, Settled
  <2>4. CASE load_init(t, us, cycles)
    BY <2>4, StartedImage DEF load_init, Settled
  <2>5. QED  BY <2>1, <2>2, <2>3, <2>4
<1>2. CASE load_ok
  BY <1>2 DEF load_ok, Settled
<1>3. CASE exec_scan
  BY <1>3 DEF exec_scan, MayScan, Settled
<1>4. CASE exec_scan_return
  BY <1>4 DEF exec_scan_return, Settled
<1>5. CASE interpret
  BY <1>5 DEF interpret, Settled
<1>6. CASE \E idx \in BoolSlots, val \in BOOLEAN : set_bool(idx, val)
  BY <1>6 DEF set_bool, Settled
<1>7. CASE UNCHANGED runtime_vars
  BY <1>7 DEF runtime_vars, Settled
<1>8. QED  BY <1>1, <1>2, <1>3, <1>4, <1>5, <1>6, <1>7 DEF Next

(* With a host that checks the result as main_bringup.c does, no scan runs *)
(* a program that the load did not accept.                                 *)
THEOREM OnlyAcceptedProgramsRun ==
    ASSUME Host = "each" PROVE Spec => []OnlyAcceptedRuns
<1>1. Settled /\ [Next]_runtime_vars => Settled'
  BY StepSettled
<1>2. Settled => OnlyAcceptedRuns
  BY DEF Settled, OnlyAcceptedRuns
<1>3. QED  BY InitSettled, <1>1, <1>2, PTL DEF Spec

(* Each scan spends no more than the scan_period_cycles its program was    *)
(* loaded with: the bound of the load covers the body that runs, over      *)
(* whatever inputs and memories, as long as a uint32_t holds it and the    *)
(* host heeds the result of the load.                                      *)
THEOREM ScansMeetBudget ==
    ASSUME Host = "each",
           \A t \in Images : ExactWcet(CodeOf(t), Len(t.init), Len(t.body)) < WordMod
    PROVE  Spec => []ScanMeetsBudget
<1>1. Settled /\ [Next]_runtime_vars => Settled'
  BY StepSettled
<1>2. RInv /\ Settled => ScanMeetsBudget
  <2> SUFFICES ASSUME RInv, Settled, mode = "scan", budget # 0 PROVE spent <= budget
    BY DEF ScanMeetsBudget
  <2>1. image = accepted /\ image \in Images
    BY DEF Settled, RInv, TypeOK
  <2>2. /\ CodeOf(image) \in Seq(Cells) /\ Len(image.init) \in Nat /\ Len(image.body) \in Nat
        /\ ExactWcet(CodeOf(image), Len(image.init), Len(image.body)) < WordMod
    BY <2>1, Sections
  <2>3. BodyWcet(image) = BodyBound(image)
    BY <2>2, WordHoldsBound DEF BodyWcet, BodyBound
  <2>4. spent <= BodyBound(image)
    BY PaidWithin DEF RInv
  <2>5. BodyBound(image) <= budget
    BY <2>1, <2>3 DEF RInv
  <2>6. spent \in Nat /\ BodyBound(image) \in Nat /\ budget \in Nat
    <3>1. Gas \in 0 .. Gas
      BY InterpAssumption
    <3>2. BodyBound(image) \in Nat
      BY <2>2, <3>1, BoundType DEF BodyBound
    <3>3. budget \in Nat
      BY RuntimeAssumption DEF RInv, TypeOK
    <3>4. QED  BY <3>2, <3>3 DEF RInv, IInv
  <2>7. QED  BY <2>4, <2>5, <2>6
<1>3. QED  BY InitSettled, <1>1, <1>2, AlwaysRuns, PTL DEF Spec
=============================================================================
