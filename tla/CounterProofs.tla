--------------------------- MODULE CounterProofs ---------------------------
(***************************************************************************)
(* Theorems of the counters, for every width of INT and every set of       *)
(* presets: the sums they compute never leave INT, because each is guarded *)
(* by a comparison with PV or with 0, so the cast never wraps.             *)
(***************************************************************************)
EXTENDS MCCounters, FiniteSetTheorems, TLAPS

LEMMA Int16Facts ==
    /\ \A n \in Int16 : n \in Int /\ IntMin <= n /\ n <= IntMax
    /\ \A n \in Int : IntMin <= n /\ n <= IntMax => n \in Int16
    /\ 0 \in Int16 /\ IntMax \in Int /\ IntMin \in Int
BY WordAssumption, CounterAssumption DEF Int16, IntMin

(* Adding one below a preset, and subtracting one above 0, stay in INT.    *)
LEMMA GuardedSums ==
    /\ \A n, p \in Int16 : n < p => add_wrap(n, 1) = n + 1 /\ n + 1 \in Int16
    /\ \A n \in Int16 : n > 0 => sub_wrap(n, 1) = n - 1 /\ n - 1 \in Int16
<1>1. ASSUME NEW n \in Int16, NEW p \in Int16, n < p
      PROVE  add_wrap(n, 1) = n + 1 /\ n + 1 \in Int16
  <2>1. n + 1 \in Int16
    BY <1>1, Int16Facts
  <2>2. QED  BY <2>1 DEF add_wrap, wrap_i16
<1>2. ASSUME NEW n \in Int16, n > 0
      PROVE  sub_wrap(n, 1) = n - 1 /\ n - 1 \in Int16
  <2>1. n - 1 \in Int16
    BY <1>2, Int16Facts, WordAssumption, CounterAssumption DEF IntMin
  <2>2. QED  BY <2>1 DEF sub_wrap, wrap_i16
<1>3. QED  BY <1>1, <1>2

(* One call of each counter: where CV may go.                              *)
LEMMA CtuMoves ==
    ASSUME NEW s, s.cv \in Int16, NEW i \in Inputs
    PROVE  /\ CtuNext(s, i) \in Int16
           /\ CtuNext(s, i) \in {s.cv, s.cv + 1, 0}
<1>1. i.pv \in Int16
  BY WordAssumption, CounterAssumption DEF Inputs
<1>2. QED  BY <1>1, GuardedSums, Int16Facts DEF CtuNext

LEMMA CtdMoves ==
    ASSUME NEW s, s.cv \in Int16, NEW i \in Inputs
    PROVE  /\ CtdNext(s, i) \in Int16
           /\ i.ld \/ CtdNext(s, i) \in {s.cv, s.cv - 1}
<1>1. i.pv \in Int16
  BY WordAssumption, CounterAssumption DEF Inputs
<1>2. QED  BY <1>1, GuardedSums, Int16Facts DEF CtdNext

LEMMA CtudMoves ==
    ASSUME NEW s, s.cv \in Int16, NEW i \in Inputs
    PROVE  /\ CtudNext(s, i) \in Int16
           /\ i.r \/ i.ld \/ CtudNext(s, i) \in {s.cv - 1, s.cv, s.cv + 1}
<1> DEFINE v1 == IF CuRises(s, i) /\ s.cv < i.pv THEN add_wrap(s.cv, 1) ELSE s.cv
<1>1. i.pv \in Int16 /\ 0 \in Int16
  BY WordAssumption, CounterAssumption, Int16Facts DEF Inputs
<1>2. v1 \in Int16 /\ (v1 = s.cv \/ (v1 = s.cv + 1 /\ CuRises(s, i)))
  BY <1>1, GuardedSums
<1>3. CtudNext(s, i) = IF i.r THEN 0
                       ELSE IF i.ld THEN i.pv
                       ELSE IF CuRises(s, i) /\ CdRises(s, i) THEN s.cv
                       ELSE IF CdRises(s, i) /\ v1 > 0 THEN sub_wrap(v1, 1) ELSE v1
  BY DEF CtudNext
<1> HIDE DEF v1
<1>4. CASE i.r \/ i.ld \/ (CuRises(s, i) /\ CdRises(s, i))
  BY <1>1, <1>3, <1>4
<1>5. CASE ~(i.r \/ i.ld \/ (CuRises(s, i) /\ CdRises(s, i))) /\ CdRises(s, i) /\ v1 > 0
  <2>1. v1 = s.cv
    BY <1>2, <1>5
  <2>2. QED  BY <1>3, <1>5, <2>1, GuardedSums
<1>6. CASE ~(i.r \/ i.ld \/ (CuRises(s, i) /\ CdRises(s, i))) /\ ~(CdRises(s, i) /\ v1 > 0)
  BY <1>2, <1>3, <1>6
<1>7. QED  BY <1>4, <1>5, <1>6

-----------------------------------------------------------------------------
LEMMA InputBooleans ==
    ASSUME NEW i \in Inputs
    PROVE  i.cu \in BOOLEAN /\ i.cd \in BOOLEAN /\ i.r \in BOOLEAN /\ i.ld \in BOOLEAN
BY DEF Inputs

LEMMA TypeStep == TypeOK /\ [Next]_vars => TypeOK'
<1> SUFFICES ASSUME TypeOK, [Next]_vars PROVE TypeOK'
  OBVIOUS
<1>1. CASE UNCHANGED vars
  BY <1>1 DEF TypeOK, vars
<1>2. ASSUME NEW i \in Inputs, Scan(i) PROVE TypeOK'
  <2>1. ctu.cv \in Int16 /\ ctd.cv \in Int16 /\ ctud.cv \in Int16
    BY DEF TypeOK
  <2>2. CtuNext(ctu, i) \in Int16 /\ CtdNext(ctd, i) \in Int16 /\ CtudNext(ctud, i) \in Int16
    BY <2>1, CtuMoves, CtdMoves, CtudMoves
  <2>3. inp' \in Inputs
    BY <1>2 DEF Scan
  <2>4. ctu' \in [cv : Int16, prev_cu : BOOLEAN, q : BOOLEAN]
    BY <1>2, <2>2, InputBooleans DEF Scan, exec_ctu
  <2>5. ctd' \in [cv : Int16, prev_cd : BOOLEAN, q : BOOLEAN]
    BY <1>2, <2>2, InputBooleans DEF Scan, exec_ctd
  <2>6. ctud' \in [cv : Int16, prev_cu : BOOLEAN, prev_cd : BOOLEAN, qu : BOOLEAN, qd : BOOLEAN]
    BY <1>2, <2>2, InputBooleans DEF Scan, exec_ctud
  <2>7. rtrig' \in [m : BOOLEAN, q : BOOLEAN]
    BY <1>2, InputBooleans DEF Scan, exec_rtrig
  <2>8. ftrig' \in [m : BOOLEAN, q : BOOLEAN]
    BY <1>2, InputBooleans DEF Scan, exec_ftrig
  <2>9. sr' \in BOOLEAN
    BY <1>2, InputBooleans DEF Scan, exec_sr
  <2>10. rs' \in BOOLEAN
    BY <1>2, InputBooleans DEF Scan, exec_rs
  <2>11. QED
    BY <2>3, <2>4, <2>5, <2>6, <2>7, <2>8, <2>9, <2>10 DEF TypeOK
<1>3. QED  BY <1>1, <1>2 DEF Next

LEMMA TypeInit == Init => TypeOK
<1> SUFFICES ASSUME Init PROVE TypeOK
  OBVIOUS
<1>1. inp \in Inputs
  BY DEF Init, Inputs
<1>2. ctu \in [cv : Int16, prev_cu : BOOLEAN, q : BOOLEAN]
  BY Int16Facts DEF Init
<1>3. ctd \in [cv : Int16, prev_cd : BOOLEAN, q : BOOLEAN]
  BY Int16Facts DEF Init
<1>4. ctud \in [cv : Int16, prev_cu : BOOLEAN, prev_cd : BOOLEAN, qu : BOOLEAN, qd : BOOLEAN]
  BY Int16Facts DEF Init
<1>5. rtrig \in [m : BOOLEAN, q : BOOLEAN] /\ ftrig \in [m : BOOLEAN, q : BOOLEAN]
  BY DEF Init
<1>6. QED  BY <1>1, <1>2, <1>3, <1>4, <1>5 DEF Init, TypeOK

(* Every word the blocks store fits its slot.                              *)
THEOREM CounterTypes == Spec => []TypeOK
BY TypeInit, TypeStep, PTL DEF Spec

(* DDR-013 for every width of INT and every sequence of inputs and presets.*)
THEOREM CountersSaturate == Spec => CountersNeverWrap
<1> DEFINE Moves ==
      /\ ctu'.cv \in {ctu.cv, ctu.cv + 1} \/ ctu'.cv = 0
      /\ ctd'.cv \in {ctd.cv, ctd.cv - 1} \/ inp'.ld
      /\ ctud'.cv \in {ctud.cv - 1, ctud.cv, ctud.cv + 1} \/ inp'.r \/ inp'.ld
<1>1. TypeOK /\ [Next]_vars => [Moves]_vars
  <2> SUFFICES ASSUME TypeOK, NEW i \in Inputs, Scan(i) PROVE Moves
    BY DEF Next
  <2>1. ctu.cv \in Int16 /\ ctd.cv \in Int16 /\ ctud.cv \in Int16
    BY DEF TypeOK
  <2>2. /\ inp' = i
        /\ ctu'.cv = CtuNext(ctu, i)
        /\ ctd'.cv = CtdNext(ctd, i)
        /\ ctud'.cv = CtudNext(ctud, i)
    BY DEF Scan, exec_ctu, exec_ctd, exec_ctud
  <2>3. QED  BY <2>1, <2>2, CtuMoves, CtdMoves, CtudMoves
<1>2. QED  BY <1>1, TypeInit, TypeStep, PTL DEF Spec, CountersNeverWrap

(* A CTU's count stays non-negative: with CountersSaturate, it is never    *)
(* carried through the top of INT.                                         *)
THEOREM CtuStaysNonNegative == Spec => []CtuNonNegative
<1>1. Init => CtuNonNegative
  BY DEF Init, CtuNonNegative
<1>2. TypeOK /\ CtuNonNegative /\ [Next]_vars => CtuNonNegative'
  <2> SUFFICES ASSUME TypeOK, CtuNonNegative, [Next]_vars PROVE CtuNonNegative'
    OBVIOUS
  <2>1. CASE UNCHANGED vars
    BY <2>1 DEF CtuNonNegative, vars
  <2>2. ASSUME NEW i \in Inputs, Scan(i) PROVE CtuNonNegative'
    <3>1. ctu.cv \in Int16 /\ ctu.cv \in Int
      BY Int16Facts DEF TypeOK
    <3>2. ctu'.cv \in {ctu.cv, ctu.cv + 1, 0}
      BY <2>2, <3>1, CtuMoves DEF Scan, exec_ctu
    <3>3. QED  BY <3>1, <3>2 DEF CtuNonNegative
  <2>3. QED  BY <2>1, <2>2 DEF Next
<1>3. QED  BY <1>1, <1>2, TypeInit, TypeStep, PTL DEF Spec

-----------------------------------------------------------------------------
LEMMA CtudSame ==
    ASSUME NEW s, s.cv \in Int16, NEW i \in Inputs
    PROVE  CtudNext(s, i) =
             IF i.r THEN 0
             ELSE IF i.ld THEN i.pv
             ELSE IF CuRises(s, i) /\ CdRises(s, i) THEN s.cv
             ELSE IF CuRises(s, i) THEN IF s.cv < i.pv THEN s.cv + 1 ELSE s.cv
             ELSE IF CdRises(s, i) THEN IF s.cv > 0 THEN s.cv - 1 ELSE s.cv
             ELSE s.cv
<1>1. i.pv \in Int16
  BY WordAssumption, CounterAssumption DEF Inputs
<1>2. CASE CuRises(s, i)
  BY <1>1, <1>2, GuardedSums DEF CtudNext
<1>3. CASE ~CuRises(s, i)
  BY <1>1, <1>3, GuardedSums DEF CtudNext
<1>4. QED  BY <1>2, <1>3

(* The interpreter's counters, R_TRIG and latches implement the verified   *)
(* combinators, for every width of INT and every sequence of inputs.       *)
THEOREM CountersRefineCombinators == Spec => RefinesCombinators
<1>1. Init => Comb!Init
  BY DEF Init, Comb!Init, Inputs
<1>2. TypeOK /\ [Next]_vars => [Comb!Next]_Comb!vars
  <2> SUFFICES ASSUME TypeOK, [Next]_vars PROVE [Comb!Next]_Comb!vars
    OBVIOUS
  <2>1. CASE UNCHANGED vars
    BY <2>1 DEF vars, Comb!vars
  <2>2. ASSUME NEW i \in Inputs, Scan(i) PROVE Comb!Scan(i)
    <3>1. ctu.cv \in Int16 /\ ctd.cv \in Int16 /\ ctud.cv \in Int16 /\ i.pv \in Int16
      BY WordAssumption, CounterAssumption DEF TypeOK, Inputs
    <3>2. ctu' = Comb!ctu_step(ctu, i.cu, i.r, i.pv)
      BY <2>2, <3>1, GuardedSums DEF Scan, exec_ctu, CtuNext, Comb!ctu_step
    <3>3. ctd' = Comb!ctd_step(ctd, i.cd, i.ld, i.pv)
      BY <2>2, <3>1, GuardedSums DEF Scan, exec_ctd, CtdNext, Comb!ctd_step
    <3>4. ctud' = Comb!ctud_step(ctud, i.cu, i.cd, i.r, i.ld, i.pv)
      BY <2>2, <3>1, CtudSame DEF Scan, exec_ctud, CuRises, CdRises, Comb!ctud_step
    <3>5. rtrig' = Comb!r_trig_step(rtrig, i.cu)
      BY <2>2 DEF Scan, exec_rtrig, Comb!r_trig_step
    <3>6. sr' = Comb!sr_step(sr, i.cu, i.r) /\ rs' = Comb!rs_step(rs, i.cu, i.r)
      BY <2>2 DEF Scan, exec_sr, exec_rs, Comb!sr_step, Comb!rs_step
    <3>7. QED  BY <2>2, <3>2, <3>3, <3>4, <3>5, <3>6 DEF Scan, Comb!Scan
  <2>3. QED  BY <2>1, <2>2 DEF Next, Comb!Next
<1>3. QED  BY <1>1, <1>2, TypeInit, TypeStep, PTL DEF Spec, Comb!Spec, RefinesCombinators
-----------------------------------------------------------------------------
(* The first program of MCCounters: its calls, and what each block keeps   *)
(* of them.                                                                *)

Fresh(S) == {k \in S : CuRise(k) /\ ~CdRise(k)}
Spent(S) == {k \in S : CdRise(k) /\ ~CuRise(k)}
SinceReset == {k \in 1 .. N : \A j \in k .. N : ~calls[j].r}
RiseCalls == {k \in 1 .. N : CuRise(k) /\ \A j \in k .. N : ~calls[j].r}

CallsOK ==
    /\ TypeOK
    /\ calls \in Seq(Inputs)
    /\ \A k \in 1 .. N : calls[k].pv = inp.pv

(* The edge memories hold the inputs of the last call.                     *)
MemoriesAreLast ==
    /\ ctu.prev_cu <=> (N # 0 /\ calls[N].cu)
    /\ ctud.prev_cu <=> (N # 0 /\ calls[N].cu)
    /\ ctud.prev_cd <=> (N # 0 /\ calls[N].cd)
    /\ rtrig.m <=> (N # 0 /\ calls[N].cu)
    /\ ftrig.m <=> (N # 0 /\ calls[N].cu)

HInv == /\ literal \in BOOLEAN
        /\ TypeOK
        /\ literal => /\ CallsOK /\ MemoriesAreLast
                      /\ FTrigIsFall /\ LatchesKeepLastEvent
        /\ CtuCountsRises /\ CtudTracksEdges

LEMMA HInitGood == HInit => HInv
<1> SUFFICES ASSUME HInit PROVE HInv
  OBVIOUS
<1>1. Init /\ TypeOK /\ literal \in BOOLEAN /\ calls = <<>>
  BY TypeInit DEF HInit
<1>2. N = 0 /\ 1 .. N = {} /\ inp.pv \in Int
  BY <1>1, Int16Facts, CounterAssumption DEF N, TypeOK, Inputs
<1>3. CallsOK
  BY <1>1, <1>2 DEF CallsOK
<1>4. MemoriesAreLast /\ FTrigIsFall /\ LatchesKeepLastEvent
  <2>1. ~ctu.prev_cu /\ ~ctud.prev_cu /\ ~ctud.prev_cd /\ ~rtrig.m /\ ~ftrig.m /\ ~ftrig.q
    BY <1>1 DEF Init
  <2>2. ~sr /\ ~rs /\ ~(N > 1)
    BY <1>1, <1>2 DEF Init
  <2>3. QED  BY <1>2, <2>1, <2>2 DEF MemoriesAreLast, FTrigIsFall, LatchesKeepLastEvent
<1>5. ctu.cv = 0 /\ ctud.cv = 0
  BY <1>1 DEF Init
<1>6. CtuCountsRises
  <2>1. RisesSinceReset = 0
    BY <1>2, FS_EmptySet DEF RisesSinceReset
  <2>2. QED  BY <1>2, <1>5, <2>1 DEF CtuCountsRises, Min2
<1>7. CtudTracksEdges
  <2>1. SinceReset = {}
    BY <1>2 DEF SinceReset
  <2>2. Net({}) = 0 /\ NetDown({}) = 0
    BY FS_EmptySet DEF Net, NetDown
  <2>3. QED  BY <1>2, <1>5, <2>1, <2>2 DEF CtudTracksEdges, SinceReset, Min2
<1>8. QED  BY <1>1, <1>3, <1>4, <1>6, <1>7 DEF HInv

(* One more call: the calls before it are where they were.                 *)
LEMMA OneMoreCall ==
    ASSUME CallsOK, NEW i \in Inputs, calls' = Append(calls, i)
    PROVE  /\ N \in Nat /\ N' = N + 1
           /\ calls' \in Seq(Inputs)
           /\ calls'[N + 1] = i
           /\ \A k \in 1 .. N : calls'[k] = calls[k] /\ calls[k] \in Inputs
<1>1. calls \in Seq(Inputs)
  BY DEF CallsOK
<1>2. QED  BY <1>1 DEF N

(* Which of the calls rise, with one more of them.                         *)
LEMMA RisesStay ==
    ASSUME CallsOK, MemoriesAreLast, NEW i \in Inputs, calls' = Append(calls, i)
    PROVE  /\ \A k \in 1 .. N : (CuRise(k)' <=> CuRise(k)) /\ (CdRise(k)' <=> CdRise(k))
           /\ \A n \in Nat : n = N + 1 =>
                /\ CuRise(n)' <=> CuRises(ctu, i)
                /\ CuRise(n)' <=> CuRises(ctud, i)
                /\ CdRise(n)' <=> CdRises(ctud, i)
<1>1. \A k \in 1 .. N : (CuRise(k)' <=> CuRise(k)) /\ (CdRise(k)' <=> CdRise(k))
  <2> SUFFICES ASSUME NEW k \in 1 .. N
               PROVE  (CuRise(k)' <=> CuRise(k)) /\ (CdRise(k)' <=> CdRise(k))
    OBVIOUS
  <2>1. calls'[k] = calls[k] /\ N \in Nat
    BY OneMoreCall
  <2>2. k = 1 \/ k - 1 \in 1 .. N
    BY <2>1
  <2>3. k = 1 \/ calls'[k - 1] = calls[k - 1]
    BY <2>2, OneMoreCall
  <2>4. QED  BY <2>1, <2>3 DEF CuRise, CdRise
<1>2. N \in Nat /\ calls'[N + 1] = i
  BY OneMoreCall
<1>3. N + 1 - 1 = N /\ (N + 1 = 1 <=> N = 0) /\ (N # 0 => N \in 1 .. N)
  BY <1>2
<1>4. N # 0 => calls'[N + 1 - 1] = calls[N]
  BY <1>3, OneMoreCall
<1>5. \A n \in Nat : n = N + 1 => (CuRise(n)' <=> i.cu /\ (N = 0 \/ ~calls[N].cu))
  <2>1. \A n : CuRise(n)' <=> calls'[n].cu /\ (n = 1 \/ ~calls'[n - 1].cu)
    BY DEF CuRise
  <2>2. SUFFICES ASSUME NEW n \in Nat, n = N + 1
                PROVE  CuRise(n)' <=> i.cu /\ (N = 0 \/ ~calls[N].cu)
    OBVIOUS
  <2>3. calls'[n] = i
    BY <1>2, <2>2
  <2>4. (n = 1 <=> N = 0) /\ n - 1 = N
    <3>1. N \in Nat
      BY <1>2
    <3>2. QED  BY <2>2, <3>1
  <2>5. N # 0 => calls'[n - 1] = calls[N]
    BY <1>3, <1>4, <2>4
  <2>6. QED  BY <2>1, <2>3, <2>4, <2>5
<1>6. \A n \in Nat : n = N + 1 => (CdRise(n)' <=> i.cd /\ (N = 0 \/ ~calls[N].cd))
  <2>1. \A n : CdRise(n)' <=> calls'[n].cd /\ (n = 1 \/ ~calls'[n - 1].cd)
    BY DEF CdRise
  <2>2. SUFFICES ASSUME NEW n \in Nat, n = N + 1
                PROVE  CdRise(n)' <=> i.cd /\ (N = 0 \/ ~calls[N].cd)
    OBVIOUS
  <2>3. calls'[n] = i
    BY <1>2, <2>2
  <2>4. (n = 1 <=> N = 0) /\ n - 1 = N
    <3>1. N \in Nat
      BY <1>2
    <3>2. QED  BY <2>2, <3>1
  <2>5. N # 0 => calls'[n - 1] = calls[N]
    BY <1>3, <1>4, <2>4
  <2>6. QED  BY <2>1, <2>3, <2>4, <2>5
<1>7. QED
  BY <1>1, <1>5, <1>6 DEF MemoriesAreLast, CuRises, CdRises
-----------------------------------------------------------------------------
(* The sets the two properties count: what one more call does to them.     *)
LEMMA SinceResetGrows ==
    ASSUME CallsOK, NEW i \in Inputs, calls' = Append(calls, i)
    PROVE  /\ SinceReset \subseteq 1 .. N
           /\ SinceReset' = IF i.r THEN {} ELSE SinceReset \cup {N + 1}
<1>1. N \in Nat /\ N' = N + 1 /\ calls'[N + 1] = i
  BY OneMoreCall
<1>2. \A k \in 1 .. N : calls'[k] = calls[k]
  BY OneMoreCall
<1>3. SinceReset \subseteq 1 .. N
  BY DEF SinceReset
<1>4. SinceReset' = {k \in 1 .. N + 1 : \A j \in k .. N + 1 : ~calls'[j].r}
  BY <1>1 DEF SinceReset
<1>5. \A k \in 1 .. N + 1 : /\ N + 1 \in k .. N + 1
                            /\ k .. N + 1 = (k .. N) \cup {N + 1}
                            /\ k .. N \subseteq 1 .. N
  BY <1>1
<1>6. \A k \in 1 .. N + 1 :
        (\A j \in k .. N + 1 : ~calls'[j].r) <=> (\A j \in k .. N : ~calls[j].r) /\ ~i.r
  BY <1>1, <1>2, <1>5
<1>7. (N + 1) .. N = {} /\ 1 .. N + 1 = (1 .. N) \cup {N + 1}
  BY <1>1
<1>8. QED  BY <1>3, <1>4, <1>6, <1>7 DEF SinceReset

LEMMA RisesCounted ==
    ASSUME CallsOK, MemoriesAreLast, NEW i \in Inputs, calls' = Append(calls, i)
    PROVE  /\ RisesSinceReset \in Nat
           /\ RisesSinceReset' = IF i.r THEN 0
                                 ELSE IF CuRises(ctu, i) THEN RisesSinceReset + 1
                                 ELSE RisesSinceReset
<1> DEFINE R == {k \in 1 .. N : CuRise(k) /\ \A j \in k .. N : ~calls[j].r}
<1>1. N \in Nat /\ N' = N + 1 /\ N + 1 \notin 1 .. N
  BY OneMoreCall
<1>2. R = {k \in SinceReset : CuRise(k)} /\ R' = {k \in SinceReset' : CuRise(k)'}
  BY DEF SinceReset
<1>3. R' = IF i.r THEN {} ELSE IF CuRises(ctu, i) THEN R \cup {N + 1} ELSE R
  <2>1. SinceReset \subseteq 1 .. N /\ SinceReset' = IF i.r THEN {} ELSE SinceReset \cup {N + 1}
    BY SinceResetGrows
  <2>2. \A k \in SinceReset : CuRise(k)' <=> CuRise(k)
    BY <2>1, RisesStay
  <2>3. \A n : n = N + 1 => (CuRise(n)' <=> CuRises(ctu, i))
    BY <1>1, RisesStay
  <2>4. QED  BY <1>2, <2>1, <2>2, <2>3
<1>4. IsFiniteSet(R) /\ N + 1 \notin R
  <2>1. R \subseteq 1 .. N /\ IsFiniteSet(1 .. N)
    BY <1>1, FS_Interval
  <2>2. QED  BY <1>1, <2>1, FS_Subset
<1>5. RisesSinceReset = Cardinality(R) /\ RisesSinceReset' = Cardinality(R')
  BY DEF RisesSinceReset
<1> HIDE DEF R
<1>6. QED  BY <1>3, <1>4, <1>5, FS_EmptySet, FS_AddElement, FS_CardinalityType

LEMMA NetsCounted ==
    ASSUME CallsOK, MemoriesAreLast, NEW i \in Inputs, calls' = Append(calls, i)
    PROVE  /\ Net(SinceReset) \in Nat /\ NetDown(SinceReset) \in Nat
           /\ Net(SinceReset)' =
                IF i.r THEN 0
                ELSE IF CuRises(ctud, i) /\ ~CdRises(ctud, i) THEN Net(SinceReset) + 1
                ELSE Net(SinceReset)
           /\ NetDown(SinceReset)' =
                IF i.r THEN 0
                ELSE IF CdRises(ctud, i) /\ ~CuRises(ctud, i) THEN NetDown(SinceReset) + 1
                ELSE NetDown(SinceReset)
<1> DEFINE S == SinceReset
           U == {k \in S : CuRise(k) /\ ~CdRise(k)}
           D == {k \in S : CdRise(k) /\ ~CuRise(k)}
<1>1. N \in Nat /\ N' = N + 1 /\ N + 1 \notin 1 .. N
  BY OneMoreCall
<1>2. S \subseteq 1 .. N /\ S' = IF i.r THEN {} ELSE S \cup {N + 1}
  BY SinceResetGrows
<1>3. U' = {k \in S' : CuRise(k)' /\ ~CdRise(k)'} /\ D' = {k \in S' : CdRise(k)' /\ ~CuRise(k)'}
  OBVIOUS
<1> HIDE DEF S
<1>4. \A k \in S : (CuRise(k)' <=> CuRise(k)) /\ (CdRise(k)' <=> CdRise(k))
  BY <1>2, RisesStay
<1>5. \A n : n = N + 1 => (CuRise(n)' <=> CuRises(ctud, i)) /\ (CdRise(n)' <=> CdRises(ctud, i))
  BY <1>1, RisesStay
<1>6. U' = IF i.r THEN {} ELSE IF CuRises(ctud, i) /\ ~CdRises(ctud, i) THEN U \cup {N + 1} ELSE U
  BY <1>2, <1>3, <1>4, <1>5
<1>7. D' = IF i.r THEN {} ELSE IF CdRises(ctud, i) /\ ~CuRises(ctud, i) THEN D \cup {N + 1} ELSE D
  BY <1>2, <1>3, <1>4, <1>5
<1>8. IsFiniteSet(U) /\ IsFiniteSet(D) /\ N + 1 \notin U /\ N + 1 \notin D
  <2>1. U \subseteq 1 .. N /\ D \subseteq 1 .. N
    BY <1>2
  <2>2. IsFiniteSet(1 .. N)
    BY <1>1, FS_Interval
  <2>3. QED  BY <1>1, <2>1, <2>2, FS_Subset
<1>9. /\ Net(SinceReset) = Cardinality(U) /\ Net(SinceReset)' = Cardinality(U')
      /\ NetDown(SinceReset) = Cardinality(D) /\ NetDown(SinceReset)' = Cardinality(D')
  BY DEF Net, NetDown, S
<1> HIDE DEF U, D
<1>10. /\ Cardinality(U) \in Nat /\ Cardinality(D) \in Nat /\ Cardinality({}) = 0
      /\ Cardinality(U \cup {N + 1}) = Cardinality(U) + 1
      /\ Cardinality(D \cup {N + 1}) = Cardinality(D) + 1
  BY <1>8, FS_EmptySet, FS_AddElement, FS_CardinalityType
<1>11. QED  BY <1>6, <1>7, <1>9, <1>10
-----------------------------------------------------------------------------
(* What the first program's calls do, one property at a time.              *)
LEMMA CtuKeeps ==
    ASSUME HInv, NEW i \in Inputs, LiteralScan(i)
    PROVE  CtuCountsRises'
<1>1. CallsOK /\ MemoriesAreLast /\ literal /\ calls' = Append(calls, i) /\ CtuCountsRises
  BY DEF HInv, LiteralScan
<1>2. ctu'.cv = CtuNext(ctu, i) /\ inp' = i /\ i.pv = inp.pv
  BY DEF LiteralScan, Scan, exec_ctu
<1>3. ctu.cv \in Int16 /\ i.pv \in Int16 /\ i.pv \in Int /\ ctu.cv \in Int
  BY <1>1, CounterAssumption, Int16Facts DEF CallsOK, TypeOK, Inputs
<1>4. CtuNext(ctu, i) = IF i.r THEN 0
                        ELSE IF CuRises(ctu, i) /\ ctu.cv < i.pv THEN ctu.cv + 1 ELSE ctu.cv
  BY <1>3, GuardedSums DEF CtuNext, CuRises
<1>5. SUFFICES ASSUME i.pv >= 0 PROVE ctu'.cv = Min2(RisesSinceReset', i.pv)
  BY <1>2 DEF CtuCountsRises
<1>6. ctu.cv = Min2(RisesSinceReset, i.pv)
  BY <1>1, <1>2, <1>5 DEF CtuCountsRises
<1>7. RisesSinceReset \in Nat
      /\ RisesSinceReset' = IF i.r THEN 0
                            ELSE IF CuRises(ctu, i) THEN RisesSinceReset + 1
                            ELSE RisesSinceReset
  BY <1>1, RisesCounted
<1>8. QED  BY <1>2, <1>3, <1>4, <1>5, <1>6, <1>7 DEF Min2

LEMMA CtudKeeps ==
    ASSUME HInv, NEW i \in Inputs, LiteralScan(i)
    PROVE  CtudTracksEdges'
<1> DEFINE up == Net(SinceReset)
           dn == NetDown(SinceReset)
<1>1. CallsOK /\ MemoriesAreLast /\ literal /\ calls' = Append(calls, i) /\ CtudTracksEdges
  BY DEF HInv, LiteralScan
<1>2. ctud'.cv = CtudNext(ctud, i) /\ inp' = i /\ i.pv = inp.pv /\ ~i.ld
  BY DEF LiteralScan, Scan, exec_ctud
<1>3. ctud.cv \in Int16 /\ i.pv \in Int16 /\ i.pv \in Int /\ ctud.cv \in Int
  BY <1>1, CounterAssumption, Int16Facts DEF CallsOK, TypeOK, Inputs
<1>4. ctud'.cv = IF i.r THEN 0
                 ELSE IF CuRises(ctud, i) /\ CdRises(ctud, i) THEN ctud.cv
                 ELSE IF CuRises(ctud, i) THEN IF ctud.cv < i.pv THEN ctud.cv + 1 ELSE ctud.cv
                 ELSE IF CdRises(ctud, i) THEN IF ctud.cv > 0 THEN ctud.cv - 1 ELSE ctud.cv
                 ELSE ctud.cv
  BY <1>2, <1>3, CtudSame
<1>5. SUFFICES ASSUME i.pv >= 0
               PROVE  /\ ctud'.cv \in 0 .. i.pv
                      /\ ctud'.cv <= up'
                      /\ dn' = 0 => ctud'.cv = Min2(up', i.pv)
  BY <1>2 DEF CtudTracksEdges, SinceReset
<1>6. /\ ctud.cv \in 0 .. i.pv
      /\ ctud.cv <= up
      /\ dn = 0 => ctud.cv = Min2(up, i.pv)
  BY <1>1, <1>2, <1>5 DEF CtudTracksEdges, SinceReset
<1>7. up \in Nat /\ dn \in Nat
  BY <1>1, NetsCounted
<1>8. up' = IF i.r THEN 0
            ELSE IF CuRises(ctud, i) /\ ~CdRises(ctud, i) THEN up + 1 ELSE up
  BY <1>1, NetsCounted
<1>9. dn' = IF i.r THEN 0
            ELSE IF CdRises(ctud, i) /\ ~CuRises(ctud, i) THEN dn + 1 ELSE dn
  BY <1>1, NetsCounted
<1> HIDE DEF up, dn
<1>10. CASE i.r
  BY <1>3, <1>4, <1>5, <1>8, <1>9, <1>10 DEF Min2
<1>11. CASE ~i.r /\ (CuRises(ctud, i) <=> CdRises(ctud, i))
  BY <1>4, <1>6, <1>8, <1>9, <1>11
<1>12. CASE ~i.r /\ CuRises(ctud, i) /\ ~CdRises(ctud, i)
  BY <1>3, <1>4, <1>5, <1>6, <1>7, <1>8, <1>9, <1>12 DEF Min2
<1>13. CASE ~i.r /\ ~CuRises(ctud, i) /\ CdRises(ctud, i)
  <2>1. dn' # 0 /\ up' = up
    BY <1>7, <1>8, <1>9, <1>13
  <2>2. QED  BY <1>3, <1>4, <1>5, <1>6, <1>7, <1>13, <2>1
<1>14. QED  BY <1>10, <1>11, <1>12, <1>13

LEMMA LatchesKeep ==
    ASSUME HInv, NEW i \in Inputs, LiteralScan(i)
    PROVE  CallsOK' /\ MemoriesAreLast' /\ FTrigIsFall' /\ LatchesKeepLastEvent'
<1>1. CallsOK /\ MemoriesAreLast /\ calls' = Append(calls, i) /\ LatchesKeepLastEvent
  BY DEF HInv, LiteralScan
<1>2. N \in Nat /\ N' = N + 1 /\ calls'[N + 1] = i /\ calls' \in Seq(Inputs)
  BY <1>1, OneMoreCall
<1>3. \A k \in 1 .. N : calls'[k] = calls[k]
  BY <1>1, OneMoreCall
<1>4. inp' = i /\ i.pv = inp.pv
  BY DEF LiteralScan, Scan
<1>5. calls'[N'] = i /\ N' # 0 /\ 1 .. N' = (1 .. N) \cup {N + 1}
  BY <1>2
<1>6. CallsOK'
  <2>1. TypeOK'
    BY <1>1, TypeStep DEF CallsOK, LiteralScan, Next
  <2>2. \A k \in 1 .. N' : calls'[k].pv = inp'.pv
    BY <1>1, <1>2, <1>3, <1>4, <1>5 DEF CallsOK
  <2>3. QED  BY <1>2, <2>1, <2>2 DEF CallsOK
<1>7. MemoriesAreLast'
  <2>1. ctu'.prev_cu = i.cu /\ ctud'.prev_cu = i.cu /\ ctud'.prev_cd = i.cd
    BY DEF LiteralScan, Scan, exec_ctu, exec_ctud
  <2>2. rtrig'.m = i.cu /\ ftrig'.m = i.cu
    BY DEF LiteralScan, Scan, exec_rtrig, exec_ftrig
  <2>3. QED  BY <1>5, <2>1, <2>2 DEF MemoriesAreLast
<1>8. FTrigIsFall'
  <2>1. ftrig'.q <=> ~i.cu /\ N # 0 /\ calls[N].cu
    BY <1>1 DEF MemoriesAreLast, LiteralScan, Scan, exec_ftrig
  <2>2. (N' > 1 <=> N # 0) /\ N' - 1 = N /\ (N # 0 => N \in 1 .. N)
    BY <1>2
  <2>3. N # 0 => calls'[N' - 1] = calls[N]
    BY <1>3, <2>2
  <2>4. QED  BY <1>5, <2>1, <2>2, <2>3 DEF FTrigIsFall
<1>9. LatchesKeepLastEvent'
  <2>1. (sr' <=> i.cu \/ (~i.r /\ sr)) /\ (rs' <=> ~i.r /\ (i.cu \/ rs))
    BY DEF LiteralScan, Scan, exec_sr, exec_rs
  <2>2. \A k \in 1 .. N : /\ k .. N' = (k .. N) \cup {N + 1}
                          /\ k .. N \subseteq 1 .. N
    BY <1>2
  <2>3. (N + 1) .. N' = {N + 1}
    BY <1>2
  <2>4. \A k \in 1 .. N : /\ (\A j \in k .. N' : calls'[j].r => calls'[j].cu)
                             <=> (\A j \in k .. N : calls[j].r => calls[j].cu) /\ (i.r => i.cu)
                          /\ (\A j \in k .. N' : ~calls'[j].r)
                             <=> (\A j \in k .. N : ~calls[j].r) /\ ~i.r
    BY <1>2, <1>3, <2>2
  <2> DEFINE Sets(k) == calls'[k].cu /\ \A j \in k .. N' : calls'[j].r => calls'[j].cu
             Holds(k) == calls'[k].cu /\ \A j \in k .. N' : ~calls'[j].r
  <2>5. sr' <=> \E k \in 1 .. N' : Sets(k)
    <3>1. \A k \in 1 .. N : Sets(k) <=> /\ calls[k].cu
                                        /\ \A j \in k .. N : calls[j].r => calls[j].cu
                                        /\ i.r => i.cu
      BY <1>3, <2>4
    <3>2. Sets(N + 1) <=> i.cu
      BY <1>2, <2>3
    <3>3. (\E k \in 1 .. N' : Sets(k)) <=> (\E k \in 1 .. N : Sets(k)) \/ Sets(N + 1)
      BY <1>5
    <3> HIDE DEF Sets
    <3>4. (\E k \in 1 .. N : Sets(k)) <=> sr /\ (i.r => i.cu)
      BY <1>1, <3>1 DEF LatchesKeepLastEvent
    <3>5. QED  BY <2>1, <3>2, <3>3, <3>4
  <2>6. rs' <=> \E k \in 1 .. N' : Holds(k)
    <3>1. \A k \in 1 .. N : Holds(k) <=> /\ calls[k].cu
                                         /\ \A j \in k .. N : ~calls[j].r
                                         /\ ~i.r
      BY <1>3, <2>4
    <3>2. Holds(N + 1) <=> i.cu /\ ~i.r
      BY <1>2, <2>3
    <3>3. (\E k \in 1 .. N' : Holds(k)) <=> (\E k \in 1 .. N : Holds(k)) \/ Holds(N + 1)
      BY <1>5
    <3> HIDE DEF Holds
    <3>4. (\E k \in 1 .. N : Holds(k)) <=> rs /\ ~i.r
      BY <1>1, <3>1 DEF LatchesKeepLastEvent
    <3>5. QED  BY <2>1, <3>2, <3>3, <3>4
  <2>7. QED  BY <2>5, <2>6 DEF LatchesKeepLastEvent
<1>10. QED  BY <1>6, <1>7, <1>8, <1>9

LEMMA HStepGood == HInv /\ [HNext]_hvars => HInv'
<1> SUFFICES ASSUME HInv, [HNext]_hvars PROVE HInv'
  OBVIOUS
<1>1. CASE UNCHANGED hvars
  BY <1>1 DEF HInv, hvars, vars, CallsOK, MemoriesAreLast, FTrigIsFall, LatchesKeepLastEvent,
              CtuCountsRises, CtudTracksEdges, TypeOK, N, CuRise, CdRise, RisesSinceReset,
              Net, NetDown
<1>2. ASSUME NEW i \in Inputs, LiteralScan(i), UNCHANGED literal PROVE HInv'
  BY <1>2, CtuKeeps, CtudKeeps, LatchesKeep DEF HInv, CallsOK
<1>3. ASSUME NEW i \in Inputs, FreeScan(i), UNCHANGED literal PROVE HInv'
  <2>1. TypeOK' /\ ~literal'
    BY <1>3, TypeStep DEF HInv, FreeScan, Next
  <2>2. QED  BY <1>3, <2>1 DEF HInv, CtuCountsRises, CtudTracksEdges
<1>4. QED  BY <1>1, <1>2, <1>3 DEF HNext

(* The counts are functions of the edges in the calls so far, for every    *)
(* width of INT, every preset and every number of calls: CTU's of the      *)
(* rises since the last reset, CTUD's of its net rises.                    *)
THEOREM CountsAreOfEdges == HSpec => []CountersTrackEdges
<1>1. HInv => CountersTrackEdges
  BY DEF HInv, CountersTrackEdges
<1>2. QED  BY <1>1, HInitGood, HStepGood, PTL DEF HSpec

(* F_TRIG, SR and RS answer from the whole sequence of calls, of any       *)
(* length and from the first one on.                                       *)
THEOREM LatchesAnswerFromCalls == HSpec => []EdgesAndLatchesRemember
<1>1. HInv => EdgesAndLatchesRemember
  BY DEF HInv, EdgesAndLatchesRemember
<1>2. QED  BY <1>1, HInitGood, HStepGood, PTL DEF HSpec
=============================================================================
