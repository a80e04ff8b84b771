------------------------------ MODULE Counters ------------------------------
(***************************************************************************)
(* The counter, edge and bistable blocks of exec_fb_call_low               *)
(* (fstar/src/LowPLC.Interp.Low.fst): one CTU, CTD, CTUD, R_TRIG, F_TRIG,  *)
(* SR and RS, called once each by a scan on the inputs the host wrote.  A  *)
(* scan that skips the calls changes nothing here.  INT is a word of       *)
(* IntMin .. IntMax; an edge memory is the BOOL the block read last.       *)
(***************************************************************************)
EXTENDS Words

CONSTANT Presets    \* the values PV takes

ASSUME CounterAssumption == Presets \subseteq Int16

VARIABLES
    inp,                    \* the input slots: cu, cd, r, ld and pv
    ctu, ctd, ctud,         \* flat counter states, with their outputs
    rtrig, ftrig, sr, rs    \* flat edge and bistable states, with theirs
vars == <<inp, ctu, ctd, ctud, rtrig, ftrig, sr, rs>>

Inputs == [cu : BOOLEAN, cd : BOOLEAN, r : BOOLEAN, ld : BOOLEAN, pv : Presets]

-----------------------------------------------------------------------------
(* The new CV of each counter, from its state and the inputs i.            *)

CtuNext(s, i) ==
    IF i.r THEN 0
    ELSE IF i.cu /\ ~s.prev_cu /\ s.cv < i.pv THEN add_wrap(s.cv, 1) ELSE s.cv

CtdNext(s, i) ==
    IF i.ld THEN i.pv
    ELSE IF i.cd /\ ~s.prev_cd /\ s.cv > 0 THEN sub_wrap(s.cv, 1) ELSE s.cv

CuRises(s, i) == i.cu /\ ~s.prev_cu
CdRises(s, i) == i.cd /\ ~s.prev_cd

(* Mutant: two edges in one scan are counted one after the other.          *)
CtudNextNoCancel(s, i) ==
    LET v1 == IF CuRises(s, i) /\ s.cv < i.pv THEN add_wrap(s.cv, 1) ELSE s.cv
    IN  IF i.r THEN 0 ELSE IF i.ld THEN i.pv
        ELSE IF CdRises(s, i) /\ v1 > 0 THEN sub_wrap(v1, 1) ELSE v1

CtudNext(s, i) ==
    LET v1 == IF CuRises(s, i) /\ s.cv < i.pv THEN add_wrap(s.cv, 1) ELSE s.cv
    IN  IF i.r THEN 0
        ELSE IF i.ld THEN i.pv
        ELSE IF CuRises(s, i) /\ CdRises(s, i) THEN s.cv
        ELSE IF CdRises(s, i) /\ v1 > 0 THEN sub_wrap(v1, 1) ELSE v1

-----------------------------------------------------------------------------
(* The memset of lowplc_load_program: every word is 0.                     *)
Init ==
    /\ inp \in [cu : {FALSE}, cd : {FALSE}, r : {FALSE}, ld : {FALSE}, pv : Presets]
    /\ ctu  = [cv |-> 0, prev_cu |-> FALSE, q |-> FALSE]
    /\ ctd  = [cv |-> 0, prev_cd |-> FALSE, q |-> FALSE]
    /\ ctud = [cv |-> 0, prev_cu |-> FALSE, prev_cd |-> FALSE, qu |-> FALSE, qd |-> FALSE]
    /\ rtrig = [m |-> FALSE, q |-> FALSE]
    /\ ftrig = [m |-> FALSE, q |-> FALSE]
    /\ sr = FALSE /\ rs = FALSE

(* Mutant: the reset scan does not record CU.                              *)
exec_ctu_edge_lost(i) ==
    LET cv == CtuNext(ctu, i)
    IN  ctu' = [cv |-> cv, prev_cu |-> IF i.r THEN FALSE ELSE i.cu, q |-> cv >= i.pv]

exec_ctu(i) == LET cv == CtuNext(ctu, i)
               IN  ctu' = [cv |-> cv, prev_cu |-> i.cu, q |-> cv >= i.pv]

exec_ctd(i) == LET cv == CtdNext(ctd, i)
               IN  ctd' = [cv |-> cv, prev_cd |-> i.cd, q |-> cv <= 0]

exec_ctud(i) ==
    LET cv == CtudNext(ctud, i)
    IN  ctud' = [cv |-> cv, prev_cu |-> i.cu, prev_cd |-> i.cd, qu |-> cv >= i.pv, qd |-> cv <= 0]

exec_rtrig(i) == rtrig' = [m |-> i.cu, q |-> i.cu /\ ~rtrig.m]

exec_ftrig(i) == ftrig' = [m |-> i.cu, q |-> ~i.cu /\ ftrig.m]

exec_sr(i) == sr' = (i.cu \/ (~i.r /\ sr))
(* Mutant: set dominates.                                                  *)
exec_rs_set_dominant(i) == rs' = (i.cu \/ (~i.r /\ rs))
exec_rs(i) == rs' = (~i.r /\ (i.cu \/ rs))

Scan(i) ==
    /\ inp' = i
    /\ exec_ctu(i) /\ exec_ctd(i) /\ exec_ctud(i)
    /\ exec_rtrig(i) /\ exec_ftrig(i)
    /\ exec_sr(i) /\ exec_rs(i)

Next == \E i \in Inputs : Scan(i)

Spec == Init /\ [][Next]_vars

-----------------------------------------------------------------------------
(* Type invariant.                                                         *)
TypeOK ==
    /\ inp \in Inputs
    /\ ctu \in [cv : Int16, prev_cu : BOOLEAN, q : BOOLEAN]
    /\ ctd \in [cv : Int16, prev_cd : BOOLEAN, q : BOOLEAN]
    /\ ctud \in [cv : Int16, prev_cu : BOOLEAN, prev_cd : BOOLEAN, qu : BOOLEAN, qd : BOOLEAN]
    /\ rtrig \in [m : BOOLEAN, q : BOOLEAN] /\ ftrig \in [m : BOOLEAN, q : BOOLEAN]
    /\ sr \in BOOLEAN /\ rs \in BOOLEAN

(* DDR-013: counters saturate, they never wrap.  Whatever PV does from one *)
(* call to the next, CV moves by at most one, in the direction of an edge, *)
(* unless it is reset or loaded.                                           *)
CountersNeverWrap ==
    [][/\ ctu'.cv \in {ctu.cv, ctu.cv + 1} \/ ctu'.cv = 0
       /\ ctd'.cv \in {ctd.cv, ctd.cv - 1} \/ inp'.ld
       /\ ctud'.cv \in {ctud.cv - 1, ctud.cv, ctud.cv + 1} \/ inp'.r \/ inp'.ld]_vars

(* A CTU never counts below 0, however PV moves: its count cannot run    *)
(* through the top of INT, PV = IntMax included.                           *)
CtuNonNegative == ctu.cv >= 0

(* The interpreter's counters, R_TRIG and latches are the F* combinators,  *)
(* state for state.  F_TRIG is not among them: its memory is inverted and  *)
(* starts from the other value (lowplcst_spec.md 5.3).                       *)
Comb == INSTANCE CounterSpec
RefinesCombinators == Comb!Spec
=============================================================================
