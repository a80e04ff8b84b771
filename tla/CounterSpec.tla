---------------------------- MODULE CounterSpec ----------------------------
(***************************************************************************)
(* The pure F* combinators ctu_step, ctd_step, ctud_step, r_trig_step,     *)
(* sr_step and rs_step of fstar/src/LowPLC.*.fst, one of each stepped by a *)
(* scan.  Their sums are Int16.add and Int16.sub, defined only where they  *)
(* do not overflow: here plain + and -.                                    *)
(***************************************************************************)
EXTENDS Integers

CONSTANT Inputs     \* records cu, cd, r, ld, pv

VARIABLES inp, ctu, ctd, ctud, rtrig, sr, rs
vars == <<inp, ctu, ctd, ctud, rtrig, sr, rs>>

ctu_step(s, cu, r, pv) ==
    LET rising_cu == cu /\ ~s.prev_cu
        new_cv == IF r THEN 0
                  ELSE IF rising_cu THEN IF s.cv < pv THEN s.cv + 1 ELSE s.cv
                  ELSE s.cv
    IN  [cv |-> new_cv, prev_cu |-> cu, q |-> new_cv >= pv]

ctd_step(s, cd, ld, pv) ==
    LET rising_cd == cd /\ ~s.prev_cd
        new_cv == IF ld THEN pv
                  ELSE IF rising_cd THEN IF s.cv > 0 THEN s.cv - 1 ELSE s.cv
                  ELSE s.cv
    IN  [cv |-> new_cv, prev_cd |-> cd, q |-> new_cv <= 0]

ctud_step(s, cu, cd, r, ld, pv) ==
    LET rising_cu == cu /\ ~s.prev_cu
        rising_cd == cd /\ ~s.prev_cd
        new_cv == IF r THEN 0
                  ELSE IF ld THEN pv
                  ELSE IF rising_cu /\ rising_cd THEN s.cv
                  ELSE IF rising_cu THEN IF s.cv < pv THEN s.cv + 1 ELSE s.cv
                  ELSE IF rising_cd THEN IF s.cv > 0 THEN s.cv - 1 ELSE s.cv
                  ELSE s.cv
    IN  [cv |-> new_cv, prev_cu |-> cu, prev_cd |-> cd, qu |-> new_cv >= pv, qd |-> new_cv <= 0]

r_trig_step(s, clk) == [m |-> clk, q |-> clk /\ ~s.m]
sr_step(q, s1, r) == s1 \/ (~r /\ q)
rs_step(q, s, r1) == ~r1 /\ (s \/ q)

Init ==
    /\ inp \in Inputs
    /\ ctu = [cv |-> 0, prev_cu |-> FALSE, q |-> FALSE]
    /\ ctd = [cv |-> 0, prev_cd |-> FALSE, q |-> FALSE]
    /\ ctud = [cv |-> 0, prev_cu |-> FALSE, prev_cd |-> FALSE, qu |-> FALSE, qd |-> FALSE]
    /\ rtrig = [m |-> FALSE, q |-> FALSE]
    /\ sr = FALSE /\ rs = FALSE

Scan(i) ==
    /\ inp' = i
    /\ ctu' = ctu_step(ctu, i.cu, i.r, i.pv)
    /\ ctd' = ctd_step(ctd, i.cd, i.ld, i.pv)
    /\ ctud' = ctud_step(ctud, i.cu, i.cd, i.r, i.ld, i.pv)
    /\ rtrig' = r_trig_step(rtrig, i.cu)
    /\ sr' = sr_step(sr, i.cu, i.r)
    /\ rs' = rs_step(rs, i.cu, i.r)

Next == \E i \in Inputs : Scan(i)

Spec == Init /\ [][Next]_vars
=============================================================================
