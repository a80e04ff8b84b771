------------------------------- MODULE Timers -------------------------------
(***************************************************************************)
(* The timer function blocks of the verified interpreter, as               *)
(* exec_fb_call_low of fstar/src/LowPLC.Interp.Low.fst runs them: a TON, a *)
(* TOF and a TP instance, called once each by the body of a program that   *)
(* the host drives with lowplc_set_tick, lowplc_set_bool, lowplc_exec_scan.*)
(*                                                                         *)
(* A flat timer state is a record of machine words: phase 0 IDLE, 1 TIMING,*)
(* 2 DONE, and (TOF and TP) prev_in.  A call whose tick is below the       *)
(* stored start is skipped: neither the state nor Q is written.  TOF and TP*)
(* also test for phase 2; nothing writes it (TypeOK), and that branch is   *)
(* left out.                                                               *)
(***************************************************************************)
EXTENDS Integers

CONSTANTS
    PtUs,       \* the preset of the three calls, in microseconds
    PeriodUs,   \* lp_scan_period_us, set by lowplc_load_program
    MaxTick,    \* the largest tick the host writes
    Monotone    \* TRUE: the host never writes a tick below the last one

ASSUME TimerAssumption ==
    /\ PtUs \in Nat
    /\ PeriodUs \in Nat \ {0}       \* lowplc_load_program refuses period 0
    /\ MaxTick \in Nat
    /\ Monotone \in BOOLEAN

VARIABLES tick, in, ton, ton_q, tof, tof_q, tp, tp_q
vars == <<tick, in, ton, ton_q, tof, tof_q, tp, tp_q>>

Ticks == 0 .. MaxTick
Bit(b) == IF b THEN 1 ELSE 0

pt_us_to_ticks_low(pt_us, period_us) ==
    IF period_us = 0 THEN 0 ELSE pt_us \div period_us

PT == pt_us_to_ticks_low(PtUs, PeriodUs)

(* Mutant: the deadline comes one tick too soon.                           *)
ExpiredSoon(s) == tick' - s.start + 1 >= PT

Expired(s) == tick' - s.start >= PT

-----------------------------------------------------------------------------
(* The branches of one call, by phase.  The call sees the input and the    *)
(* tick the host wrote before the scan.                                    *)

TonReset == [phase |-> 0, start |-> 0]

(* Mutant: DONE ignores the input.                                         *)
ton_done_latched == ton.phase = 2 /\ ton' = ton /\ ton_q' = TRUE

ton_idle ==
    /\ ton.phase = 0
    /\ ton' = IF in' THEN [phase |-> 1, start |-> tick'] ELSE ton
    /\ ton_q' = FALSE

ton_timing ==
    /\ ton.phase = 1
    /\ ton' = IF ~in' THEN TonReset
              ELSE IF Expired(ton) THEN [phase |-> 2, start |-> ton.start] ELSE ton
    /\ ton_q' = (in' /\ Expired(ton))

ton_done ==
    /\ ton.phase = 2
    /\ ton' = IF in' THEN ton ELSE TonReset
    /\ ton_q' = in'

tof_idle ==
    /\ tof.phase = 0
    /\ tof' = IF in' THEN [phase |-> 0, prev_in |-> 1, start |-> tof.start]
              ELSE IF tof.prev_in = 1
                   THEN [phase |-> 1, prev_in |-> 0, start |-> tick'] ELSE tof
    /\ tof_q' = (in' \/ tof.prev_in = 1)

tof_timing ==
    /\ tof.phase = 1
    /\ tof' = IF in' \/ Expired(tof) THEN [phase |-> 0, prev_in |-> Bit(in'), start |-> tof.start]
              ELSE tof
    /\ tof_q' = (in' \/ ~Expired(tof))

(* Mutant: prev_in is not followed during the pulse.                      *)
tp_timing_stale_edge ==
    /\ tp.phase = 1
    /\ tp' = [tp EXCEPT !.phase = IF Expired(tp) THEN 0 ELSE 1]
    /\ tp_q' = ~Expired(tp)

tp_idle ==
    /\ tp.phase = 0
    /\ tp' = IF in' /\ tp.prev_in = 0 THEN [phase |-> 1, prev_in |-> 1, start |-> tick']
             ELSE [phase |-> 0, prev_in |-> Bit(in'), start |-> tp.start]
    /\ tp_q' = (in' /\ tp.prev_in = 0)

tp_timing ==
    /\ tp.phase = 1
    /\ tp' = [phase |-> IF Expired(tp) THEN 0 ELSE 1, prev_in |-> Bit(in'), start |-> tp.start]
    /\ tp_q' = ~Expired(tp)

(* A call whose tick is below the stored start does nothing.               *)
Skipped(s) == tick' < s.start

exec_ton == IF Skipped(ton) THEN UNCHANGED <<ton, ton_q>>
            ELSE ton_idle \/ ton_timing \/ ton_done
exec_tof == IF Skipped(tof) THEN UNCHANGED <<tof, tof_q>> ELSE tof_idle \/ tof_timing
exec_tp  == IF Skipped(tp) THEN UNCHANGED <<tp, tp_q>> ELSE tp_idle \/ tp_timing

-----------------------------------------------------------------------------
(* memset of the pool at load: every FB instance and every bool is zero.   *)
Init ==
    /\ tick = 0
    /\ in = FALSE
    /\ ton = [phase |-> 0, start |-> 0]
    /\ tof = [phase |-> 0, prev_in |-> 0, start |-> 0]
    /\ tp  = [phase |-> 0, prev_in |-> 0, start |-> 0]
    /\ ton_q = FALSE /\ tof_q = FALSE /\ tp_q = FALSE

(* The host sets the tick and the input and runs the body.  A tick that    *)
(* repeats stands for two calls in one scan, a tick that jumps for scans   *)
(* in which an IF around the calls was not taken.                          *)
Scan(t, v) ==
    /\ Monotone => t >= tick
    /\ tick' = t
    /\ in' = v
    /\ exec_ton /\ exec_tof /\ exec_tp

Next == \E t \in Ticks, v \in BOOLEAN : Scan(t, v)

Spec == Init /\ [][Next]_vars

-----------------------------------------------------------------------------
FlatTimer == [phase : 0..1, prev_in : 0..1, start : Ticks]

(* Type invariant: phase 2 is reached by TON alone.                        *)
TypeOK ==
    /\ tick \in Ticks
    /\ in \in BOOLEAN
    /\ ton \in [phase : 0..2, start : Ticks]
    /\ tof \in FlatTimer
    /\ tp \in FlatTimer
    /\ ton_q \in BOOLEAN /\ tof_q \in BOOLEAN /\ tp_q \in BOOLEAN

(* The guard "tick >= start" of every timer branch never skips a call: the *)
(* precondition of the F* combinators (TON.fst, "guaranteed by the scan    *)
(* cycle model") is met by every call when ticks are monotone.             *)
NoCallSkipped == tick >= ton.start /\ tick >= tof.start /\ tick >= tp.start

(* Q is determined by the flat state after every call, so a program that   *)
(* reads Q later in the scan, or in a scan without a call, sees what the   *)
(* timer would answer: no combination of calls leaves a stale output.      *)
OutputFollowsState ==
    /\ ton_q <=> ton.phase = 2
    /\ tof_q <=> (tof.phase = 1 \/ tof.prev_in = 1)
    /\ tp_q  <=> tp.phase = 1

(* TON and TOF answer their input at once: TON.Q falls with IN (lemma      *)
(* ton_reset_reaches_idle) and TOF.Q rises with IN (tof_in_true_q_true).   *)
AnswersInput == (ton_q => in) /\ (in => tof_q)
=============================================================================
