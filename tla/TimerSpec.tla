------------------------------ MODULE TimerSpec ------------------------------
(***************************************************************************)
(* The abstract specification of the timer function blocks: the pure F*    *)
(* combinators ton_step, tof_step and tp_step of fstar/src/LowPLC.TON.fst, *)
(* LowPLC.TOF.fst and LowPLC.TP.fst, stepped together once per scan.  The  *)
(* refinement type of their tick argument (current_tick >= start_tick) is  *)
(* a guard of the step.  The ET output is left out: no TLV opcode reads it.*)
(***************************************************************************)
EXTENDS Integers

CONSTANTS
    PT,         \* preset in ticks
    MaxTick     \* the largest tick

VARIABLES tick, in, ton, ton_q, tof, tof_q, tp, tp_q
vars == <<tick, in, ton, ton_q, tof, tof_q, tp, tp_q>>

ton_init == [phase |-> "IDLE", start |-> 0]
tof_init == [phase |-> "IDLE", prev_in |-> FALSE, start |-> 0]
tp_init  == [phase |-> "IDLE", prev_in |-> FALSE, start |-> 0]

Elapsed(s, now) == now - s.start >= PT

(* Each combinator as two operators: the state it returns and its Q.       *)
ton_state(s, in_val, now) ==
    IF ~in_val THEN IF s.phase = "IDLE" THEN s ELSE ton_init
    ELSE CASE s.phase = "IDLE"   -> [phase |-> "TIMING", start |-> now]
           [] s.phase = "TIMING" -> IF Elapsed(s, now) THEN [s EXCEPT !.phase = "DONE"] ELSE s
           [] s.phase = "DONE"   -> s
ton_out(s, in_val, now) ==
    in_val /\ (s.phase = "DONE" \/ (s.phase = "TIMING" /\ Elapsed(s, now)))

(* A TOF or TP state in which only prev_in is updated.                     *)
Seen(s, in_val) == [phase |-> s.phase, prev_in |-> in_val, start |-> s.start]

tof_state(s, in_val, now) ==
    IF in_val THEN [phase |-> "DONE", prev_in |-> TRUE,
                    start |-> IF s.phase = "DONE" THEN s.start ELSE 0]
    ELSE CASE s.phase = "IDLE"   -> Seen(s, FALSE)
           [] s.phase = "DONE"   -> [phase |-> "TIMING", prev_in |-> FALSE, start |-> now]
           [] s.phase = "TIMING" -> IF Elapsed(s, now) THEN tof_init
                                    ELSE Seen(s, FALSE)
tof_out(s, in_val, now) ==
    in_val \/ s.phase = "DONE" \/ (s.phase = "TIMING" /\ ~Elapsed(s, now))

tp_state(s, in_val, now) ==
    CASE s.phase = "IDLE" ->
            IF in_val /\ ~s.prev_in /\ PT > 0
            THEN [phase |-> "TIMING", prev_in |-> TRUE, start |-> now]
            ELSE Seen(s, in_val)
      [] s.phase = "TIMING" ->
            IF Elapsed(s, now)
            THEN [phase |-> IF in_val THEN "DONE" ELSE "IDLE", prev_in |-> in_val, start |-> 0]
            ELSE Seen(s, in_val)
      [] s.phase = "DONE" -> IF in_val THEN Seen(s, TRUE) ELSE tp_init
tp_out(s, in_val, now) ==
    \/ s.phase = "IDLE" /\ in_val /\ ~s.prev_in /\ PT > 0
    \/ s.phase = "TIMING" /\ ~Elapsed(s, now)

-----------------------------------------------------------------------------
Init ==
    /\ tick = 0 /\ in = FALSE
    /\ ton = ton_init /\ ton_q = FALSE
    /\ tof = tof_init /\ tof_q = FALSE
    /\ tp = tp_init /\ tp_q = FALSE

(* The refinement type of current_tick, for each of the three calls.       *)
TickGuard(t) == t >= ton.start /\ t >= tof.start /\ t >= tp.start

Scan(t, v) ==
    /\ TickGuard(t)
    /\ tick' = t
    /\ in' = v
    /\ ton' = ton_state(ton, v, t) /\ ton_q' = ton_out(ton, v, t)
    /\ tof' = tof_state(tof, v, t) /\ tof_q' = tof_out(tof, v, t)
    /\ tp' = tp_state(tp, v, t)    /\ tp_q' = tp_out(tp, v, t)

Next == \E t \in 0 .. MaxTick, v \in BOOLEAN : Scan(t, v)

Spec == Init /\ [][Next]_vars
=============================================================================
