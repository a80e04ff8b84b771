----------------------------- MODULE LibTimers -----------------------------
(***************************************************************************)
(* TP, TON and TOF of the library linked to generated programs, all three  *)
(* called once in a scan with the same EN, IN and PT, and the clock of the *)
(* host (__CURRENT_TIME).  lib/C/iec_std_FB_no_ENENO.h has their code, and *)
(* lib/C/iec_std_FB.h the same behind EN: with EN off a block changes ENO  *)
(* alone, which nothing else reads.  Variables that hold the inputs are    *)
(* not kept: nothing reads them in a later call.  Forced variables         *)
(* (accessor.h) are left out.                                              *)
(***************************************************************************)
EXTENDS TimeLib

CONSTANTS
    PT,         \* the preset, a TIME
    Instants,   \* bound: what the clock may show
    Unit,       \* the parts of a second that tell the instants apart
    Horizon     \* no instant is later, in these parts

(* A TIME of a whole number of parts, as the host and literals write it.   *)
Units(t) == In(Unit, t)
Exact(t) == /\ t \in [sec : Nat, nsec : 0 .. Second - 1]
            /\ t.nsec % (Second \div Unit) = 0

ASSUME LibTimerAssumption ==
    /\ Unit \in Nat \ {0} /\ Unit * (Second \div Unit) = Second
    /\ Exact(PT) /\ \A t \in Instants : Exact(t) /\ Units(t) <= Horizon
    /\ Horizon \in Nat

VARIABLES tp, ton, tof      \* the data of the three blocks
timers == <<tp, ton, tof>>

Timer == [q : BOOLEAN, state : 0 .. 2, prev_in : BOOLEAN, et : [sec : Int, nsec : Int],
          current_time : [sec : Int, nsec : Int], start_time : [sec : Int, nsec : Int]]
Fresh == [q |-> FALSE, state |-> 0, prev_in |-> FALSE, et |-> Zero,
          current_time |-> Zero, start_time |-> Zero]
TP_init == Fresh
TON_init == Fresh
TOF_init == Fresh
TimerInit == tp = TP_init /\ ton = TON_init /\ tof = TOF_init

(* A call as far as all timers share it: called(s) is the block once it    *)
(* has the time, after(s) sees what the code has made of it.               *)
Called(s, now) == [s EXCEPT !.current_time = now]
Seen(s, in) == [s EXCEPT !.prev_in = in]

Starts(s, q) == [s EXCEPT !.state = 1, !.q = q, !.start_time = s.current_time]
Elapsed(s) == LE_TIME(time_add(s.start_time, PT), s.current_time)
Runs(s) == [s EXCEPT !.et = time_sub(s.current_time, s.start_time)]
Ends(s, q) == [s EXCEPT !.state = 2, !.q = q, !.et = PT]
Idle(s) == [s EXCEPT !.state = 0, !.et = Zero]

(* Mutant: the end of a pulse with IN off is noticed one call late.        *)
TpCode_late(s, in) ==
    IF s.state = 2 /\ ~in THEN Idle(s)
    ELSE IF s.state = 0 /\ ~s.prev_in /\ in THEN Starts(s, TRUE)
    ELSE IF s.state = 1 THEN IF Elapsed(s) THEN Ends(s, FALSE) ELSE Runs(s)
    ELSE s

TpCode(s, in) ==
    LET pulse == IF s.state = 0 /\ ~s.prev_in /\ in THEN Starts(s, TRUE)
                 ELSE IF s.state = 1 THEN IF Elapsed(s) THEN Ends(s, FALSE) ELSE Runs(s)
                 ELSE s
    IN  IF pulse.state = 2 /\ ~in THEN Idle(pulse) ELSE pulse
TonCode(s, in) ==
    IF s.state = 0 /\ ~s.prev_in /\ in THEN Starts(s, FALSE)
    ELSE IF ~in THEN [Idle(s) EXCEPT !.q = FALSE]
    ELSE IF s.state = 1 THEN IF Elapsed(s) THEN Ends(s, TRUE) ELSE Runs(s)
    ELSE s
TofCode(s, in) ==
    LET off == IF s.state = 0 /\ s.prev_in /\ ~in THEN Starts(s, s.q)
               ELSE IF in THEN Idle(s)
               ELSE IF s.state = 1 THEN IF Elapsed(s) THEN Ends(s, s.q) ELSE Runs(s)
               ELSE s
    IN  [off EXCEPT !.q = in \/ off.state = 1]

TP_body(in, now) == tp' = Seen(TpCode(Called(tp, now), in), in)
TON_body(in, now) == ton' = Seen(TonCode(Called(ton, now), in), in)
TOF_body(in, now) == tof' = Seen(TofCode(Called(tof, now), in), in)

TP(en, in, now) == IF en THEN TP_body(in, now) ELSE UNCHANGED tp
TON(en, in, now) == IF en THEN TON_body(in, now) ELSE UNCHANGED ton
TOF(en, in, now) == IF en THEN TOF_body(in, now) ELSE UNCHANGED tof

TimerScan(en, in, now) ==
    /\ GE_TIME(now, ton.current_time)       \* the clock is not set back
    /\ TP(en, in, now) /\ TON(en, in, now) /\ TOF(en, in, now)
TimerNext(en) == \E in \in BOOLEAN, now \in Instants : TimerScan(en, in, now)

-----------------------------------------------------------------------------
TimersTyped == tp \in Timer /\ ton \in Timer /\ tof \in Timer

(* The phases of the combinators: state 2 of a TON or TP is DONE; a TOF is *)
(* DONE while its input is on, and IDLE again once it is over.  A call     *)
(* with EN off is no call for them.                                        *)
Phase(s) == CASE s.state = 0 -> "IDLE" [] s.state = 1 -> "TIMING" [] s.state = 2 -> "DONE"
Start(s) == IF s.state = 1 THEN Units(s.start_time) ELSE 0
TonPhase(s) == [phase |-> Phase(s), start |-> IF s.state = 0 THEN 0 ELSE Units(s.start_time)]
TpPhase(s) == [phase |-> Phase(s), prev_in |-> s.prev_in, start |-> Start(s)]
TofPhase(s) == [phase |-> IF s.state = 1 THEN "TIMING" ELSE IF s.prev_in THEN "DONE" ELSE "IDLE",
                prev_in |-> s.prev_in, start |-> Start(s)]

TimerAbs == INSTANCE TimerSpec WITH
    PT <- Units(PT), MaxTick <- Horizon,
    tick <- Units(ton.current_time), in <- ton.prev_in,
    ton <- TonPhase(ton), ton_q <- ton.q, tof <- TofPhase(tof), tof_q <- tof.q, tp <- TpPhase(tp), tp_q <- tp.q
=============================================================================
