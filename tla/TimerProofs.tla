---------------------------- MODULE TimerProofs ----------------------------
(***************************************************************************)
(* Theorems of the timers, for every preset, scan period and tick range.   *)
(* TypeOK and OutputFollowsState hold whatever the host does with the tick.*)
(* The others need a monotone tick: no stored start is then ahead of it,   *)
(* so no call is skipped, every call answers its input, and the outputs    *)
(* are what the whole history of calls requires.                           *)
(***************************************************************************)
EXTENDS MCTimers, TLAPS

LEMMA PTNat == PT \in Nat
BY TimerAssumption DEF PT, pt_us_to_ticks_low

(* Each block's call keeps the flat state in its type.                     *)
LEMMA TonType ==
    ASSUME TypeOK, tick' \in Ticks, in' \in BOOLEAN, exec_ton
    PROVE  ton' \in [phase : 0..2, start : Ticks] /\ ton_q' \in BOOLEAN
<1>1. ton \in [phase : 0..2, start : Ticks] /\ ton_q \in BOOLEAN /\ 0 \in Ticks
  BY TimerAssumption DEF TypeOK, Ticks
<1>2. ton' \in [phase : 0..2, start : Ticks]
  BY <1>1 DEF exec_ton, ton_idle, ton_timing, ton_done, TonReset
<1>3. ton_q' \in BOOLEAN
  BY <1>1 DEF exec_ton, ton_idle, ton_timing, ton_done
<1>4. QED  BY <1>2, <1>3

LEMMA TofType ==
    ASSUME TypeOK, tick' \in Ticks, in' \in BOOLEAN, exec_tof
    PROVE  tof' \in FlatTimer /\ tof_q' \in BOOLEAN
<1>1. tof \in FlatTimer /\ tof_q \in BOOLEAN
  BY DEF TypeOK
<1>2. tof' \in FlatTimer
  BY <1>1 DEF exec_tof, tof_idle, tof_timing, FlatTimer, Bit
<1>3. tof_q' \in BOOLEAN
  BY <1>1 DEF exec_tof, tof_idle, tof_timing
<1>4. QED  BY <1>2, <1>3

LEMMA TpType ==
    ASSUME TypeOK, tick' \in Ticks, in' \in BOOLEAN, exec_tp
    PROVE  tp' \in FlatTimer /\ tp_q' \in BOOLEAN
<1>1. tp \in FlatTimer /\ tp_q \in BOOLEAN
  BY DEF TypeOK
<1>2. tp' \in FlatTimer
  BY <1>1 DEF exec_tp, tp_idle, tp_timing, FlatTimer, Bit
<1>3. tp_q' \in BOOLEAN
  BY <1>1 DEF exec_tp, tp_idle, tp_timing
<1>4. QED  BY <1>2, <1>3

LEMMA TypeStep == TypeOK /\ [Next]_vars => TypeOK'
<1> SUFFICES ASSUME TypeOK, [Next]_vars PROVE TypeOK'
  OBVIOUS
<1>1. CASE UNCHANGED vars
  BY <1>1 DEF TypeOK, vars
<1>2. ASSUME NEW t \in Ticks, NEW v \in BOOLEAN, Scan(t, v) PROVE TypeOK'
  <2>1. tick' \in Ticks /\ in' \in BOOLEAN /\ exec_ton /\ exec_tof /\ exec_tp
    BY <1>2 DEF Scan
  <2>2. QED  BY <2>1, TonType, TofType, TpType DEF TypeOK
<1>3. QED  BY <1>1, <1>2 DEF Next

LEMMA TypeInit == Init => TypeOK
<1> SUFFICES ASSUME Init PROVE TypeOK
  OBVIOUS
<1>1. 0 \in Ticks
  BY TimerAssumption DEF Ticks
<1>2. tof \in FlatTimer
  BY <1>1 DEF Init, FlatTimer
<1>3. tp \in FlatTimer
  BY <1>1 DEF Init, FlatTimer
<1>4. ton \in [phase : 0..2, start : Ticks]
  BY <1>1 DEF Init
<1>5. QED  BY <1>1, <1>2, <1>3, <1>4 DEF Init, TypeOK

(* Whatever the host writes, every flat timer stays in its type: phase 2   *)
(* is reached by TON alone, so the branches of TOF and TP for it are dead. *)
THEOREM TimerTypes == Spec => []TypeOK
BY TypeInit, TypeStep, PTL DEF Spec

-----------------------------------------------------------------------------
(* Q is what the flat state says: a call writes both or neither.           *)

LEMMA TonFresh ==
    ASSUME TypeOK, OutputFollowsState, in' \in BOOLEAN, exec_ton
    PROVE  ton_q' <=> ton'.phase = 2
<1>1. ton \in [phase : 0..2, start : Ticks]
  BY DEF TypeOK
<1>2. CASE Skipped(ton)
  BY <1>2 DEF exec_ton, OutputFollowsState
<1>3. CASE ton_idle
  <2>1. ~ton_q'
    BY <1>3 DEF ton_idle
  <2>2. ton'.phase # 2
    BY <1>1, <1>3 DEF ton_idle
  <2>3. QED  BY <2>1, <2>2
<1>4. CASE ton_timing
  <2>1. ton_q' <=> in' /\ Expired(ton)
    BY <1>4 DEF ton_timing
  <2>2. in' /\ Expired(ton) <=> ton'.phase = 2
    BY <1>1, <1>4 DEF ton_timing, TonReset
  <2>3. QED  BY <2>1, <2>2
<1>5. CASE ton_done
  <2>1. ton_q' <=> in'
    BY <1>5 DEF ton_done
  <2>2. in' <=> ton'.phase = 2
    BY <1>1, <1>5 DEF ton_done, TonReset
  <2>3. QED  BY <2>1, <2>2
<1>6. QED  BY <1>2, <1>3, <1>4, <1>5 DEF exec_ton

LEMMA TofFresh ==
    ASSUME TypeOK, OutputFollowsState, in' \in BOOLEAN, exec_tof
    PROVE  tof_q' <=> (tof'.phase = 1 \/ tof'.prev_in = 1)
<1>1. tof \in FlatTimer
  BY DEF TypeOK
<1>2. CASE Skipped(tof)
  BY <1>2 DEF exec_tof, OutputFollowsState
<1>3. CASE tof_idle
  <2>1. tof_q' <=> in' \/ tof.prev_in = 1
    BY <1>3 DEF tof_idle
  <2>2. in' \/ tof.prev_in = 1 <=> tof'.phase = 1 \/ tof'.prev_in = 1
    BY <1>1, <1>3 DEF tof_idle, FlatTimer
  <2>3. QED  BY <2>1, <2>2
<1>4. CASE tof_timing
  <2>1. tof_q' <=> in' \/ ~Expired(tof)
    BY <1>4 DEF tof_timing
  <2>2. in' \/ ~Expired(tof) <=> tof'.phase = 1 \/ tof'.prev_in = 1
    BY <1>1, <1>4 DEF tof_timing, FlatTimer, Bit
  <2>3. QED  BY <2>1, <2>2
<1>5. QED  BY <1>2, <1>3, <1>4 DEF exec_tof

LEMMA TpFresh ==
    ASSUME TypeOK, OutputFollowsState, in' \in BOOLEAN, exec_tp
    PROVE  tp_q' <=> tp'.phase = 1
<1>1. tp \in FlatTimer
  BY DEF TypeOK
<1>2. CASE Skipped(tp)
  BY <1>2 DEF exec_tp, OutputFollowsState
<1>3. CASE tp_idle
  <2>1. tp_q' <=> in' /\ tp.prev_in = 0
    BY <1>3 DEF tp_idle
  <2>2. in' /\ tp.prev_in = 0 <=> tp'.phase = 1
    BY <1>1, <1>3 DEF tp_idle, FlatTimer
  <2>3. QED  BY <2>1, <2>2
<1>4. CASE tp_timing
  <2>1. tp_q' <=> ~Expired(tp)
    BY <1>4 DEF tp_timing
  <2>2. ~Expired(tp) <=> tp'.phase = 1
    BY <1>1, <1>4 DEF tp_timing, FlatTimer
  <2>3. QED  BY <2>1, <2>2
<1>5. QED  BY <1>2, <1>3, <1>4 DEF exec_tp

LEMMA FreshStep == TypeOK /\ OutputFollowsState /\ [Next]_vars => OutputFollowsState'
<1> SUFFICES ASSUME TypeOK, OutputFollowsState, [Next]_vars PROVE OutputFollowsState'
  OBVIOUS
<1>1. CASE UNCHANGED vars
  BY <1>1 DEF OutputFollowsState, vars
<1>2. ASSUME NEW t \in Ticks, NEW v \in BOOLEAN, Scan(t, v) PROVE OutputFollowsState'
  <2>1. in' \in BOOLEAN /\ exec_ton /\ exec_tof /\ exec_tp
    BY <1>2 DEF Scan
  <2>2. QED  BY <2>1, TonFresh, TofFresh, TpFresh DEF OutputFollowsState
<1>3. QED  BY <1>1, <1>2 DEF Next

(* No order of calls and no tick the host writes, a falling one included,  *)
(* leaves an output slot that disagrees with the flat state of its timer.  *)
THEOREM OutputsNeverStale == Spec => []OutputFollowsState
<1>1. Init => OutputFollowsState
  BY DEF Init, OutputFollowsState
<1>2. QED  BY <1>1, FreshStep, TypeInit, TypeStep, PTL DEF Spec

-----------------------------------------------------------------------------
(* A monotone tick: facts that hold only together.  The last is what the   *)
(* refinement needs besides: TOF's delay runs only after a fall of IN.     *)
TofTimesAFall == tof.phase = 1 => tof.prev_in = 0
Safe == TypeOK /\ NoCallSkipped /\ AnswersInput /\ TofTimesAFall

LEMMA TickInt ==
    ASSUME NEW t \in Ticks
    PROVE  t \in Int
BY TimerAssumption DEF Ticks

LEMMA TonSafe ==
    ASSUME TypeOK, NoCallSkipped, tick' \in Ticks, tick' >= tick, in' \in BOOLEAN, exec_ton
    PROVE  tick' >= ton'.start /\ (ton_q' => in')
<1>1. ton \in [phase : 0..2, start : Ticks] /\ ton_q \in BOOLEAN /\ tick >= ton.start
  BY DEF TypeOK, NoCallSkipped
<1>2. tick \in Int /\ tick' \in Int /\ ton.start \in Int /\ tick' >= 0
  BY <1>1, TickInt, TimerAssumption DEF TypeOK, Ticks
<1>3. ton_idle \/ ton_timing \/ ton_done
  BY <1>1, <1>2 DEF exec_ton, Skipped
<1>4. tick' >= ton'.start
  BY <1>1, <1>2, <1>3 DEF ton_idle, ton_timing, ton_done, TonReset
<1>5. ton_q' => in'
  BY <1>3 DEF ton_idle, ton_timing, ton_done
<1>6. QED  BY <1>4, <1>5

LEMMA TofSafe ==
    ASSUME TypeOK, NoCallSkipped, TofTimesAFall,
           tick' \in Ticks, tick' >= tick, in' \in BOOLEAN, exec_tof
    PROVE  tick' >= tof'.start /\ (in' => tof_q') /\ TofTimesAFall'
<1>1. tof \in FlatTimer /\ tof_q \in BOOLEAN /\ tick >= tof.start
  BY DEF TypeOK, NoCallSkipped
<1>2. tick \in Int /\ tick' \in Int /\ tof.start \in Int
  BY <1>1, TickInt DEF TypeOK, FlatTimer
<1>3. tof_idle \/ tof_timing
  BY <1>1, <1>2 DEF exec_tof, Skipped
<1>4. tick' >= tof'.start
  BY <1>1, <1>2, <1>3 DEF tof_idle, tof_timing, FlatTimer
<1>5. in' => tof_q'
  BY <1>3 DEF tof_idle, tof_timing
<1>6. TofTimesAFall'
  BY <1>1, <1>2, <1>3 DEF TofTimesAFall, tof_idle, tof_timing, Bit, FlatTimer
<1>7. QED  BY <1>4, <1>5, <1>6

LEMMA TpSafe ==
    ASSUME TypeOK, NoCallSkipped, tick' \in Ticks, tick' >= tick, in' \in BOOLEAN, exec_tp
    PROVE  tick' >= tp'.start
<1>1. tp \in FlatTimer /\ tp_q \in BOOLEAN /\ tick >= tp.start
  BY DEF TypeOK, NoCallSkipped
<1>2. tick \in Int /\ tick' \in Int /\ tp.start \in Int
  BY <1>1, TickInt DEF TypeOK, FlatTimer
<1>3. tp_idle \/ tp_timing
  BY <1>1, <1>2 DEF exec_tp, Skipped
<1>4. QED  BY <1>1, <1>2, <1>3 DEF tp_idle, tp_timing, FlatTimer

LEMMA SafeStep == Monotone /\ Safe /\ [Next]_vars => Safe'
<1> SUFFICES ASSUME Monotone, Safe, [Next]_vars PROVE Safe'
  OBVIOUS
<1>1. TypeOK'
  BY TypeStep DEF Safe
<1>2. CASE UNCHANGED vars
  BY <1>1, <1>2 DEF Safe, NoCallSkipped, AnswersInput, TofTimesAFall, vars
<1>3. ASSUME NEW t \in Ticks, NEW v \in BOOLEAN, Scan(t, v)
      PROVE  NoCallSkipped' /\ AnswersInput' /\ TofTimesAFall'
  <2>1. /\ tick' \in Ticks /\ in' \in BOOLEAN /\ tick' >= tick
        /\ exec_ton /\ exec_tof /\ exec_tp
    BY <1>3 DEF Scan
  <2>2. QED
    BY <2>1, TonSafe, TofSafe, TpSafe DEF Safe, NoCallSkipped, AnswersInput
<1>4. QED  BY <1>1, <1>2, <1>3 DEF Next, Safe

LEMMA SafeInit == Init => Safe
<1>1. Init => NoCallSkipped /\ AnswersInput /\ TofTimesAFall
  BY DEF Init, NoCallSkipped, AnswersInput, TofTimesAFall
<1>2. QED  BY <1>1, TypeInit DEF Safe

LEMMA SafeAlways == ASSUME Monotone PROVE Spec => []Safe
<1>1. Safe /\ [Next]_vars => Safe'
  BY SafeStep
<1>2. QED  BY <1>1, SafeInit, PTL DEF Spec

(* While the host's tick never falls, no timer call is ever skipped: the   *)
(* refinement type of the F* combinators' tick argument is met.            *)
THEOREM MonotoneTickMeetsGuard == ASSUME Monotone PROVE Spec => []NoCallSkipped
<1>1. Safe => NoCallSkipped
  BY DEF Safe
<1>2. QED  BY <1>1, SafeAlways, PTL

(* ... and TON and TOF answer IN in the scan that sees it.                 *)
THEOREM MonotoneTickAnswersInput == ASSUME Monotone PROVE Spec => []AnswersInput
<1>1. Safe => AnswersInput
  BY DEF Safe
<1>2. QED  BY <1>1, SafeAlways, PTL

-----------------------------------------------------------------------------
(* The refinement: under a monotone tick and a preset of at least one tick *)
(* every scan of the flat timers is a scan of the combinators.             *)

LEMMA TonMaps ==
    ASSUME ton \in [phase : 0..2, start : Ticks], in' \in BOOLEAN,
           ton_idle \/ ton_timing \/ ton_done
    PROVE  /\ ton_bar' = Abs!ton_state(ton_bar, in', tick')
           /\ ton_q' <=> Abs!ton_out(ton_bar, in', tick')
<1> USE DEF ton_bar, Abs!ton_state, Abs!ton_out, Abs!ton_init, Abs!Elapsed, Expired
<1>1. CASE ton_idle
  <2>1. ton_bar' = Abs!ton_state(ton_bar, in', tick')
    BY <1>1 DEF ton_idle
  <2>2. ~ton_q' /\ ~Abs!ton_out(ton_bar, in', tick')
    BY <1>1 DEF ton_idle
  <2>3. QED  BY <2>1, <2>2
<1>2. CASE ton_timing
  <2>1. ton_bar' = Abs!ton_state(ton_bar, in', tick')
    BY <1>2 DEF ton_timing, TonReset
  <2>2. ton_q' <=> in' /\ Expired(ton)
    BY <1>2 DEF ton_timing
  <2>3. Abs!ton_out(ton_bar, in', tick') <=> in' /\ Expired(ton)
    BY <1>2 DEF ton_timing
  <2>4. QED  BY <2>1, <2>2, <2>3
<1>3. CASE ton_done
  <2>1. ton_bar' = Abs!ton_state(ton_bar, in', tick')
    BY <1>3 DEF ton_done, TonReset
  <2>2. ton_q' <=> in'
    BY <1>3 DEF ton_done
  <2>3. Abs!ton_out(ton_bar, in', tick') <=> in'
    BY <1>3 DEF ton_done
  <2>4. QED  BY <2>1, <2>2, <2>3
<1>4. QED  BY <1>1, <1>2, <1>3

LEMMA TofMaps ==
    ASSUME tof \in FlatTimer, TofTimesAFall, in' \in BOOLEAN, tof_idle \/ tof_timing
    PROVE  flat_bar(tof)' = Abs!tof_state(flat_bar(tof), in', tick')
<1> USE DEF flat_bar, Abs!tof_state, Abs!Seen, FlatTimer
<1>1. CASE tof_idle /\ in' /\ tof.prev_in = 0
  BY <1>1 DEF tof_idle
<1>2. CASE tof_idle /\ in' /\ tof.prev_in = 1
  BY <1>2 DEF tof_idle
<1>3. CASE tof_idle /\ ~in' /\ tof.prev_in = 0
  BY <1>3 DEF tof_idle
<1>4. CASE tof_idle /\ ~in' /\ tof.prev_in = 1
  BY <1>4 DEF tof_idle
<1>5. CASE tof_timing /\ in'
  BY <1>5 DEF tof_timing, Bit
<1>6. CASE tof_timing /\ ~in' /\ Expired(tof)
  BY <1>6 DEF tof_timing, Bit, Expired, Abs!Elapsed, Abs!tof_init
<1>7. CASE tof_timing /\ ~in' /\ ~Expired(tof)
  <2>1. tof' = tof /\ tof.phase = 1 /\ tof.prev_in = 0
    BY <1>7 DEF tof_timing, TofTimesAFall
  <2>2. flat_bar(tof) = [phase |-> "TIMING", prev_in |-> FALSE, start |-> tof.start]
    BY <2>1
  <2>3. QED  BY <1>7, <2>1, <2>2 DEF Expired, Abs!Elapsed
<1>8. QED  BY <1>1, <1>2, <1>3, <1>4, <1>5, <1>6, <1>7

LEMMA TofMapsQ ==
    ASSUME tof \in FlatTimer, in' \in BOOLEAN, tof_idle \/ tof_timing
    PROVE  tof_q' <=> Abs!tof_out(flat_bar(tof), in', tick')
<1>1. CASE tof_idle
  <2>1. tof_q' <=> in' \/ tof.prev_in = 1
    BY <1>1 DEF tof_idle
  <2>2. Abs!tof_out(flat_bar(tof), in', tick') <=> in' \/ tof.prev_in = 1
    BY <1>1 DEF tof_idle, flat_bar, Abs!tof_out, FlatTimer
  <2>3. QED  BY <2>1, <2>2
<1>2. CASE tof_timing
  <2>1. tof_q' <=> in' \/ ~Expired(tof)
    BY <1>2 DEF tof_timing
  <2>2. Abs!tof_out(flat_bar(tof), in', tick') <=> in' \/ ~Expired(tof)
    BY <1>2 DEF tof_timing, flat_bar, Abs!tof_out, FlatTimer, Expired, Abs!Elapsed
  <2>3. QED  BY <2>1, <2>2
<1>3. QED  BY <1>1, <1>2

LEMMA TpMaps ==
    ASSUME tp \in FlatTimer, in' \in BOOLEAN, tp_idle \/ tp_timing, PT > 0
    PROVE  flat_bar(tp)' = Abs!tp_state(flat_bar(tp), in', tick')
<1> USE DEF flat_bar, Abs!tp_state, Abs!Seen, FlatTimer
<1>1. CASE tp_idle /\ in' = TRUE /\ tp.prev_in = 0
  BY <1>1 DEF tp_idle
<1>2. CASE tp_idle /\ in' = TRUE /\ tp.prev_in = 1
  BY <1>2 DEF tp_idle, Bit
<1>3. CASE tp_idle /\ in' = FALSE /\ tp.prev_in = 0
  <2>1. tp' = [phase |-> 0, prev_in |-> 0, start |-> tp.start]
    BY <1>3 DEF tp_idle, Bit
  <2>2. flat_bar(tp)' = [phase |-> "IDLE", prev_in |-> FALSE, start |-> 0]
    BY <2>1
  <2>3. flat_bar(tp) = [phase |-> "IDLE", prev_in |-> FALSE, start |-> 0]
    BY <1>3 DEF tp_idle
  <2>4. QED  BY <1>3, <2>2, <2>3
<1>4. CASE tp_idle /\ in' = FALSE /\ tp.prev_in = 1
  BY <1>4 DEF tp_idle, Bit, Abs!tp_init
<1>5. CASE tp_timing /\ in' = TRUE
  BY <1>5 DEF tp_timing, Bit, Expired, Abs!Elapsed
<1>6. CASE tp_timing /\ in' = FALSE
  <2>1. tp' = [phase |-> IF Expired(tp) THEN 0 ELSE 1, prev_in |-> 0, start |-> tp.start]
    BY <1>6 DEF tp_timing, Bit
  <2>2. CASE Expired(tp)
    <3>1. flat_bar(tp)' = [phase |-> "IDLE", prev_in |-> FALSE, start |-> 0]
      BY <2>1, <2>2
    <3>2. QED  BY <1>6, <2>2, <3>1 DEF tp_timing, Expired, Abs!Elapsed
  <2>3. CASE ~Expired(tp)
    <3>1. flat_bar(tp)' = [phase |-> "TIMING", prev_in |-> FALSE, start |-> tp.start]
      BY <2>1, <2>3
    <3>2. QED  BY <1>6, <2>3, <3>1 DEF tp_timing, Expired, Abs!Elapsed
  <2>4. QED  BY <2>2, <2>3
<1>7. (in' = TRUE \/ in' = FALSE) /\ (tp.prev_in = 0 \/ tp.prev_in = 1)
  OBVIOUS
<1>8. QED  BY <1>1, <1>2, <1>3, <1>4, <1>5, <1>6, <1>7

LEMMA TpMapsQ ==
    ASSUME tp \in FlatTimer, in' \in BOOLEAN, tp_idle \/ tp_timing, PT > 0
    PROVE  tp_q' <=> Abs!tp_out(flat_bar(tp), in', tick')
<1>1. CASE tp_idle
  <2>1. tp_q' <=> in' /\ tp.prev_in = 0
    BY <1>1 DEF tp_idle
  <2>2. Abs!tp_out(flat_bar(tp), in', tick') <=> in' /\ tp.prev_in = 0
    BY <1>1 DEF tp_idle, flat_bar, Abs!tp_out, FlatTimer
  <2>3. QED  BY <2>1, <2>2
<1>2. CASE tp_timing
  <2>1. tp_q' <=> ~Expired(tp)
    BY <1>2 DEF tp_timing
  <2>2. Abs!tp_out(flat_bar(tp), in', tick') <=> ~Expired(tp)
    BY <1>2 DEF tp_timing, flat_bar, Abs!tp_out, FlatTimer, Expired, Abs!Elapsed
  <2>3. QED  BY <2>1, <2>2
<1>3. QED  BY <1>1, <1>2

LEMMA RefinementStep ==
    ASSUME Monotone, PT > 0, Safe, NEW t \in Ticks, NEW v \in BOOLEAN, Scan(t, v)
    PROVE  Abs!Scan(t, v)
<1>1. /\ tick' = t /\ tick' \in Ticks /\ tick' >= tick
      /\ in' = v /\ in' \in BOOLEAN
      /\ exec_ton /\ exec_tof /\ exec_tp
  BY DEF Scan
<1>2. /\ ton \in [phase : 0..2, start : Ticks] /\ tof \in FlatTimer /\ tp \in FlatTimer
      /\ tick >= ton.start /\ tick >= tof.start /\ tick >= tp.start
  BY DEF Safe, TypeOK, NoCallSkipped
<1>3. /\ tick \in Int /\ tick' \in Int
      /\ ton.start \in Int /\ tof.start \in Int /\ tp.start \in Int
  BY <1>1, <1>2, TickInt DEF Safe, TypeOK, FlatTimer
<1>4. /\ t >= ton.start /\ t >= tof.start /\ t >= tp.start /\ t >= 0
  BY <1>1, <1>2, <1>3, TimerAssumption DEF Ticks
<1>5. /\ ton_idle \/ ton_timing \/ ton_done
      /\ tof_idle \/ tof_timing
      /\ tp_idle \/ tp_timing
  BY <1>1, <1>3, <1>4 DEF exec_ton, exec_tof, exec_tp, Skipped
<1>6. Abs!TickGuard(t)
  BY <1>4 DEF Abs!TickGuard, ton_bar, flat_bar
<1>7. ton_q' \in BOOLEAN /\ tof_q' \in BOOLEAN /\ tp_q' \in BOOLEAN
  BY <1>1, TonType, TofType, TpType DEF Safe
<1>8. ton_bar' = Abs!ton_state(ton_bar, v, t) /\ ton_q' = Abs!ton_out(ton_bar, v, t)
  BY <1>1, <1>2, <1>5, <1>7, TonMaps DEF Abs!ton_out
<1>9. flat_bar(tof)' = Abs!tof_state(flat_bar(tof), v, t)
  BY <1>1, <1>2, <1>5, TofMaps DEF Safe
<1>10. tof_q' = Abs!tof_out(flat_bar(tof), v, t)
  BY <1>1, <1>2, <1>5, <1>7, TofMapsQ DEF Abs!tof_out
<1>11. flat_bar(tp)' = Abs!tp_state(flat_bar(tp), v, t)
  BY <1>1, <1>2, <1>5, TpMaps
<1>12. tp_q' = Abs!tp_out(flat_bar(tp), v, t)
  BY <1>1, <1>2, <1>5, <1>7, TpMapsQ DEF Abs!tp_out
<1>13. QED  BY <1>1, <1>6, <1>8, <1>9, <1>10, <1>11, <1>12 DEF Abs!Scan

(* The interpreter's inlined timers behave as ton_step, tof_step, tp_step, *)
(* for every preset of a tick or more, if the host's tick never falls.     *)
THEOREM TimersRefineCombinators ==
    ASSUME Monotone, PT > 0
    PROVE  Spec => RefinesCombinators
<1>1. Init => Abs!Init
  BY DEF Init, Abs!Init, Abs!ton_init, Abs!tof_init, Abs!tp_init, ton_bar, flat_bar
<1>2. Safe /\ [Next]_vars => [Abs!Next]_Abs!vars
  <2> SUFFICES ASSUME Safe, [Next]_vars PROVE [Abs!Next]_Abs!vars
    OBVIOUS
  <2>1. CASE UNCHANGED vars
    BY <2>1 DEF vars, Abs!vars, ton_bar, flat_bar
  <2>2. ASSUME NEW t \in Ticks, NEW v \in BOOLEAN, Scan(t, v) PROVE Abs!Next
    BY <2>2, RefinementStep DEF Abs!Next, Ticks
  <2>3. QED  BY <2>1, <2>2 DEF Next
<1>3. QED  BY <1>1, <1>2, SafeAlways, PTL DEF Spec, Abs!Spec, RefinesCombinators
-----------------------------------------------------------------------------
(* The requirements on the history of calls (MCTimers): what each timer    *)
(* keeps of the calls so far.  HNext's ticks never fall, whatever Monotone *)
(* says.                                                                   *)

Called == [tick : Ticks, in : BOOLEAN]

History ==
    /\ calls \in Seq(Called)
    /\ N # 0 => calls[N].tick = tick
    /\ \A j, k \in 1 .. N : j <= k => calls[j].tick <= calls[k].tick

LEMMA CallsTyped ==
    ASSUME History
    PROVE  N \in Nat /\ \A k \in 1 .. N : calls[k].tick \in Int
<1>1. calls \in Seq(Called)
  BY DEF History
<1>2. N \in Nat /\ \A k \in 1 .. N : calls[k] \in Called
  BY <1>1 DEF N
<1>3. \A k \in 1 .. N : calls[k].tick \in Ticks
  BY <1>2 DEF Called
<1>4. QED  BY <1>2, <1>3, TickInt

Recorded == calls' = Append(calls, [tick |-> tick', in |-> in'])

HStep == /\ Safe /\ History
         /\ tick' \in Ticks /\ in' \in BOOLEAN /\ tick' >= tick
         /\ exec_ton /\ exec_tof /\ exec_tp
         /\ Recorded

LEMMA OneMoreCall ==
    ASSUME HStep
    PROVE  /\ N \in Nat /\ N' = N + 1
           /\ calls' \in Seq(Called)
           /\ calls'[N + 1].tick = tick' /\ calls'[N + 1].in = in'
           /\ \A k \in 1 .. N : calls'[k] = calls[k] /\ calls[k] \in Called
<1>1. calls \in Seq(Called) /\ [tick |-> tick', in |-> in'] \in Called
  BY DEF HStep, History, Called
<1>2. QED  BY <1>1 DEF N, HStep, Recorded

LEMMA CallTicks ==
    ASSUME HStep
    PROVE  /\ tick \in Int /\ tick' \in Int /\ tick <= tick'
           /\ \A k \in 1 .. N : calls[k].tick \in Int /\ calls[k].tick <= tick
<1>1. tick \in Int /\ tick' \in Int /\ tick <= tick'
  BY TickInt DEF HStep, Safe, TypeOK
<1>2. N \in Nat /\ \A k \in 1 .. N : calls[k] \in Called
  BY OneMoreCall
<1>3. ASSUME NEW k \in 1 .. N PROVE calls[k].tick \in Int /\ calls[k].tick <= tick
  <2>1. k <= N /\ N \in 1 .. N /\ N # 0
    BY <1>2
  <2>2. calls[k].tick <= calls[N].tick /\ calls[N].tick = tick
    BY <2>1 DEF HStep, History
  <2>3. calls[k].tick \in Int
    BY <1>2, TickInt DEF Called
  <2>4. QED  BY <2>2, <2>3
<1>4. QED  BY <1>1, <1>3

LEMMA HistoryKeeps == HStep => History'
<1> SUFFICES ASSUME HStep PROVE History'
  OBVIOUS
<1>1. /\ N \in Nat /\ N' = N + 1
      /\ calls' \in Seq(Called)
      /\ calls'[N + 1].tick = tick'
      /\ \A k \in 1 .. N : calls'[k] = calls[k]
  BY OneMoreCall
<1>2. N' # 0 => calls'[N'].tick = tick'
  BY <1>1
<1>3. ASSUME NEW j \in 1 .. N', NEW k \in 1 .. N', j <= k
      PROVE  calls'[j].tick <= calls'[k].tick
  <2>1. CASE k \in 1 .. N
    <3>1. j \in 1 .. N
      BY <1>1, <1>3, <2>1
    <3>2. QED  BY <1>1, <1>3, <2>1, <3>1 DEF HStep, History
  <2>2. CASE k = N + 1 /\ j \in 1 .. N
    BY <1>1, <2>2, CallTicks
  <2>3. CASE k = N + 1 /\ j = N + 1
    BY <1>1, <2>3, CallTicks
  <2>4. QED  BY <1>1, <1>3, <2>1, <2>2, <2>3
<1>4. QED  BY <1>1, <1>2, <1>3 DEF History

(* What one more call does to the operators of the requirements.           *)
LEMMA HeldInGrows ==
    ASSUME HStep, NEW v \in BOOLEAN
    PROVE  /\ \A i \in 1 .. N : HeldIn(i, v)' <=> HeldIn(i, v) /\ in' = v
           /\ \A i \in Nat : i = N + 1 => (HeldIn(i, v)' <=> in' = v)
<1>1. /\ N \in Nat /\ N' = N + 1
      /\ calls'[N + 1].in = in'
      /\ \A k \in 1 .. N : calls'[k] = calls[k]
  BY OneMoreCall
<1>2. \A i : HeldIn(i, v)' <=> \A j \in i .. N' : calls'[j].in = v
  BY DEF HeldIn
<1>3. \A i \in 1 .. N : i .. N' = (i .. N) \cup {N + 1} /\ i .. N \subseteq 1 .. N
  BY <1>1
<1>4. \A i \in Nat : i = N + 1 => i .. N' = {N + 1}
  BY <1>1
<1>5. \A i \in 1 .. N : HeldIn(i, v)' <=> HeldIn(i, v) /\ in' = v
  BY <1>1, <1>2, <1>3 DEF HeldIn
<1>6. QED  BY <1>1, <1>2, <1>4, <1>5

LEMMA RiseStays ==
    ASSUME HStep
    PROVE  /\ \A i \in 1 .. N : InRise(i)' <=> InRise(i)
           /\ \A i \in Nat : i = N + 1 => (InRise(i)' <=> in' /\ (N = 0 \/ ~calls[N].in))
<1>1. /\ N \in Nat /\ N' = N + 1
      /\ calls'[N + 1].in = in'
      /\ \A k \in 1 .. N : calls'[k] = calls[k]
  BY OneMoreCall
<1>2. \A i : InRise(i)' <=> calls'[i].in /\ (i = 1 \/ ~calls'[i - 1].in)
  BY DEF InRise
<1>3. ASSUME NEW i \in 1 .. N PROVE InRise(i)' <=> InRise(i)
  <2>1. i = 1 \/ i - 1 \in 1 .. N
    BY <1>1
  <2>2. QED  BY <1>1, <1>2, <2>1 DEF InRise
<1>4. ASSUME NEW i \in Nat, i = N + 1
      PROVE  InRise(i)' <=> in' /\ (N = 0 \/ ~calls[N].in)
  <2>1. (i = 1 <=> N = 0) /\ i - 1 = N /\ (N # 0 => N \in 1 .. N)
    <3>1. N \in Nat
      BY <1>1
    <3>2. QED  BY <1>4, <3>1
  <2>2. N # 0 => calls'[i - 1] = calls[N]
    BY <1>1, <2>1
  <2>3. calls'[i].in = in'
    BY <1>1, <1>4
  <2>4. QED  BY <1>2, <2>1, <2>2, <2>3
<1>5. QED  BY <1>3, <1>4
-----------------------------------------------------------------------------
(* TON: outside IDLE exactly while IN holds, since the first call of the   *)
(* run that holds it.                                                      *)
RunFrom(i) == InRise(i) /\ HeldIn(i, TRUE) /\ ton.start = calls[i].tick

TonHistory ==
    /\ ton.phase # 0 <=> N # 0 /\ calls[N].in
    /\ ton.phase # 0 =>
          \E i \in 1 .. N : RunFrom(i) /\ (ton.phase = 2 <=> i # N /\ tick - ton.start >= PT)

LEMMA TonHistoryKeeps == HStep /\ TonHistory => TonHistory'
<1> SUFFICES ASSUME HStep, TonHistory PROVE TonHistory'
  OBVIOUS
<1>1. N \in Nat /\ N' = N + 1 /\ calls'[N'].in = in' /\ in' \in BOOLEAN
  BY OneMoreCall DEF HStep
<1>2. \A k \in 1 .. N : calls'[k] = calls[k]
  BY OneMoreCall
<1>3. ton \in [phase : 0..2, start : Ticks] /\ ton.start \in Int
  BY TickInt DEF HStep, Safe, TypeOK
<1>4. tick \in Int /\ tick' \in Int /\ tick <= tick' /\ PT \in Nat
  BY CallTicks, PTNat
<1>5. ton_idle \/ ton_timing \/ ton_done
  <2>1. tick >= ton.start
    BY DEF HStep, Safe, NoCallSkipped
  <2>2. QED  BY <1>3, <1>4, <2>1 DEF HStep, exec_ton, Skipped
<1>6. ton'.phase # 0 <=> in'
  BY <1>3, <1>5 DEF ton_idle, ton_timing, ton_done, TonReset
<1>7. ASSUME in', ton.phase = 0
      PROVE  \E i \in 1 .. N' : RunFrom(i)' /\ (ton'.phase = 2 <=> i # N' /\ tick' - ton'.start >= PT)
  <2>1. ton'.phase = 1 /\ ton'.start = tick'
    BY <1>5, <1>7 DEF ton_idle, ton_timing, ton_done
  <2>2. N = 0 \/ ~calls[N].in
    BY <1>7 DEF TonHistory
  <2>3. PICK i \in 1 .. N' : i = N'
    BY <1>1
  <2>4. i \in Nat /\ i = N + 1
    BY <1>1, <2>3
  <2>5. InRise(i)' /\ HeldIn(i, TRUE)'
    BY <1>7, <2>2, <2>4, RiseStays, HeldInGrows
  <2>6. calls'[i].tick = tick'
    BY <2>4, OneMoreCall
  <2>7. RunFrom(i)' /\ i = N' /\ ton'.phase # 2
    <3>1. RunFrom(i)'
      BY <2>1, <2>5, <2>6 DEF RunFrom
    <3>2. ton'.phase # 2
      BY <2>1
    <3>3. QED  BY <2>3, <3>1, <3>2
  <2>8. QED  BY <2>7
<1>8. ASSUME in', ton.phase # 0
      PROVE  \E i \in 1 .. N' : RunFrom(i)' /\ (ton'.phase = 2 <=> i # N' /\ tick' - ton'.start >= PT)
  <2>1. PICK i \in 1 .. N : RunFrom(i) /\ (ton.phase = 2 <=> i # N /\ tick - ton.start >= PT)
    BY <1>8 DEF TonHistory
  <2>2. ton'.start = ton.start
    <3>1. CASE ton_timing
      BY <1>8, <3>1 DEF ton_timing
    <3>2. CASE ton_done
      BY <1>8, <3>2 DEF ton_done
    <3>3. QED  BY <1>5, <1>8, <3>1, <3>2 DEF ton_idle
  <2>3. ton'.phase = 2 <=> tick' - ton.start >= PT
    <3>1. CASE ton_timing
      BY <1>8, <3>1 DEF ton_timing, Expired
    <3>2. CASE ton_done
      BY <1>3, <1>4, <1>8, <2>1, <3>2 DEF ton_done
    <3>3. QED  BY <1>5, <1>8, <3>1, <3>2 DEF ton_idle
  <2>4. i \in 1 .. N' /\ i # N'
    BY <1>1
  <2>5. RunFrom(i)'
    BY <1>2, <1>8, <2>1, <2>2, RiseStays, HeldInGrows DEF RunFrom
  <2>6. QED  BY <2>2, <2>3, <2>4, <2>5
<1>9. QED
  <2>1. N' # 0
    BY <1>1
  <2>2. ton'.phase # 0 => \E i \in 1 .. N' : RunFrom(i)' /\ (ton'.phase = 2 <=> i # N' /\ tick' - ton'.start >= PT)
    BY <1>6, <1>7, <1>8
  <2>3. QED  BY <1>1, <1>6, <2>1, <2>2 DEF TonHistory

LEMMA TonMeets ==
    ASSUME Safe, History, OutputFollowsState, TonHistory
    PROVE  TonMeetsPreset
<1>1. N \in Nat /\ \A k \in 1 .. N : calls[k].tick \in Int
  BY CallsTyped
<1>2. ton_q <=> ton.phase = 2
  BY DEF OutputFollowsState
<1>3. PT \in Nat /\ tick \in Int /\ ton.start \in Int
  BY PTNat, TickInt DEF Safe, TypeOK
<1>4. ASSUME ton.phase = 2
      PROVE  \E i \in 1 .. N - 1 : HeldIn(i, TRUE) /\ Elapsed(i, N) >= PT
  <2>1. PICK i \in 1 .. N : RunFrom(i) /\ i # N /\ tick - ton.start >= PT
    BY <1>4 DEF TonHistory
  <2>2. i \in 1 .. N - 1 /\ N # 0
    BY <1>1, <2>1
  <2>3. QED  BY <2>1, <2>2 DEF RunFrom, Elapsed, History
<1>5. ASSUME NEW j \in 1 .. N - 1, HeldIn(j, TRUE), Elapsed(j, N) >= PT
      PROVE  ton.phase = 2
  <2>1. j \in 1 .. N /\ j # N /\ N \in j .. N /\ N # 0 /\ j < N
    BY <1>1
  <2>2. ton.phase # 0
    BY <1>5, <2>1 DEF HeldIn, TonHistory
  <2>3. PICK i \in 1 .. N : RunFrom(i) /\ (ton.phase = 2 <=> i # N /\ tick - ton.start >= PT)
    BY <2>2 DEF TonHistory
  <2>4. i <= j
    <3>1. SUFFICES ASSUME j < i PROVE FALSE
      BY <1>1
    <3>2. i - 1 \in j .. N /\ i # 1
      BY <1>1, <3>1
    <3>3. calls[i - 1].in = TRUE
      BY <1>5, <3>2 DEF HeldIn
    <3>4. QED  BY <2>3, <3>2, <3>3 DEF RunFrom, InRise
  <2>5. calls[i].tick <= calls[j].tick /\ calls[N].tick = tick
    BY <2>1, <2>4 DEF History
  <2>6. calls[i].tick = ton.start /\ calls[N].tick - calls[j].tick >= PT
    BY <1>5, <2>3 DEF RunFrom, Elapsed
  <2>7. tick - ton.start >= PT
    BY <1>1, <1>3, <2>1, <2>5, <2>6
  <2>8. i # N
    BY <1>1, <2>1, <2>4
  <2>9. QED  BY <2>3, <2>7, <2>8
<1>6. QED  BY <1>2, <1>4, <1>5 DEF TonMeetsPreset

(* The preset rounded to ticks loses less than a period.                   *)
LEMMA PresetRounds ==
    ASSUME NEW e \in Int, e >= PT
    PROVE  e * PeriodUs > PtUs - PeriodUs
<1>1. PtUs \in Nat /\ PeriodUs \in Nat /\ PeriodUs > 0
  BY TimerAssumption
<1>2. PT = PtUs \div PeriodUs
  BY <1>1 DEF PT, pt_us_to_ticks_low
<1>3. PT \in Nat /\ PtUs < (PT + 1) * PeriodUs
  BY <1>1, <1>2
<1>4. (PT + 1) * PeriodUs = PT * PeriodUs + PeriodUs
  BY <1>1, <1>3
<1>5. e * PeriodUs >= PT * PeriodUs
  BY <1>1, <1>3
<1>6. e * PeriodUs \in Int /\ PT * PeriodUs \in Int
  BY <1>1, <1>3
<1>7. QED  BY <1>1, <1>3, <1>4, <1>5, <1>6

LEMMA TonEarly ==
    ASSUME Safe, History, TonMeetsPreset
    PROVE  TonEarlyByLessThanAPeriod
<1>1. SUFFICES ASSUME ton_q
               PROVE  \E i \in 1 .. N - 1 :
                        HeldIn(i, TRUE) /\ Elapsed(i, N) * PeriodUs > PtUs - PeriodUs
  BY DEF TonEarlyByLessThanAPeriod
<1>2. PICK i \in 1 .. N - 1 : HeldIn(i, TRUE) /\ Elapsed(i, N) >= PT
  BY <1>1 DEF TonMeetsPreset
<1>3. N \in Nat /\ \A k \in 1 .. N : calls[k].tick \in Int
  BY CallsTyped
<1>4. i \in 1 .. N /\ N \in 1 .. N
  BY <1>3
<1>5. Elapsed(i, N) \in Int
  BY <1>3, <1>4 DEF Elapsed
<1>6. QED  BY <1>2, <1>5, PresetRounds
-----------------------------------------------------------------------------
(* TOF: timing exactly since the last fall of IN, for less than PT.        *)
FellAt(i) == calls[i - 1].in /\ HeldIn(i, FALSE)

TofHistory ==
    /\ tof.prev_in = 1 <=> N # 0 /\ calls[N].in
    /\ tof.phase = 1 =>
          \E i \in 2 .. N : /\ FellAt(i) /\ tof.start = calls[i].tick
                            /\ i = N \/ tick - tof.start < PT
    /\ tof.phase = 0 /\ tof.prev_in = 0 =>
          \A i \in 2 .. N : FellAt(i) => i # N /\ tick - calls[i].tick >= PT

LEMMA FellGrows ==
    ASSUME HStep
    PROVE  /\ \A i \in 2 .. N : FellAt(i)' <=> FellAt(i) /\ ~in'
           /\ \A i \in Nat : i = N + 1 /\ N # 0 => (FellAt(i)' <=> calls[N].in /\ ~in')
<1>1. N \in Nat /\ in' \in BOOLEAN /\ \A k \in 1 .. N : calls'[k] = calls[k]
  BY OneMoreCall DEF HStep
<1>2. ASSUME NEW i \in 2 .. N PROVE FellAt(i)' <=> FellAt(i) /\ ~in'
  <2>1. i \in 1 .. N /\ i - 1 \in 1 .. N
    BY <1>1
  <2>2. calls'[i - 1] = calls[i - 1]
    BY <1>1, <2>1
  <2>3. HeldIn(i, FALSE)' <=> HeldIn(i, FALSE) /\ ~in'
    BY <1>1, <2>1, HeldInGrows
  <2>4. QED  BY <2>2, <2>3 DEF FellAt
<1>3. ASSUME NEW i \in Nat, i = N + 1, N # 0 PROVE FellAt(i)' <=> calls[N].in /\ ~in'
  <2>1. N \in 1 .. N /\ i - 1 = N
    BY <1>1, <1>3
  <2>2. calls'[i - 1] = calls[N]
    BY <1>1, <2>1
  <2>3. HeldIn(i, FALSE)' <=> ~in'
    BY <1>1, <1>3, HeldInGrows
  <2>4. QED  BY <2>2, <2>3 DEF FellAt
<1>4. QED  BY <1>2, <1>3

(* IN fell at one call at most and has been FALSE since.                   *)
LEMMA OneFall ==
    ASSUME N \in Nat, NEW i \in 2 .. N, NEW j \in 2 .. N, FellAt(i), FellAt(j)
    PROVE  i = j
<1>1. ASSUME NEW a \in 2 .. N, NEW b \in 2 .. N, FellAt(a), FellAt(b), a < b PROVE FALSE
  <2>1. b - 1 \in a .. N
    BY <1>1
  <2>2. QED  BY <1>1, <2>1 DEF FellAt, HeldIn
<1>2. i < j \/ j < i \/ i = j
  OBVIOUS
<1>3. QED  BY <1>1, <1>2

LEMMA TofHistoryKeeps == HStep /\ TofHistory => TofHistory'
<1> SUFFICES ASSUME HStep, TofHistory PROVE TofHistory'
  OBVIOUS
<1>1. N \in Nat /\ N' = N + 1 /\ calls'[N'].in = in' /\ in' \in BOOLEAN /\ N' # 0
  BY OneMoreCall DEF HStep
<1>2. \A k \in 1 .. N : calls'[k] = calls[k]
  BY OneMoreCall
<1>3. tof \in FlatTimer /\ tof.start \in Int
  BY TickInt DEF HStep, Safe, TypeOK, FlatTimer
<1>4. tick \in Int /\ tick' \in Int /\ tick <= tick' /\ PT \in Nat
  BY CallTicks, PTNat
<1>5. tof_idle \/ tof_timing
  <2>1. tick >= tof.start
    BY DEF HStep, Safe, NoCallSkipped
  <2>2. QED  BY <1>3, <1>4, <2>1 DEF HStep, exec_tof, Skipped
<1>6. tof'.prev_in = 1 <=> in'
  <2>1. tof_timing => tof.prev_in = 0
    BY DEF HStep, Safe, TofTimesAFall, tof_timing
  <2>2. CASE tof_idle
    BY <1>3, <2>2 DEF tof_idle, FlatTimer
  <2>3. CASE tof_timing
    BY <1>3, <2>1, <2>3 DEF tof_timing, FlatTimer, Bit
  <2>4. QED  BY <1>5, <2>2, <2>3
<1>7. ASSUME tof'.phase = 1
      PROVE  \E i \in 2 .. N' : /\ FellAt(i)' /\ tof'.start = calls'[i].tick
                                /\ i = N' \/ tick' - tof'.start < PT
  <2>1. CASE tof_idle
    <3>1. ~in' /\ tof.prev_in = 1 /\ tof'.start = tick'
      BY <1>7, <2>1 DEF tof_idle
    <3>2. N # 0 /\ calls[N].in
      BY <3>1 DEF TofHistory
    <3>3. PICK i \in 2 .. N' : i = N'
      BY <1>1, <3>2
    <3>4. i \in Nat /\ i = N + 1
      BY <1>1, <3>3
    <3>5. FellAt(i)'
      BY <3>1, <3>2, <3>4, FellGrows
    <3>6. calls'[i].tick = tick'
      BY <3>4, OneMoreCall
    <3>7. QED  BY <3>1, <3>3, <3>5, <3>6
  <2>2. CASE tof_timing
    <3>1. ~in' /\ ~Expired(tof) /\ tof' = tof /\ tof.phase = 1
      BY <1>7, <2>2 DEF tof_timing
    <3>2. PICK i \in 2 .. N : FellAt(i) /\ tof.start = calls[i].tick
      BY <3>1 DEF TofHistory
    <3>3. i \in 2 .. N' /\ i \in 1 .. N
      BY <1>1
    <3>4. FellAt(i)' /\ calls'[i] = calls[i]
      BY <1>2, <3>1, <3>2, <3>3, FellGrows
    <3>5. tick' - tof.start < PT
      BY <1>3, <1>4, <3>1 DEF Expired
    <3>6. QED  BY <3>1, <3>2, <3>3, <3>4, <3>5
  <2>3. QED  BY <1>5, <2>1, <2>2
<1>8. ASSUME tof'.phase = 0, tof'.prev_in = 0, NEW i \in 2 .. N', FellAt(i)'
      PROVE  i # N' /\ tick' - calls'[i].tick >= PT
  <2>1. ~in'
    BY <1>3, <1>6, <1>8
  <2>2. ~(tof_idle /\ tof.prev_in = 1)
    BY <1>8, <2>1 DEF tof_idle
  <2>3. N # 0
    BY <1>1
  <2>4. tof.prev_in = 0
    <3>1. tof_timing => tof.prev_in = 0
      BY DEF HStep, Safe, TofTimesAFall, tof_timing
    <3>2. QED  BY <1>3, <1>5, <2>2, <3>1 DEF FlatTimer
  <2>5. ~calls[N].in
    BY <2>3, <2>4 DEF TofHistory
  <2>6. i # N'
    <3>1. SUFFICES ASSUME i = N' PROVE FALSE
      OBVIOUS
    <3>2. i \in Nat /\ i = N + 1
      BY <1>1, <3>1
    <3>3. QED  BY <1>8, <2>3, <2>5, <3>2, FellGrows
  <2>7. i \in 2 .. N /\ i \in 1 .. N
    BY <1>1, <2>6
  <2>8. FellAt(i) /\ calls'[i] = calls[i] /\ calls[i].tick \in Int
    BY <1>2, <1>8, <2>7, FellGrows, CallTicks
  <2>9. CASE tof_idle
    <3>1. tick - calls[i].tick >= PT
      BY <2>4, <2>7, <2>8, <2>9 DEF tof_idle, TofHistory
    <3>2. QED  BY <1>4, <2>6, <2>8, <3>1
  <2>10. CASE tof_timing
    <3>1. tof.phase = 1 /\ Expired(tof)
      BY <1>8, <2>1, <2>10 DEF tof_timing
    <3>2. PICK j \in 2 .. N : FellAt(j) /\ tof.start = calls[j].tick
      BY <3>1 DEF TofHistory
    <3>3. i = j
      BY <1>1, <2>7, <2>8, <3>2, OneFall
    <3>4. QED  BY <2>6, <2>8, <3>1, <3>2, <3>3 DEF Expired
  <2>11. QED  BY <1>5, <2>9, <2>10
<1>9. QED  BY <1>1, <1>6, <1>7, <1>8 DEF TofHistory

LEMMA TofMeets ==
    ASSUME Safe, History, OutputFollowsState, TofHistory
    PROVE  TofMeetsPreset
<1>1. N \in Nat /\ \A k \in 1 .. N : calls[k].tick \in Int
  BY CallsTyped
<1>2. tof_q <=> tof.phase = 1 \/ tof.prev_in = 1
  BY DEF OutputFollowsState
<1>3. N # 0 => calls[N].tick = tick
  BY DEF History
<1>4. tof.phase \in {0, 1} /\ tof.prev_in \in {0, 1} /\ (N > 0 <=> N # 0)
  BY <1>1 DEF Safe, TypeOK, FlatTimer
<1>5. ASSUME tof.phase = 1
      PROVE  \E i \in 2 .. N : /\ calls[i - 1].in /\ HeldIn(i, FALSE)
                               /\ i = N \/ Elapsed(i, N) < PT
  <2>1. PICK i \in 2 .. N : /\ FellAt(i) /\ tof.start = calls[i].tick
                            /\ i = N \/ tick - tof.start < PT
    BY <1>5 DEF TofHistory
  <2>2. N # 0
    BY <1>1
  <2>3. QED  BY <1>3, <2>1, <2>2 DEF FellAt, Elapsed
<1>6. ASSUME tof.phase = 0, tof.prev_in = 0,
             NEW i \in 2 .. N, calls[i - 1].in, HeldIn(i, FALSE), i = N \/ Elapsed(i, N) < PT
      PROVE  FALSE
  <2>1. i # N /\ tick - calls[i].tick >= PT
    BY <1>6 DEF TofHistory, FellAt
  <2>2. N # 0 /\ i \in 1 .. N /\ PT \in Nat /\ tick \in Int
    BY <1>1, PTNat, TickInt DEF Safe, TypeOK
  <2>3. QED  BY <1>1, <1>3, <1>6, <2>1, <2>2 DEF Elapsed
<1>7. tof.prev_in = 1 <=> N # 0 /\ calls[N].in
  BY DEF TofHistory
<1>8. QED  BY <1>2, <1>4, <1>5, <1>6, <1>7 DEF TofMeetsPreset
-----------------------------------------------------------------------------
(* TP: one call more, and the set of the calls that start a pulse.         *)
LEMMA OverStays ==
    ASSUME HStep, NEW k \in 1 .. N
    PROVE  /\ \A i \in 1 .. N + 1 : OverBefore(k, i)' <=> OverBefore(k, i)
           /\ \A i \in Nat : i = N + 2 =>
                (OverBefore(k, i)' <=> OverBefore(k, N + 1) \/ tick' - calls[k].tick >= PT)
<1>1. /\ N \in Nat /\ N' = N + 1
      /\ \A j \in 1 .. N : calls'[j] = calls[j]
      /\ calls'[N + 1].tick = tick'
  BY OneMoreCall
<1>2. \A i : OverBefore(k, i)' <=> \E m \in k + 1 .. i - 1 : calls'[m].tick - calls'[k].tick >= PT
  BY DEF OverBefore, Elapsed, PT
<1>3. \A i : OverBefore(k, i) <=> \E m \in k + 1 .. i - 1 : calls[m].tick - calls[k].tick >= PT
  BY DEF OverBefore, Elapsed
<1>4. ASSUME NEW i \in 1 .. N + 1 PROVE OverBefore(k, i)' <=> OverBefore(k, i)
  <2>1. k + 1 .. i - 1 \subseteq 1 .. N
    BY <1>1
  <2>2. QED  BY <1>1, <1>2, <1>3, <2>1
<1>5. ASSUME NEW i \in Nat, i = N + 2
      PROVE  OverBefore(k, i)' <=> OverBefore(k, N + 1) \/ tick' - calls[k].tick >= PT
  <2>1. /\ k + 1 .. i - 1 = (k + 1 .. N) \cup {N + 1}
        /\ k + 1 .. N \subseteq 1 .. N
        /\ k + 1 .. (N + 1) - 1 = k + 1 .. N
    BY <1>1, <1>5
  <2>2. OverBefore(k, N + 1) <=> \E m \in k + 1 .. N : calls[m].tick - calls[k].tick >= PT
    BY <1>3, <2>1
  <2>3. OverBefore(k, i)' <=> \/ \E m \in k + 1 .. N : calls'[m].tick - calls'[k].tick >= PT
                              \/ calls'[N + 1].tick - calls'[k].tick >= PT
    BY <1>2, <2>1
  <2>4. QED  BY <1>1, <2>1, <2>2, <2>3
<1>6. QED  BY <1>4, <1>5

(* The pulses so far stay the pulses; the new call adds itself iff it is a *)
(* rise that none of them covers.                                          *)
LEMMA PulsesGrow ==
    ASSUME HStep, NEW P \in SUBSET (1 .. N), Pulses(P), NEW Q,
           Q = IF in' /\ (N = 0 \/ ~calls[N].in) /\ \A k \in P : OverBefore(k, N + 1)
               THEN P \cup {N + 1} ELSE P
    PROVE  Q \subseteq 1 .. N' /\ Pulses(Q)'
<1> DEFINE starts == in' /\ (N = 0 \/ ~calls[N].in) /\ \A k \in P : OverBefore(k, N + 1)
<1>1. Q = IF starts THEN P \cup {N + 1} ELSE P
  OBVIOUS
<1>2. N \in Nat /\ N' = N + 1 /\ 1 .. N' = (1 .. N) \cup {N + 1} /\ N + 1 \notin 1 .. N
  BY OneMoreCall
<1>3. P = {i \in 1 .. N : InRise(i) /\ \A k \in P : k < i => OverBefore(k, i)}
  BY DEF Pulses
<1>4. ASSUME NEW i \in 1 .. N
      PROVE  i \in Q <=> InRise(i)' /\ \A k \in Q : k < i => OverBefore(k, i)'
  <2>1. i \in Q <=> i \in P
    BY <1>1, <1>2
  <2>2. \A k \in Q : k < i <=> k < i /\ k \in P
    BY <1>1, <1>2
  <2>3. \A k \in P : OverBefore(k, i)' <=> OverBefore(k, i)
    <3>1. i \in 1 .. N + 1
      BY <1>2
    <3>2. QED  BY <3>1, OverStays
  <2>4. InRise(i)' <=> InRise(i)
    BY RiseStays
  <2>5. P \subseteq Q
    BY <1>1
  <2>6. (\A k \in Q : k < i => OverBefore(k, i)') <=> (\A k \in P : k < i => OverBefore(k, i))
    BY <2>2, <2>3, <2>5
  <2>7. i \in P <=> InRise(i) /\ \A k \in P : k < i => OverBefore(k, i)
    BY <1>3
  <2>8. QED  BY <2>1, <2>4, <2>6, <2>7
<1>5. ASSUME NEW i \in Nat, i = N + 1
      PROVE  i \in Q <=> InRise(i)' /\ \A k \in Q : k < i => OverBefore(k, i)'
  <2>1. i \in Q <=> starts
    BY <1>1, <1>2, <1>5
  <2>2. InRise(i)' <=> in' /\ (N = 0 \/ ~calls[N].in)
    BY <1>5, RiseStays
  <2>3. \A k \in P : k < i /\ (OverBefore(k, i)' <=> OverBefore(k, N + 1))
    <3>1. i \in 1 .. N + 1 /\ \A k \in P : k < i
      BY <1>2, <1>5
    <3>2. \A k \in P : OverBefore(k, i)' <=> OverBefore(k, i)
      BY <3>1, OverStays
    <3>3. QED  BY <1>5, <3>1, <3>2
  <2>4. (\A k \in Q : k < i => OverBefore(k, i)') <=> (\A k \in P : OverBefore(k, N + 1))
    <3>1. ~(i < i) /\ P \subseteq Q /\ \A k \in Q : k \in P \/ k = i
      BY <1>1, <1>5
    <3>2. QED  BY <2>3, <3>1
  <2>5. QED  BY <2>1, <2>2, <2>4
<1>6. Q \subseteq 1 .. N'
  BY <1>1, <1>2
<1>7. Q = {i \in 1 .. N' : InRise(i)' /\ \A k \in Q : k < i => OverBefore(k, i)'}
  <2>1. \A i \in 1 .. N' : i \in 1 .. N \/ (i \in Nat /\ i = N + 1)
    BY <1>2
  <2>2. \A i \in 1 .. N' : i \in Q <=> InRise(i)' /\ \A k \in Q : k < i => OverBefore(k, i)'
    BY <1>4, <1>5, <2>1
  <2>3. QED  BY <1>6, <2>2
<1>8. Pulses(Q)'
  BY <1>7 DEF Pulses
<1>9. QED  BY <1>6, <1>8
(* TP: timing exactly while the last pulse started runs.                   *)
TpHistory ==
    /\ tp.prev_in = 1 <=> N # 0 /\ calls[N].in
    /\ \E P \in SUBSET (1 .. N) :
          /\ Pulses(P)
          /\ tp.phase = 1 => \E i \in P : /\ tp.start = calls[i].tick
                                          /\ ~OverBefore(i, N + 1)
                                          /\ \A k \in P : k # i => OverBefore(k, N + 1)
          /\ tp.phase = 0 => \A i \in P : OverBefore(i, N + 1)

LEMMA TpHistoryKeeps == HStep /\ TpHistory => TpHistory'
<1> SUFFICES ASSUME HStep, TpHistory PROVE TpHistory'
  OBVIOUS
<1>1. N \in Nat /\ N' = N + 1 /\ calls'[N'].in = in' /\ in' \in BOOLEAN /\ N' # 0
  BY OneMoreCall DEF HStep
<1>2. \A k \in 1 .. N : calls'[k] = calls[k]
  BY OneMoreCall
<1>3. tp \in FlatTimer /\ tp.start \in Int
  BY TickInt DEF HStep, Safe, TypeOK, FlatTimer
<1>4. tick \in Int /\ tick' \in Int /\ tick <= tick' /\ PT \in Nat
  BY CallTicks, PTNat
<1>5. tp_idle \/ tp_timing
  <2>1. tick >= tp.start
    BY DEF HStep, Safe, NoCallSkipped
  <2>2. QED  BY <1>3, <1>4, <2>1 DEF HStep, exec_tp, Skipped
<1>6. tp'.prev_in = 1 <=> in'
  <2>1. CASE tp_idle
    BY <1>3, <2>1 DEF tp_idle, FlatTimer, Bit
  <2>2. CASE tp_timing
    BY <1>3, <2>2 DEF tp_timing, FlatTimer, Bit
  <2>3. QED  BY <1>5, <2>1, <2>2
<1>7. PICK P \in SUBSET (1 .. N) :
          /\ Pulses(P)
          /\ tp.phase = 1 => \E i \in P : /\ tp.start = calls[i].tick
                                          /\ ~OverBefore(i, N + 1)
                                          /\ \A k \in P : k # i => OverBefore(k, N + 1)
          /\ tp.phase = 0 => \A i \in P : OverBefore(i, N + 1)
  BY DEF TpHistory
<1>8. tp.prev_in = 0 <=> N = 0 \/ ~calls[N].in
  BY <1>3 DEF FlatTimer, TpHistory
<1>9. ASSUME NEW k \in P
      PROVE  k \in 1 .. N /\ (OverBefore(k, N + 1)' <=> OverBefore(k, N + 1) \/ tick' - calls[k].tick >= PT)
  <2>1. PICK n \in Nat : n = N + 2
    BY <1>1
  <2>2. OverBefore(k, n)' <=> OverBefore(k, N + 1) \/ tick' - calls[k].tick >= PT
    BY <2>1, OverStays
  <2>3. n = N' + 1
    BY <1>1, <2>1
  <2>4. QED  BY <2>2, <2>3 DEF OverBefore
<1>10. ASSUME NEW n \in Nat, n = N + 1
       PROVE  ~OverBefore(n, N + 1)' /\ calls'[n].tick = tick'
  <2>1. n + 1 .. (N' + 1) - 1 = {}
    BY <1>1, <1>10
  <2>2. QED  BY <1>10, <2>1, OneMoreCall DEF OverBefore
<1>11. SUFFICES \E Q \in SUBSET (1 .. N') :
          /\ Pulses(Q)'
          /\ tp'.phase = 1 => \E i \in Q : /\ tp'.start = calls'[i].tick
                                           /\ ~OverBefore(i, N + 1)'
                                           /\ \A k \in Q : k # i => OverBefore(k, N + 1)'
          /\ tp'.phase = 0 => \A i \in Q : OverBefore(i, N + 1)'
  BY <1>1, <1>6 DEF TpHistory
<1>12. CASE tp_idle /\ in' /\ tp.prev_in = 0
  <2>1. tp.phase = 0 /\ tp'.phase = 1 /\ tp'.start = tick'
    BY <1>12 DEF tp_idle
  <2>2. PICK Q : Q = P \cup {N + 1}
    OBVIOUS
  <2>3. Q \subseteq 1 .. N' /\ Pulses(Q)'
    BY <1>7, <1>8, <1>12, <2>1, <2>2, PulsesGrow
  <2>4. PICK n \in Nat : n = N + 1
    BY <1>1
  <2>5. n \in Q /\ ~OverBefore(n, N + 1)' /\ calls'[n].tick = tick'
    BY <1>10, <2>2, <2>4
  <2>6. \A k \in Q : k # n => OverBefore(k, N + 1)'
    BY <1>7, <1>9, <2>1, <2>2, <2>4
  <2>7. tp'.phase # 0
    BY <2>1
  <2>8. QED  BY <2>1, <2>3, <2>5, <2>6, <2>7
<1>13. CASE tp_idle /\ ~(in' /\ tp.prev_in = 0)
  <2>1. tp.phase = 0 /\ tp'.phase = 0
    BY <1>13 DEF tp_idle
  <2>2. ~(in' /\ (N = 0 \/ ~calls[N].in))
    BY <1>8, <1>13
  <2>3. P \subseteq 1 .. N' /\ Pulses(P)'
    BY <1>7, <2>2, PulsesGrow
  <2>4. \A k \in P : OverBefore(k, N + 1)'
    BY <1>7, <1>9, <2>1
  <2>5. tp'.phase # 1
    BY <2>1
  <2>6. QED  BY <2>3, <2>4, <2>5
<1>14. CASE tp_timing
  <2>1. tp.phase = 1 /\ tp'.start = tp.start /\ tp'.phase = IF Expired(tp) THEN 0 ELSE 1
    BY <1>14 DEF tp_timing
  <2>2. PICK i \in P : /\ tp.start = calls[i].tick
                       /\ ~OverBefore(i, N + 1)
                       /\ \A k \in P : k # i => OverBefore(k, N + 1)
    BY <1>7, <2>1
  <2>3. P \subseteq 1 .. N' /\ Pulses(P)'
    BY <1>7, <2>2, PulsesGrow
  <2>4. i \in 1 .. N /\ calls'[i] = calls[i]
    BY <1>2
  <2>5. \A k \in P : k # i => OverBefore(k, N + 1)'
    BY <1>9, <2>2
  <2>6. OverBefore(i, N + 1)' <=> Expired(tp)
    BY <1>9, <2>2 DEF Expired
  <2>7. CASE Expired(tp)
    <3>1. tp'.phase = 0 /\ tp'.phase # 1
      BY <2>1, <2>7
    <3>2. \A k \in P : OverBefore(k, N + 1)'
      BY <2>5, <2>6, <2>7
    <3>3. QED  BY <2>3, <3>1, <3>2
  <2>8. CASE ~Expired(tp)
    <3>1. tp'.phase = 1 /\ tp'.phase # 0
      BY <2>1, <2>8
    <3>2. tp'.start = calls'[i].tick
      BY <2>1, <2>2, <2>4
    <3>3. QED  BY <2>3, <2>5, <2>6, <2>8, <3>1, <3>2
  <2>9. QED  BY <2>7, <2>8
<1>15. QED  BY <1>5, <1>12, <1>13, <1>14

LEMMA TpMeets ==
    ASSUME Safe, OutputFollowsState, TpHistory
    PROVE  TpMeetsPreset
<1>1. tp_q <=> tp.phase = 1
  BY DEF OutputFollowsState
<1>2. PICK P \in SUBSET (1 .. N) :
          /\ Pulses(P)
          /\ tp.phase = 1 => \E i \in P : /\ tp.start = calls[i].tick
                                          /\ ~OverBefore(i, N + 1)
                                          /\ \A k \in P : k # i => OverBefore(k, N + 1)
          /\ tp.phase = 0 => \A i \in P : OverBefore(i, N + 1)
  BY DEF TpHistory
<1>3. tp.phase \in {0, 1}
  BY DEF Safe, TypeOK, FlatTimer
<1>4. QED  BY <1>1, <1>2, <1>3 DEF TpMeetsPreset

-----------------------------------------------------------------------------
HistoryInv == /\ Safe /\ OutputFollowsState /\ History
              /\ TonHistory /\ TofHistory /\ TpHistory

LEMMA HistoryInit == HInit => HistoryInv
<1> SUFFICES ASSUME HInit PROVE HistoryInv
  OBVIOUS
<1>1. Safe /\ OutputFollowsState
  BY SafeInit DEF HInit, Init, OutputFollowsState
<1>2. N = 0 /\ 1 .. N = {} /\ 2 .. N = {} /\ calls = <<>>
  BY DEF HInit, N
<1>3. History
  BY <1>2 DEF History
<1>4. TonHistory
  BY <1>2 DEF TonHistory, HInit, Init
<1>5. TofHistory
  BY <1>2 DEF TofHistory, HInit, Init
<1>6. TpHistory
  <2>1. tp.phase = 0 /\ tp.prev_in = 0
    BY DEF HInit, Init
  <2>2. Pulses({}) /\ {} \in SUBSET (1 .. N)
    BY <1>2 DEF Pulses
  <2>3. tp.prev_in # 1 /\ tp.phase # 1
    BY <2>1
  <2>4. QED  BY <1>2, <2>2, <2>3 DEF TpHistory
<1>7. QED  BY <1>1, <1>3, <1>4, <1>5, <1>6 DEF HistoryInv

LEMMA HistoryStep == HistoryInv /\ [HNext]_<<vars, calls>> => HistoryInv'
<1> SUFFICES ASSUME HistoryInv, [HNext]_<<vars, calls>> PROVE HistoryInv'
  OBVIOUS
<1>1. CASE UNCHANGED <<vars, calls>>
  <2>1. UNCHANGED vars /\ UNCHANGED <<tick, ton, tof, tp, calls>> /\ N' = N
    BY <1>1 DEF vars, N
  <2>2. Safe' /\ OutputFollowsState'
    BY <1>1 DEF HistoryInv, Safe, TypeOK, NoCallSkipped, AnswersInput, TofTimesAFall,
                OutputFollowsState, vars
  <2>3. History'
    BY <2>1 DEF HistoryInv, History
  <2>4. TonHistory'
    BY <2>1 DEF HistoryInv, TonHistory, RunFrom, InRise, HeldIn
  <2>5. TofHistory'
    BY <2>1 DEF HistoryInv, TofHistory, FellAt, HeldIn
  <2>6. TpHistory'
    <3>1. \A k, i : OverBefore(k, i)' <=> OverBefore(k, i)
      BY <2>1 DEF OverBefore, Elapsed
    <3>2. \A k : OverBefore(k, N + 1)' <=> OverBefore(k, N + 1)
      BY <2>1 DEF OverBefore, Elapsed
    <3>3. \A P : Pulses(P)' <=> Pulses(P)
      BY <2>1, <3>1 DEF Pulses, InRise
    <3>4. QED  BY <2>1, <3>2, <3>3 DEF HistoryInv, TpHistory
  <2>7. QED  BY <2>2, <2>3, <2>4, <2>5, <2>6 DEF HistoryInv
<1>2. ASSUME NEW d \in 0 .. MaxStep, NEW v \in BOOLEAN, tick + d \in Ticks,
             Scan(tick + d, v), calls' = Append(calls, [tick |-> tick + d, in |-> v])
      PROVE  HistoryInv'
  <2>1. /\ tick' = tick + d /\ in' = v /\ exec_ton /\ exec_tof /\ exec_tp
    BY <1>2 DEF Scan
  <2>2. tick' \in Ticks /\ tick' >= tick
    BY <1>2, <2>1, HistoryAssumption, TickInt DEF HistoryInv, Safe, TypeOK
  <2>3. HStep
    BY <1>2, <2>1, <2>2 DEF HStep, HistoryInv, Recorded
  <2>4. TypeOK' /\ OutputFollowsState'
    BY <1>2, TypeStep, FreshStep DEF HistoryInv, Safe, Next
  <2>5. NoCallSkipped' /\ AnswersInput' /\ TofTimesAFall'
    BY <2>3, TonSafe, TofSafe, TpSafe DEF HStep, Safe, NoCallSkipped, AnswersInput
  <2>6. QED
    BY <2>3, <2>4, <2>5, HistoryKeeps, TonHistoryKeeps, TofHistoryKeeps, TpHistoryKeeps
       DEF HistoryInv, Safe
<1>3. QED  BY <1>1, <1>2 DEF HNext

(* For every preset, scan period and number of calls, at whatever ticks    *)
(* they come: TON, TOF and TP answer what lowplcst_spec.md 5.3 requires of *)
(* the calls so far, PT = 0 included.                                      *)
THEOREM OutputsAnswerFromCalls == HSpec => []OutputsMeetPresets
<1>1. HistoryInv => OutputsMeetPresets
  BY TonMeets, TofMeets, TpMeets, TonEarly DEF HistoryInv, OutputsMeetPresets
<1>2. QED  BY <1>1, HistoryInit, HistoryStep, PTL DEF HSpec
=============================================================================
