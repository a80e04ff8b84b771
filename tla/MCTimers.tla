------------------------------ MODULE MCTimers ------------------------------
(***************************************************************************)
(* The flat timers of the interpreter implement the F* combinators, and    *)
(* model-checking instances of them, with a history of the calls.          *)
(*                                                                         *)
(* The flat TOF and TP never enter phase 2: TOF plays DONE as "IDLE with   *)
(* prev_in = 1", and so does TP once its pulse is over; in IDLE they keep  *)
(* the last start, which the combinators reset to 0.                       *)
(***************************************************************************)
EXTENDS Timers, Sequences

ton_bar ==
    [phase |-> CASE ton.phase = 0 -> "IDLE" [] ton.phase = 1 -> "TIMING"
                 [] ton.phase = 2 -> "DONE",
     start |-> ton.start]

(* tof and tp share the mapping: the combinators reset start outside TIMING. *)
flat_bar(s) ==
    IF s.phase = 1
    THEN [phase |-> "TIMING", prev_in |-> IF s.prev_in = 1 THEN TRUE ELSE FALSE, start |-> s.start]
    ELSE IF s.prev_in = 1
         THEN [phase |-> "DONE", prev_in |-> TRUE,  start |-> 0]
         ELSE [phase |-> "IDLE", prev_in |-> FALSE, start |-> 0]

Abs == INSTANCE TimerSpec WITH
    PT <- PT, MaxTick <- MaxTick,
    tick <- tick, in <- in, ton <- ton_bar, ton_q <- ton_q,
    tof <- flat_bar(tof), tof_q <- tof_q, tp <- flat_bar(tp), tp_q <- tp_q

(* ADR-009 of proof_status.md: exec_fb_call_low computes pt_ticks and then *)
(* behaves as the verified ton_step, tof_step and tp_step.                 *)
RefinesCombinators == Abs!Spec

-----------------------------------------------------------------------------
CONSTANTS MaxCalls, MaxStep     \* bounds: calls in a behaviour, ticks between calls

ASSUME HistoryAssumption == MaxCalls \in Nat /\ MaxStep \in Nat

(* The calls so far, as the host saw them: the ghost the requirements read. *)
VARIABLE calls

HInit == Init /\ calls = <<>>

HNext ==
    /\ Len(calls) < MaxCalls
    /\ \E d \in 0 .. MaxStep, v \in BOOLEAN :
          /\ tick + d \in Ticks
          /\ Scan(tick + d, v)
          /\ calls' = Append(calls, [tick |-> tick + d, in |-> v])

HSpec == HInit /\ [][HNext]_<<vars, calls>>

-----------------------------------------------------------------------------
(* The requirements of lowplcst_spec.md 5.3, over the calls alone.         *)
N == Len(calls)
Elapsed(i, j) == calls[j].tick - calls[i].tick
HeldIn(i, v) == \A j \in i .. N : calls[j].in = v

(* TON: Q iff IN has been TRUE at every call since one at least PT ago,    *)
(* that call excluded (a TON takes one call to notice the rise, PT = 0 too).*)
TonMeetsPreset ==
    ton_q <=> \E i \in 1 .. N - 1 : HeldIn(i, TRUE) /\ Elapsed(i, N) >= PT

(* TOF: Q iff IN is TRUE, or fell at some call and has stayed FALSE since, *)
(* for less than PT (the call that sees the fall always answers TRUE).     *)
TofMeetsPreset ==
    tof_q <=> \/ N > 0 /\ calls[N].in
              \/ \E i \in 2 .. N : /\ calls[i - 1].in /\ HeldIn(i, FALSE)
                                   /\ i = N \/ Elapsed(i, N) < PT

(* P is the set of the calls that start a TP pulse: the rises of IN that   *)
(* no earlier pulse covers.  The call that ends a pulse is covered by it: a*)
(* rise there is lost.                                                     *)
InRise(i) == calls[i].in /\ (i = 1 \/ ~calls[i - 1].in)
OverBefore(k, i) == \E m \in k + 1 .. i - 1 : Elapsed(k, m) >= PT
Pulses(P) == P = {i \in 1 .. N : InRise(i) /\ \A k \in P : k < i => OverBefore(k, i)}

(* TP: Q iff a pulse started less than PT ago, whatever IN did since.      *)
TpMeetsPreset ==
    \E P \in SUBSET (1 .. N) :
        Pulses(P) /\ (tp_q <=> \E i \in P : ~OverBefore(i, N + 1))

(* The rounding of pt_us_to_ticks_low loses less than one scan period: a   *)
(* TON is never on before IN has been TRUE for PtUs - PeriodUs of host time.*)
TonEarlyByLessThanAPeriod ==
    ton_q => \E i \in 1 .. N - 1 :
                HeldIn(i, TRUE) /\ Elapsed(i, N) * PeriodUs > PtUs - PeriodUs

(* Each timer's output is what the calls so far require of its preset:     *)
(* TON, TOF and TP of exec_fb_call_low, whatever the inputs did.           *)
OutputsMeetPresets ==
    TonMeetsPreset /\ TofMeetsPreset /\ TpMeetsPreset /\ TonEarlyByLessThanAPeriod

-----------------------------------------------------------------------------
(* The host loop of lowplc_runtime.h: one scan after another, the tick     *)
(* counter one higher each time and, being a uint32_t (here 0 .. MaxTick), *)
(* back to 0 after its maximum.  No history is kept.                       *)
WrapScan == \E v \in BOOLEAN : Scan((tick + 1) % (MaxTick + 1), v) /\ UNCHANGED calls

(* The host calls lowplc_exec_scan in an endless loop: scans never stop.   *)
FairWrap == HInit /\ [][WrapScan]_<<vars, calls>> /\ WF_<<vars, calls>>(WrapScan)

(* A TON whose input stays FALSE lets go of Q, on whichever side of a      *)
(* counter wrap it was started: the counter comes back to the start.       *)
TonReleases == []([]~in => <>[]~ton_q)

(* A pulse ends: "stays TRUE for exactly PT duration" (TP, spec 5.3).      *)
PulseEnds == tp_q ~> ~tp_q
=============================================================================
