----------------------------- MODULE LibControl -----------------------------
(***************************************************************************)
(* RAMP, PID with its INTEGRAL and DERIVATIVE, RTC, HYSTERESIS and SEMA of *)
(* the library linked to generated programs, each as the calls a program   *)
(* makes of one instance.  lib/C/iec_std_FB_no_ENENO.h has their code, and *)
(* lib/C/iec_std_FB.h the same behind EN: with EN off a block changes ENO  *)
(* alone, which no block reads.  A REAL is an exact fraction.              *)
(***************************************************************************)
EXTENDS TimeLib, Sequences

CONSTANTS
    CYCLE,      \* the time between calls, as the program gives it
    TR,         \* time of the ramp
    Gain, ResetSeconds, RateSeconds,    \* KP, TR and TD of the PID, whole numbers
    Levels,     \* bound: what a REAL input may be, whole numbers
    Bands,      \* bound: what EPS may be, half the width of the band
    Dates,      \* bound: what PDT may be
    Ticks,      \* bound: seconds the clock may advance by
    MaxCalls    \* bound: calls of one instance, by family

(* A TIME as a program writes it; a DT as __date_to_timespec takes it, on  *)
(* the calendar, with the seconds from 1970 to it in an int.               *)
Durations_type == [sec : Nat, nsec : 0 .. Second - 1]
Dates_type == {d \in [year : Int, mon : 1 .. 12, day : 1 .. 31, tod : 0 .. Day - 1] :
                   OnCalendar(d) /\ days_since_1970(d.day, d.mon, d.year) \in -IntDays .. IntDays}

ASSUME ControlAssumption ==
    /\ CYCLE \in Durations_type /\ CYCLE # Zero
    /\ TR \in [sec : Int, nsec : Int] /\ {TR, Time(-TR.sec, -TR.nsec)} \cap Durations_type # {}
    /\ {Gain, ResetSeconds, RateSeconds} \subseteq Int /\ ResetSeconds # 0
    /\ Levels \subseteq Int /\ Bands \subseteq Nat /\ Dates \subseteq Dates_type /\ Ticks \subseteq Nat

VARIABLES
    family,                             \* the blocks that are called in a behaviour
    ramp, pid, rtc, hysteresis, sema,   \* the data of the blocks
    now,                                \* __CURRENT_TIME, whole seconds
    calls                               \* the calls so far, what was given and what answered
controls == <<ramp, pid, rtc, hysteresis, sema, now, calls>>

(* Exact fractions, with the least denominator.                            *)
WholeOf(n, d, k) == (k * n) % d = 0     \* n / d is a whole number of 1 / k
Denominator(n, d) ==
    LET from[k \in Nat \ {0}] == IF WholeOf(n, d, k) THEN k ELSE from[k + 1] IN from[1]
LeastTerms(n, d) == LET k == Denominator(n, d) IN <<(k * n) \div d, k>>
Frac(n, d) == IF d < 0 THEN LeastTerms(-n, -d) ELSE LeastTerms(n, d)
Whole(n) == <<n, 1>>
x ++ y == Frac(x[1] * y[2] + y[1] * x[2], x[2] * y[2])
x -- y == Frac(x[1] * y[2] - y[1] * x[2], x[2] * y[2])
x ** y == Frac(x[1] * y[1], x[2] * y[2])
x // y == Frac(x[1] * y[2], x[2] * y[1])

time_to_real(t) == Whole(t.sec) ++ Frac(t.nsec, Second)

Real == {x \in Int \X (Nat \ {0}) : \A k \in 1 .. x[2] - 1 : ~WholeOf(x[1], x[2], k)}
RAMP_data == [busy : BOOLEAN, xout : Real, xi : Real, t : [sec : Int, nsec : Int]]
INTEGRAL_data == Real
DERIVATIVE_data == [xout : Real, x1 : Real, x2 : Real, x3 : Real]
PID_data == [xout : Real, error : Real, iterm : INTEGRAL_data, dterm : DERIVATIVE_data]
RTC_data == [q : BOOLEAN, cdt : Int, prev_in : BOOLEAN, offset : [sec : Int, nsec : Int]]
HYSTERESIS_data == BOOLEAN
SEMA_data == BOOLEAN

RAMP_init == [busy |-> FALSE, xout |-> Whole(0), xi |-> Whole(0), t |-> Zero]
INTEGRAL_init == Whole(0)
DERIVATIVE_init == [xout |-> Whole(0), x1 |-> Whole(0), x2 |-> Whole(0), x3 |-> Whole(0)]
PID_init == [xout |-> Whole(0), error |-> Whole(0), iterm |-> INTEGRAL_init, dterm |-> DERIVATIVE_init]
RTC_init == [q |-> FALSE, cdt |-> 0, prev_in |-> FALSE, offset |-> Zero]
HYSTERESIS_init == FALSE
SEMA_init == FALSE
ControlInit ==
    /\ ramp = RAMP_init /\ pid = PID_init /\ rtc = RTC_init
    /\ hysteresis = HYSTERESIS_init /\ sema = SEMA_init
    /\ now = 0 /\ calls = <<>>

Record(c) == Len(calls) < MaxCalls[family] /\ calls' = Append(calls, c)

-----------------------------------------------------------------------------
(* RAMP *)
RampOver(r) == GE_TIME(r.t, TR)
(* Mutant: the time advances before the output is computed from it.        *)
RAMP_run_early(r, x1) ==
    IF RampOver(r) THEN [r EXCEPT !.busy = FALSE, !.xout = x1]
    ELSE LET t == time_add(r.t, CYCLE)
         IN  [r EXCEPT !.busy = TRUE, !.t = t,
                       !.xout = r.xi ++ (((x1 -- r.xi) ** time_to_real(t)) // time_to_real(TR))]
RAMP_run(r, x1) ==
    IF RampOver(r) THEN [r EXCEPT !.busy = FALSE, !.xout = x1]
    ELSE [r EXCEPT !.busy = TRUE, !.t = time_add(@, CYCLE),
                   !.xout = r.xi ++ (((x1 -- r.xi) ** time_to_real(r.t)) // time_to_real(TR))]
RAMP_body(run, x0, x1) ==
    /\ ramp' = IF run THEN RAMP_run(ramp, Whole(x1))
               ELSE [busy |-> FALSE, xout |-> Whole(x0), xi |-> Whole(x0), t |-> Zero]
    /\ Record([run |-> run, x0 |-> x0, x1 |-> x1])
    /\ UNCHANGED <<pid, rtc, hysteresis, sema, now>>

-----------------------------------------------------------------------------
(* PID: the integral is reset to what makes a manual output KP * X0.       *)
INTEGRAL_body(xout, run, r1, xin, x0) ==
    IF r1 THEN x0 ELSE IF run THEN xout ++ (xin ** time_to_real(CYCLE)) ELSE xout

DERIVATIVE_body(d, run, xin) ==
    IF run THEN [xout |-> (((Whole(3) ** (xin -- d.x3)) ++ d.x1) -- d.x2)
                             // (Whole(10) ** time_to_real(CYCLE)),
                 x1 |-> xin, x2 |-> d.x1, x3 |-> d.x2]
    ELSE [xout |-> Whole(0), x1 |-> xin, x2 |-> xin, x3 |-> xin]

INTEGRAL(en, xout, run, r1, xin, x0) == IF en THEN INTEGRAL_body(xout, run, r1, xin, x0) ELSE xout
DERIVATIVE(en, d, run, xin) == IF en THEN DERIVATIVE_body(d, run, xin) ELSE d

(* PID never writes the EN of its blocks, which is on at first.            *)
PID_body(auto, pv, sp, x0) ==
    LET error == Whole(pv) -- Whole(sp)
        tr == Whole(ResetSeconds)
        iterm == INTEGRAL(TRUE, pid.iterm, auto, ~auto, error, tr ** (Whole(x0) -- error))
        dterm == DERIVATIVE(TRUE, pid.dterm, auto, error)
    IN  /\ pid' = [xout |-> Whole(Gain) ** ((error ++ (iterm // tr)) ++ (dterm.xout ** Whole(RateSeconds))),
                   error |-> error, iterm |-> iterm, dterm |-> dterm]
        /\ Record([auto |-> auto, e |-> pv - sp, x0 |-> x0])
        /\ UNCHANGED <<ramp, rtc, hysteresis, sema, now>>

-----------------------------------------------------------------------------
(* RTC: PDT is a date the program wrote as a literal.                      *)
RTC_body(in, pdt, d) ==
    LET t == now + d
        offset == IF in /\ ~rtc.prev_in THEN time_sub(dt_to_timespec(pdt), Time(t, 0)) ELSE rtc.offset
    IN  /\ rtc' = [q |-> in, prev_in |-> in, offset |-> offset,
                   cdt |-> IF in THEN time_add(Time(t, 0), offset).sec ELSE t]
        /\ now' = t
        /\ Record([in |-> in, pdt |-> pdt, at |-> t])
        /\ UNCHANGED <<ramp, pid, hysteresis, sema>>

-----------------------------------------------------------------------------
HYSTERESIS_body(xin1, xin2, eps) ==
    /\ hysteresis' = IF hysteresis THEN ~(xin1 < xin2 - eps) ELSE xin1 > xin2 + eps
    /\ Record([xin1 |-> xin1, xin2 |-> xin2, eps |-> eps])
    /\ UNCHANGED <<ramp, pid, rtc, sema, now>>

(* BUSY is the new Q_INTERNAL.                                             *)
SEMA_body(claim, release) ==
    /\ sema' = (claim \/ (sema /\ ~release))
    /\ Record([claim |-> claim, release |-> release])
    /\ UNCHANGED <<ramp, pid, rtc, hysteresis, now>>

(* The blocks behind EN.                                                   *)
RAMP(en, run, x0, x1) == IF en THEN RAMP_body(run, x0, x1) ELSE UNCHANGED controls
PID(en, auto, pv, sp, x0) == IF en THEN PID_body(auto, pv, sp, x0) ELSE UNCHANGED controls
RTC(en, in, pdt, d) == IF en THEN RTC_body(in, pdt, d) ELSE UNCHANGED controls
HYSTERESIS(en, xin1, xin2, eps) == IF en THEN HYSTERESIS_body(xin1, xin2, eps) ELSE UNCHANGED controls
SEMA(en, claim, release) == IF en THEN SEMA_body(claim, release) ELSE UNCHANGED controls

RampNext(en) == \E run \in BOOLEAN, x0, x1 \in Levels : RAMP(en, run, x0, x1)
PidNext(en) == \E auto \in BOOLEAN, pv, x0 \in Levels : PID(en, auto, pv, 0, x0)
RtcNext(en) == \E in \in BOOLEAN, pdt \in Dates, d \in Ticks : RTC(en, in, pdt, d)
SwitchNext(en) == \/ \E xin1 \in Levels, eps \in Bands : HYSTERESIS(en, xin1, 0, eps)
                  \/ \E claim, release \in BOOLEAN : SEMA(en, claim, release)

-----------------------------------------------------------------------------
ControlsTyped ==
    /\ ramp \in RAMP_data /\ pid \in PID_data /\ rtc \in RTC_data
    /\ hysteresis \in HYSTERESIS_data /\ sema \in SEMA_data

N == Len(calls)
LastOf(S) == CHOOSE k \in S \cup {0} : \A j \in S : j <= k    \* the last call of a kind
Smaller(x, y) == x[1] * y[2] < y[1] * x[2]

(* RAMP: while RUN is on the output lies on the line from the last X0 to   *)
(* X1, at the time since RUN came on and no further than TR; BUSY ends     *)
(* with the ramp or, where a sum of nanoseconds is a whole second, one     *)
(* call later.                                                             *)
RampFollowsLine ==
    family = "ramp" /\ N > 0 =>
        LET c == calls[N]
            last == LastOf({k \in 1 .. N : ~calls[k].run})
            from == IF last = 0 THEN Whole(0) ELSE Whole(calls[last].x0)
            ran == Whole(N - last - 1) ** time_to_real(CYCLE)
            tr == time_to_real(TR)
        IN  IF ~c.run THEN ramp.xout = Whole(c.x0) /\ ~ramp.busy
            ELSE /\ ramp.xout = IF Smaller(ran, tr) THEN from ++ ((Whole(c.x1) -- from) ** (ran // tr))
                                ELSE Whole(c.x1)
                 /\ Smaller(ran, tr) => ramp.busy
                 /\ ramp.busy => Smaller(ran, tr ++ time_to_real(CYCLE))

(* PID: after a manual call the output is KP * X0, and from there each     *)
(* automatic call adds its error, its share of the sum of errors and the   *)
(* weighted differences of the last four: the switch makes no bump.        *)
ManualCall(cs) == LastOf({k \in 1 .. Len(cs) : ~cs[k].auto})
(* The error of a call, before the last manual one that of the latter.     *)
ErrorAt(cs, k) ==
    LET last == ManualCall(cs)
    IN  IF k >= 1 /\ k >= last THEN cs[k].e ELSE IF last = 0 THEN 0 ELSE cs[last].e
SumOfErrors(cs) ==
    LET sum[k \in 0 .. Len(cs)] == IF k <= ManualCall(cs) THEN 0 ELSE sum[k - 1] + cs[k].e
    IN  sum[Len(cs)]
PidWithoutBump ==
    family = "pid" /\ N > 0 =>
        LET last == ManualCall(calls)
            e(back) == ErrorAt(calls, N - back)
            base == IF last = 0 THEN 0 ELSE calls[last].x0 - calls[last].e
            slope == IF last = N THEN 0 ELSE 3 * (e(0) - e(3)) + e(1) - e(2)
            cycle == time_to_real(CYCLE)
        IN  pid.xout = Whole(Gain) **
                ((Whole(e(0) + base) ++ ((cycle ** Whole(SumOfErrors(calls))) // Whole(ResetSeconds)))
                    ++ (Frac(slope * RateSeconds, 10) // cycle))

(* RTC: while IN is on CDT is the date set at its rise and the days and    *)
(* seconds passed since, counted on the calendar; otherwise it is the      *)
(* clock.                                                                  *)
RtcKeepsCalendar ==
    family = "rtc" /\ N > 0 =>
        LET set == CHOOSE k \in 1 .. N : /\ \A j \in k .. N : calls[j].in
                                         /\ k = 1 \/ ~calls[k - 1].in
        IN  IF calls[N].in
            THEN rtc.q /\ convert_seconds_to_date_and_time(rtc.cdt)
                            = SecondsLater(calls[set].pdt, now - calls[set].at)
            ELSE ~rtc.q /\ rtc.cdt = now

(* HYSTERESIS keeps what it answered to the last input outside its band;   *)
(* SEMA is busy from a claim on until a release that comes without one.    *)
SwitchesRemember ==
    family = "switches" =>
        LET tried == {k \in 1 .. N : "eps" \in DOMAIN calls[k]}
            above == {k \in tried : calls[k].xin1 - calls[k].xin2 > calls[k].eps}
            below == {k \in tried : calls[k].xin2 - calls[k].xin1 > calls[k].eps}
            claimed == {k \in (1 .. N) \ tried : calls[k].claim}
            released == {k \in (1 .. N) \ tried : calls[k].release} \ claimed
        IN  /\ hysteresis <=> LastOf(above) > LastOf(below)
            /\ sema <=> LastOf(claimed) > LastOf(released)

(* RAMP and PID follow their course, and HYSTERESIS and SEMA remember,     *)
(* however their inputs change from call to call.                          *)
RegulatorsKeepCourse == RampFollowsLine /\ PidWithoutBump /\ SwitchesRemember
=============================================================================
