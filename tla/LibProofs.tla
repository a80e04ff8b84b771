----------------------------- MODULE LibProofs -----------------------------
(***************************************************************************)
(* Theorems of every function block of the library linked to generated     *)
(* programs, and of the tasks of a configuration.                          *)
(***************************************************************************)
EXTENDS MCLib, WellFoundedInduction, TLAPS

-----------------------------------------------------------------------------
(* Time in nanoseconds, and in units.                                      *)
Fraction == Second \div Unit
NS(t) == Second * t.sec + t.nsec
InSecond(t) == t.sec \in Nat /\ t.nsec \in Nat /\ t.nsec < Second

LEMMA SecondPositive == Second \in Nat \ {0}
BY SMT DEF Second

LEMMA UnitFacts == Unit \in Nat \ {0} /\ Fraction \in Nat \ {0} /\ Unit * Fraction = Second
<1>1. Unit \in Nat \ {0} /\ Unit * Fraction = Second
  BY LibTimerAssumption DEF Fraction
<1>2. Fraction \in Int
  BY <1>1, SecondPositive DEF Fraction
<1>3. Fraction > 0
  BY <1>1, <1>2, SecondPositive
<1>4. QED  BY <1>1, <1>2, <1>3

LEMMA Multiple ==
    ASSUME NEW n \in Nat, NEW d \in Nat \ {0}, n % d = 0
    PROVE  n \div d \in Nat /\ n = d * (n \div d)
OBVIOUS

LEMMA Scaled ==
    ASSUME NEW d \in Nat \ {0}, NEW a \in Int, NEW b \in Int
    PROVE  d * a >= d * b <=> a >= b
OBVIOUS

LEMMA ExactUnits ==
    ASSUME NEW t, Exact(t)
    PROVE  InSecond(t) /\ Units(t) \in Nat /\ Fraction * Units(t) = NS(t)
<1>1. t \in [sec : Nat, nsec : 0 .. Second - 1] /\ t.nsec % Fraction = 0
  BY DEF Exact, Fraction
<1>2. InSecond(t)
  BY <1>1, SecondPositive DEF InSecond
<1> DEFINE k == t.nsec \div Fraction
<1>3. k \in Nat /\ t.nsec = Fraction * k
  BY <1>1, <1>2, UnitFacts, Multiple DEF InSecond
<1>4. Units(t) = Unit * t.sec + k
  BY DEF Units, In, Fraction
<1> HIDE DEF k
<1>5. Fraction * (Unit * t.sec + k) = (Unit * Fraction) * t.sec + Fraction * k
  BY <1>2, <1>3, UnitFacts DEF InSecond
<1>6. Units(t) \in Nat
  BY <1>2, <1>3, <1>4, UnitFacts DEF InSecond
<1>7. QED  BY <1>2, <1>3, <1>4, <1>5, <1>6, UnitFacts DEF NS

(* __time_cmp compares as the nanoseconds do, as long as one operand has   *)
(* less than a second of them and the other no more.                       *)
LEMMA Compares ==
    ASSUME NEW s \in Nat, NEW n \in Nat, NEW t \in Nat, NEW m \in Nat, n <= Second, m < Second
    PROVE  (IF t = s THEN n - m ELSE s - t) <= 0 <=> Second * t + m >= Second * s + n
<1>1. CASE t = s
  BY <1>1, SMT DEF Second
<1>2. CASE t > s
  <2>1. Second * t >= Second * s + Second
    BY <1>2, SMT DEF Second
  <2>2. QED  BY <1>2, <2>1, SMT DEF Second
<1>3. CASE t < s
  <2>1. Second * s >= Second * t + Second
    BY <1>3, SMT DEF Second
  <2>2. QED  BY <1>3, <2>1, SMT DEF Second
<1>4. QED  BY <1>1, <1>2, <1>3

LEMMA ExactOrder ==
    ASSUME NEW a, Exact(a), NEW b, Exact(b)
    PROVE  GE_TIME(a, b) <=> Units(a) >= Units(b)
<1>1. InSecond(a) /\ InSecond(b)
  BY ExactUnits
<1>2. GE_TIME(a, b) <=> NS(a) >= NS(b)
  <2>1. GE_TIME(a, b) <=> (IF a.sec = b.sec THEN b.nsec - a.nsec ELSE b.sec - a.sec) <= 0
    BY <1>1 DEF InSecond, GE_TIME, time_cmp
  <2>2. b.nsec <= Second
    BY <1>1, SecondPositive DEF InSecond
  <2>3. QED  BY <1>1, <2>1, <2>2, Compares DEF InSecond, NS
<1>3. QED  BY <1>2, ExactUnits, UnitFacts, Scaled

(* Two forms of one duration do no harm here: the sum of a start and the   *)
(* preset has at most one second of nanoseconds.                           *)
LEMMA ExactElapsed ==
    ASSUME NEW start, Exact(start), NEW clock, Exact(clock)
    PROVE  LE_TIME(time_add(start, PT), clock) <=> Units(clock) - Units(start) >= Units(PT)
<1>1. Exact(PT)
  BY LibTimerAssumption
<1>2. InSecond(start) /\ InSecond(clock) /\ InSecond(PT)
  BY <1>1, ExactUnits
<1> DEFINE sum == time_add(start, PT)
<1>3. sum = IF start.nsec + PT.nsec > Second
            THEN Time(start.sec + PT.sec + 1, start.nsec + PT.nsec - Second)
            ELSE Time(start.sec + PT.sec, start.nsec + PT.nsec)
  BY <1>2, SMT DEF InSecond, time_add, normalize_timespec, Borrow, Carry, Time, Second
<1>4. /\ sum.sec \in Nat /\ sum.nsec \in Nat /\ sum.nsec <= Second
      /\ NS(sum) = NS(start) + NS(PT)
  BY <1>2, <1>3, SMT DEF InSecond, Time, NS, Second
<1> HIDE DEF sum
<1>5. LE_TIME(sum, clock) <=> NS(clock) >= NS(sum)
  BY <1>2, <1>4, Compares DEF InSecond, LE_TIME, time_cmp, NS
<1>6. /\ Units(clock) \in Nat /\ Units(start) \in Nat /\ Units(PT) \in Nat
      /\ Fraction * Units(clock) = NS(clock) /\ Fraction * Units(start) = NS(start)
      /\ Fraction * Units(PT) = NS(PT)
  BY <1>1, ExactUnits
<1>7. Fraction * (Units(start) + Units(PT)) = NS(start) + NS(PT)
  BY <1>6, UnitFacts
<1>8. LE_TIME(sum, clock) <=> Units(clock) >= Units(start) + Units(PT)
  BY <1>4, <1>5, <1>6, <1>7, UnitFacts, Scaled
<1>9. QED  BY <1>6, <1>8 DEF sum

LEMMA InTime == Zero \in [sec : Int, nsec : Int] /\ Exact(Zero) /\ Units(Zero) = 0
<1>1. 0 \div Fraction = 0 /\ 0 % Fraction = 0
  BY UnitFacts
<1>2. Zero \in [sec : Nat, nsec : 0 .. Second - 1]
  BY SecondPositive DEF Zero, Time
<1>3. Units(Zero) = 0
  BY <1>1, UnitFacts DEF Units, In, Zero, Time, Fraction
<1>4. QED  BY <1>1, <1>2, <1>3 DEF Exact, Zero, Time, Fraction

LEMMA ExactTime ==
    ASSUME NEW t, Exact(t)
    PROVE  t \in [sec : Int, nsec : Int]
BY SecondPositive DEF Exact

LEMMA SubTime ==
    ASSUME NEW a \in [sec : Int, nsec : Int], NEW b \in [sec : Int, nsec : Int]
    PROVE  time_sub(a, b) \in [sec : Int, nsec : Int]
BY SecondPositive DEF time_sub, normalize_timespec, Borrow, Carry, Time

-----------------------------------------------------------------------------
(* A block of the library and the combinator: a block has its times on the *)
(* clock, and the start is not ahead of the last call.                     *)
OnClock(s) ==
    /\ s \in Timer
    /\ Exact(s.current_time) /\ Exact(s.start_time)
    /\ Units(s.start_time) <= Units(s.current_time)

LEMMA CalledBlock ==
    ASSUME NEW s, OnClock(s), NEW clock, Exact(clock), Units(clock) >= Units(s.current_time)
    PROVE  /\ OnClock(Called(s, clock)) /\ Called(s, clock).current_time = clock
           /\ Called(s, clock).q = s.q /\ Called(s, clock).state = s.state
           /\ Called(s, clock).prev_in = s.prev_in /\ Called(s, clock).start_time = s.start_time
<1>1. s \in Timer /\ clock \in [sec : Int, nsec : Int]
  BY ExactTime DEF OnClock
<1>2. Units(clock) \in Nat /\ Units(s.current_time) \in Nat /\ Units(s.start_time) \in Nat
  BY ExactUnits DEF OnClock
<1>3. Called(s, clock) \in Timer
  BY <1>1 DEF Called, Timer
<1>4. /\ Called(s, clock).current_time = clock
      /\ Called(s, clock).q = s.q /\ Called(s, clock).state = s.state
      /\ Called(s, clock).prev_in = s.prev_in /\ Called(s, clock).start_time = s.start_time
  BY <1>1 DEF Called, Timer
<1>5. QED  BY <1>2, <1>3, <1>4 DEF OnClock

(* One field of a block is changed.                                        *)
LEMMA Set_state ==
    ASSUME NEW s \in Timer, NEW v \in 0 .. 2
    PROVE  /\ [s EXCEPT !.state = v] \in Timer
           /\ [s EXCEPT !.state = v].q = s.q
           /\ [s EXCEPT !.state = v].state = v
           /\ [s EXCEPT !.state = v].prev_in = s.prev_in
           /\ [s EXCEPT !.state = v].et = s.et
           /\ [s EXCEPT !.state = v].current_time = s.current_time
           /\ [s EXCEPT !.state = v].start_time = s.start_time
BY DEF Timer

LEMMA Set_q ==
    ASSUME NEW s \in Timer, NEW v \in BOOLEAN
    PROVE  /\ [s EXCEPT !.q = v] \in Timer
           /\ [s EXCEPT !.q = v].q = v
           /\ [s EXCEPT !.q = v].state = s.state
           /\ [s EXCEPT !.q = v].prev_in = s.prev_in
           /\ [s EXCEPT !.q = v].et = s.et
           /\ [s EXCEPT !.q = v].current_time = s.current_time
           /\ [s EXCEPT !.q = v].start_time = s.start_time
BY DEF Timer

LEMMA Set_et ==
    ASSUME NEW s \in Timer, NEW v \in [sec : Int, nsec : Int]
    PROVE  /\ [s EXCEPT !.et = v] \in Timer
           /\ [s EXCEPT !.et = v].q = s.q
           /\ [s EXCEPT !.et = v].state = s.state
           /\ [s EXCEPT !.et = v].prev_in = s.prev_in
           /\ [s EXCEPT !.et = v].et = v
           /\ [s EXCEPT !.et = v].current_time = s.current_time
           /\ [s EXCEPT !.et = v].start_time = s.start_time
BY DEF Timer

LEMMA Set_start_time ==
    ASSUME NEW s \in Timer, NEW v \in [sec : Int, nsec : Int]
    PROVE  /\ [s EXCEPT !.start_time = v] \in Timer
           /\ [s EXCEPT !.start_time = v].q = s.q
           /\ [s EXCEPT !.start_time = v].state = s.state
           /\ [s EXCEPT !.start_time = v].prev_in = s.prev_in
           /\ [s EXCEPT !.start_time = v].et = s.et
           /\ [s EXCEPT !.start_time = v].current_time = s.current_time
           /\ [s EXCEPT !.start_time = v].start_time = v
BY DEF Timer

(* The changes the code of a block makes, and what each leaves alone.      *)
LEMMA BlockMoves ==
    ASSUME NEW s, OnClock(s), NEW q \in BOOLEAN
    PROVE  /\ OnClock(Starts(s, q)) /\ Starts(s, q).q = q /\ Starts(s, q).state = 1
           /\ Starts(s, q).start_time = s.current_time /\ Starts(s, q).current_time = s.current_time
           /\ OnClock(Runs(s)) /\ Runs(s).q = s.q /\ Runs(s).state = s.state
           /\ Runs(s).start_time = s.start_time /\ Runs(s).current_time = s.current_time
           /\ OnClock(Ends(s, q)) /\ Ends(s, q).q = q /\ Ends(s, q).state = 2
           /\ Ends(s, q).start_time = s.start_time /\ Ends(s, q).current_time = s.current_time
           /\ OnClock(Idle(s)) /\ Idle(s).q = s.q /\ Idle(s).state = 0
           /\ Idle(s).start_time = s.start_time /\ Idle(s).current_time = s.current_time
<1>1. s \in Timer
  BY DEF OnClock
<1>2. s.current_time \in [sec : Int, nsec : Int] /\ s.start_time \in [sec : Int, nsec : Int]
  BY <1>1 DEF Timer
<1>3. PT \in [sec : Int, nsec : Int] /\ Zero \in [sec : Int, nsec : Int]
  BY LibTimerAssumption, ExactTime, InTime
<1>4. time_sub(s.current_time, s.start_time) \in [sec : Int, nsec : Int]
  BY <1>2, SubTime
<1>5. /\ Starts(s, q) \in Timer /\ Starts(s, q).q = q /\ Starts(s, q).state = 1
      /\ Starts(s, q).start_time = s.current_time /\ Starts(s, q).current_time = s.current_time
  <2> DEFINE a == [s EXCEPT !.state = 1]
             b == [a EXCEPT !.q = q]
             c == [b EXCEPT !.start_time = s.current_time]
  <2>1. a \in Timer /\ a.state = 1 /\ a.current_time = s.current_time
    <3>1. 0 \in 0 .. 2 /\ 1 \in 0 .. 2 /\ 2 \in 0 .. 2
      OBVIOUS
    <3>2. QED  BY <1>1, <3>1, Set_state
  <2> HIDE DEF a
  <2>2. b \in Timer /\ b.q = q /\ b.state = 1 /\ b.current_time = s.current_time
    BY <2>1, Set_q
  <2> HIDE DEF b
  <2>3. c \in Timer /\ c.q = q /\ c.state = 1 /\ c.start_time = s.current_time /\ c.current_time = s.current_time
    BY <1>2, <2>2, Set_start_time
  <2>4. c = Starts(s, q)
    BY DEF a, b, Starts
  <2>5. QED  BY <2>3, <2>4
<1>6. /\ Runs(s) \in Timer /\ Runs(s).q = s.q /\ Runs(s).state = s.state
      /\ Runs(s).start_time = s.start_time /\ Runs(s).current_time = s.current_time
  BY <1>1, <1>4, Set_et DEF Runs
<1>7. /\ Ends(s, q) \in Timer /\ Ends(s, q).q = q /\ Ends(s, q).state = 2
      /\ Ends(s, q).start_time = s.start_time /\ Ends(s, q).current_time = s.current_time
  <2> DEFINE a == [s EXCEPT !.state = 2]
             b == [a EXCEPT !.q = q]
             c == [b EXCEPT !.et = PT]
  <2>1. a \in Timer /\ a.state = 2 /\ a.start_time = s.start_time /\ a.current_time = s.current_time
    <3>1. 0 \in 0 .. 2 /\ 1 \in 0 .. 2 /\ 2 \in 0 .. 2
      OBVIOUS
    <3>2. QED  BY <1>1, <3>1, Set_state
  <2> HIDE DEF a
  <2>2. b \in Timer /\ b.q = q /\ b.state = 2 /\ b.start_time = s.start_time /\ b.current_time = s.current_time
    BY <2>1, Set_q
  <2> HIDE DEF b
  <2>3. c \in Timer /\ c.q = q /\ c.state = 2 /\ c.start_time = s.start_time /\ c.current_time = s.current_time
    BY <1>3, <2>2, Set_et
  <2>4. c = Ends(s, q)
    BY DEF a, b, Ends
  <2>5. QED  BY <2>3, <2>4
<1>8. /\ Idle(s) \in Timer /\ Idle(s).q = s.q /\ Idle(s).state = 0
      /\ Idle(s).start_time = s.start_time /\ Idle(s).current_time = s.current_time
  <2> DEFINE a == [s EXCEPT !.state = 0]
             b == [a EXCEPT !.et = Zero]
  <2>1. a \in Timer /\ a.q = s.q /\ a.state = 0 /\ a.start_time = s.start_time /\ a.current_time = s.current_time
    <3>1. 0 \in 0 .. 2 /\ 1 \in 0 .. 2 /\ 2 \in 0 .. 2
      OBVIOUS
    <3>2. QED  BY <1>1, <3>1, Set_state
  <2> HIDE DEF a
  <2>2. b \in Timer /\ b.q = s.q /\ b.state = 0 /\ b.start_time = s.start_time /\ b.current_time = s.current_time
    BY <1>3, <2>1, Set_et
  <2>3. b = Idle(s)
    BY DEF a, Idle
  <2>4. QED  BY <2>2, <2>3
<1>9. Units(s.current_time) \in Nat
  BY ExactUnits DEF OnClock
<1>10. QED  BY <1>5, <1>6, <1>7, <1>8, <1>9 DEF OnClock

LEMMA Started ==
    ASSUME NEW s, OnClock(s), NEW q \in BOOLEAN
    PROVE  /\ OnClock(Starts(s, q)) /\ Starts(s, q).q = q /\ Starts(s, q).state = 1
           /\ Starts(s, q).start_time = s.current_time /\ Starts(s, q).current_time = s.current_time
BY BlockMoves

LEMMA Going ==
    ASSUME NEW s, OnClock(s)
    PROVE  /\ OnClock(Runs(s)) /\ Runs(s).q = s.q /\ Runs(s).state = s.state
           /\ Runs(s).start_time = s.start_time /\ Runs(s).current_time = s.current_time
BY BlockMoves, TRUE \in BOOLEAN

LEMMA Ended ==
    ASSUME NEW s, OnClock(s), NEW q \in BOOLEAN
    PROVE  /\ OnClock(Ends(s, q)) /\ Ends(s, q).q = q /\ Ends(s, q).state = 2
           /\ Ends(s, q).start_time = s.start_time /\ Ends(s, q).current_time = s.current_time
BY BlockMoves

LEMMA Rested ==
    ASSUME NEW s, OnClock(s)
    PROVE  /\ OnClock(Idle(s)) /\ Idle(s).q = s.q /\ Idle(s).state = 0
           /\ Idle(s).start_time = s.start_time /\ Idle(s).current_time = s.current_time
BY BlockMoves, TRUE \in BOOLEAN

LEMMA SeenBlock ==
    ASSUME NEW s, OnClock(s), NEW in \in BOOLEAN
    PROVE  /\ OnClock(Seen(s, in)) /\ Seen(s, in).q = s.q /\ Seen(s, in).state = s.state
           /\ Seen(s, in).prev_in = in
           /\ Seen(s, in).start_time = s.start_time /\ Seen(s, in).current_time = s.current_time
<1>1. s \in Timer
  BY DEF OnClock
<1>2. /\ Seen(s, in) \in Timer /\ Seen(s, in).q = s.q /\ Seen(s, in).state = s.state
      /\ Seen(s, in).prev_in = in
      /\ Seen(s, in).start_time = s.start_time /\ Seen(s, in).current_time = s.current_time
  BY <1>1 DEF Seen, Timer
<1>3. QED  BY <1>2 DEF OnClock

LEMMA PresetPositive ==
    ASSUME PT # Zero
    PROVE  Units(PT) > 0
<1>1. Exact(PT)
  BY LibTimerAssumption
<1>2. InSecond(PT) /\ Units(PT) \in Nat /\ Fraction * Units(PT) = NS(PT)
  BY <1>1, ExactUnits
<1>3. PT.sec # 0 \/ PT.nsec # 0
  BY <1>1 DEF Exact, Zero, Time
<1>4. NS(PT) > 0
  <2>1. CASE PT.sec # 0
    BY <1>2, <2>1, SMT DEF NS, InSecond, Second
  <2>2. CASE PT.nsec # 0
    BY <1>2, <2>2, SMT DEF NS, InSecond, Second
  <2>3. QED  BY <1>3, <2>1, <2>2
<1>5. QED  BY <1>2, <1>4, UnitFacts

LEMMA ElapsedUnits ==
    ASSUME NEW s, OnClock(s)
    PROVE  Elapsed(s) <=> Units(s.current_time) - Units(s.start_time) >= Units(PT)
BY ExactElapsed DEF Elapsed, OnClock

(* What is true of each block between calls.                               *)
TonRests(s) == OnClock(s) /\ (s.state = 0 => ~s.prev_in) /\ (s.q <=> s.state = 2)
TpRests(s) == OnClock(s) /\ (s.q <=> s.state = 1)
TofRests(s) == OnClock(s) /\ (s.prev_in => s.state = 0)

Later(s, clock) == Exact(clock) /\ Units(clock) >= Units(s.current_time)
TonCalled(s, in, clock) == Seen(TonCode(Called(s, clock), in), in)
TofCalled(s, in, clock) == Seen(TofCode(Called(s, clock), in), in)
TpCalled(s, in, clock) == Seen(TpCode(Called(s, clock), in), in)

LEMMA TonCall ==
    ASSUME NEW s, TonRests(s), NEW in \in BOOLEAN, NEW clock, Later(s, clock)
    PROVE  LET t == TonCalled(s, in, clock)
           IN  /\ TonRests(t) /\ t.current_time = clock /\ t.prev_in = in
               /\ TonPhase(t) = TimerAbs!ton_state(TonPhase(s), in, Units(clock))
               /\ t.q <=> TimerAbs!ton_out(TonPhase(s), in, Units(clock))
<1> DEFINE d == Called(s, clock)
           c == TonCode(d, in)
           t == Seen(c, in)
<1>1. /\ OnClock(d) /\ d.current_time = clock /\ d.q = s.q /\ d.state = s.state
      /\ d.prev_in = s.prev_in /\ d.start_time = s.start_time
  BY CalledBlock DEF TonRests, Later
<1>2. s.state \in 0 .. 2 /\ s.prev_in \in BOOLEAN /\ s.q \in BOOLEAN
  BY DEF TonRests, OnClock, Timer
<1>0. s.q <=> s.state = 2
  BY DEF TonRests
<1>3. Elapsed(d) <=> Units(clock) - Units(s.start_time) >= Units(PT)
  BY <1>1, ElapsedUnits
<1>4. Units(clock) \in Nat /\ Units(s.start_time) \in Nat
  BY ExactUnits DEF TonRests, OnClock, Later
<1> HIDE DEF d
<1> DEFINE abs == TonPhase(s)
           next == TimerAbs!ton_state(abs, in, Units(clock))
           out == TimerAbs!ton_out(abs, in, Units(clock))
           Goal == /\ OnClock(c) /\ c.current_time = clock
                   /\ (in <=> c.state # 0) /\ (c.q <=> c.state = 2)
                   /\ TonPhase(c) = next /\ (c.q <=> out)
<1>5. ASSUME ~in PROVE Goal
  <2> DEFINE i == Idle(d)
  <2>1. OnClock(i) /\ i.state = 0 /\ i.start_time = s.start_time /\ i.current_time = clock
    BY <1>1, Rested
  <2>2. c = [i EXCEPT !.q = FALSE]
    BY <1>5 DEF TonCode
  <2> HIDE DEF c
  <2> HIDE DEF i
  <2>3. OnClock(c) /\ ~c.q /\ c.state = 0 /\ c.current_time = clock
    BY <2>1, <2>2, Set_q DEF OnClock
  <2>4. TonPhase(c) = [phase |-> "IDLE", start |-> 0]
    BY <2>3 DEF TonPhase, Phase
  <2>5. next = [phase |-> "IDLE", start |-> 0] /\ ~out
    BY <1>2, <1>5 DEF TonPhase, Phase, TimerAbs!ton_state, TimerAbs!ton_init, TimerAbs!ton_out
  <2> HIDE DEF next, out
  <2>6. QED  BY <1>5, <2>3, <2>4, <2>5
<1>6. ASSUME in /\ s.state = 0 PROVE Goal
  <2>1. c = Starts(d, FALSE)
    BY <1>1, <1>6 DEF TonCode, TonRests
  <2> HIDE DEF c
  <2>2. OnClock(c) /\ ~c.q /\ c.state = 1 /\ c.start_time = clock /\ c.current_time = clock
    BY <1>1, <2>1, Started
  <2>3. TonPhase(c) = [phase |-> "TIMING", start |-> Units(clock)]
    BY <2>2 DEF TonPhase, Phase
  <2>4. next = [phase |-> "TIMING", start |-> Units(clock)] /\ ~out
    BY <1>6 DEF TonPhase, Phase, TimerAbs!ton_state, TimerAbs!ton_out
  <2> HIDE DEF next, out
  <2>5. QED  BY <1>6, <2>2, <2>3, <2>4
<1>7. ASSUME in /\ s.state = 1 /\ Elapsed(d) PROVE Goal
  <2>1. c = Ends(d, TRUE)
    BY <1>1, <1>7 DEF TonCode
  <2> HIDE DEF c
  <2>2. OnClock(c) /\ c.q /\ c.state = 2 /\ c.start_time = s.start_time /\ c.current_time = clock
    BY <1>1, <2>1, Ended
  <2>3. TonPhase(c) = [phase |-> "DONE", start |-> Units(s.start_time)]
    BY <2>2 DEF TonPhase, Phase
  <2>4. next = [phase |-> "DONE", start |-> Units(s.start_time)] /\ out
    BY <1>3, <1>7 DEF TonPhase, Phase, TimerAbs!ton_state, TimerAbs!ton_out, TimerAbs!Elapsed
  <2> HIDE DEF next, out
  <2>5. QED  BY <1>7, <2>2, <2>3, <2>4
<1>8. ASSUME in /\ s.state = 1 /\ ~Elapsed(d) PROVE Goal
  <2>1. c = Runs(d)
    BY <1>1, <1>8 DEF TonCode
  <2> HIDE DEF c
  <2>2. OnClock(c) /\ (c.q <=> s.q) /\ c.state = 1 /\ c.start_time = s.start_time /\ c.current_time = clock
    BY <1>1, <1>8, <2>1, Going
  <2>3. TonPhase(c) = [phase |-> "TIMING", start |-> Units(s.start_time)]
    BY <2>2 DEF TonPhase, Phase
  <2>4. next = [phase |-> "TIMING", start |-> Units(s.start_time)] /\ ~out
    BY <1>3, <1>8 DEF TonPhase, Phase, TimerAbs!ton_state, TimerAbs!ton_out, TimerAbs!Elapsed
  <2> HIDE DEF next, out
  <2>5. QED  BY <1>0, <1>8, <2>2, <2>3, <2>4
<1>9. ASSUME in /\ s.state = 2 PROVE Goal
  <2>1. c = d
    BY <1>1, <1>9 DEF TonCode
  <2> HIDE DEF c
  <2>2. TonPhase(c) = TonPhase(s)
    BY <1>1, <1>9, <2>1 DEF TonPhase, Phase
  <2>3. next = TonPhase(s) /\ out
    BY <1>9 DEF TonPhase, Phase, TimerAbs!ton_state, TimerAbs!ton_out
  <2> HIDE DEF next, out
  <2>4. QED  BY <1>0, <1>1, <1>9, <2>1, <2>2, <2>3
<1> HIDE DEF c, next, out
<1>10. Goal
  BY <1>2, <1>5, <1>6, <1>7, <1>8, <1>9
<1>11. /\ OnClock(t) /\ t.q = c.q /\ t.state = c.state /\ t.prev_in = in
       /\ t.start_time = c.start_time /\ t.current_time = c.current_time
  BY <1>10, SeenBlock
<1> HIDE DEF t
<1>12. TonPhase(t) = TonPhase(c)
  BY <1>11 DEF TonPhase, Phase
<1>13. TonRests(t)
  BY <1>10, <1>11 DEF TonRests
<1>14. t = TonCalled(s, in, clock)
  BY DEF t, c, d, TonCalled
<1>15. QED  BY <1>10, <1>11, <1>12, <1>13, <1>14 DEF next, out

LEMMA TpCall ==
    ASSUME PT # Zero,
           NEW s, TpRests(s), NEW in \in BOOLEAN, NEW clock, Later(s, clock)
    PROVE  LET t == TpCalled(s, in, clock)
           IN  /\ TpRests(t) /\ t.current_time = clock /\ t.prev_in = in
               /\ TpPhase(t) = TimerAbs!tp_state(TpPhase(s), in, Units(clock))
               /\ t.q <=> TimerAbs!tp_out(TpPhase(s), in, Units(clock))
<1> DEFINE d == Called(s, clock)
           pulse == IF d.state = 0 /\ ~d.prev_in /\ in THEN Starts(d, TRUE)
                    ELSE IF d.state = 1 THEN IF Elapsed(d) THEN Ends(d, FALSE) ELSE Runs(d)
                    ELSE d
           c == IF pulse.state = 2 /\ ~in THEN Idle(pulse) ELSE pulse
           t == Seen(c, in)
<1>0. s.q <=> s.state = 1
  BY DEF TpRests
<1>1. /\ OnClock(d) /\ d.current_time = clock /\ d.q = s.q /\ d.state = s.state
      /\ d.prev_in = s.prev_in /\ d.start_time = s.start_time
  BY CalledBlock DEF TpRests, Later
<1>2. s.state \in 0 .. 2 /\ s.prev_in \in BOOLEAN /\ s.q \in BOOLEAN
  BY DEF TpRests, OnClock, Timer
<1>3. Elapsed(d) <=> Units(clock) - Units(s.start_time) >= Units(PT)
  BY <1>1, ElapsedUnits
<1>4. Units(PT) > 0
  BY PresetPositive
<1> HIDE DEF d
<1> DEFINE abs == TpPhase(s)
           next == TimerAbs!tp_state(abs, in, Units(clock))
           out == TimerAbs!tp_out(abs, in, Units(clock))
           After(phase, start) == [phase |-> phase, prev_in |-> in, start |-> start]
           Goal == /\ OnClock(c) /\ c.current_time = clock /\ (c.q <=> c.state = 1)
                   /\ next = After(Phase(c), Start(c)) /\ (c.q <=> out)
<1>5. ASSUME s.state = 0, ~s.prev_in, in PROVE Goal
  <2>1. c = Starts(d, TRUE)
    <3> DEFINE m == Starts(d, TRUE)
    <3>1. m.state = 1
      BY <1>1, Started
    <3>2. pulse = m
      BY <1>1, <1>5
    <3> HIDE DEF pulse, m
    <3>3. c = m
      BY <3>1, <3>2
    <3>4. QED  BY <3>3 DEF m
  <2> HIDE DEF c
  <2>2. OnClock(c) /\ c.q /\ c.state = 1 /\ c.start_time = clock /\ c.current_time = clock
    BY <1>1, <2>1, Started
  <2>3. next = After("TIMING", Units(clock)) /\ out
    <3>1. abs.phase = "IDLE" /\ ~abs.prev_in
      BY <1>5 DEF TpPhase, Phase
    <3> HIDE DEF abs
    <3>2. QED  BY <1>4, <1>5, <3>1 DEF TimerAbs!tp_state, TimerAbs!tp_out
  <2>4. Phase(c) = "TIMING" /\ Start(c) = Units(clock)
    BY <2>2 DEF Phase, Start
  <2> HIDE DEF next, out
  <2>5. QED  BY <2>2, <2>3, <2>4
<1>6. ASSUME s.state = 0, s.prev_in \/ ~in PROVE Goal
  <2>1. c = d
    <3>1. pulse = d
      <4>1. CASE in
        <5>1. d.prev_in /\ d.state # 1
          BY <1>1, <1>6, <4>1
        <5>2. QED  BY <5>1
      <4>2. CASE ~in
        BY <1>1, <1>6, <4>2
      <4>3. QED  BY <4>1, <4>2
    <3> HIDE DEF pulse
    <3>2. QED  BY <1>1, <1>6, <3>1
  <2> HIDE DEF c
  <2>2. next = After("IDLE", 0) /\ ~out
    BY <1>6 DEF TpPhase, Phase, Start, TimerAbs!tp_state, TimerAbs!tp_out, TimerAbs!Seen
  <2>3. Phase(c) = "IDLE" /\ Start(c) = 0
    BY <1>1, <1>6, <2>1 DEF Phase, Start
  <2> HIDE DEF next, out
  <2>4. QED  BY <1>0, <1>1, <1>6, <2>1, <2>2, <2>3
<1>7. ASSUME s.state = 1, Elapsed(d) PROVE Goal
  <2> DEFINE e == Ends(d, FALSE)
  <2>1. OnClock(e) /\ ~e.q /\ e.state = 2 /\ e.current_time = clock
    BY <1>1, Ended
  <2>2. c = IF in THEN e ELSE Idle(e)
    <3>1. pulse = e
      BY <1>1, <1>7
    <3> HIDE DEF pulse, e
    <3>2. QED  BY <2>1, <3>1
  <2> HIDE DEF c, e
  <2>3. OnClock(c) /\ ~c.q /\ c.state = (IF in THEN 2 ELSE 0) /\ c.current_time = clock
    BY <2>1, <2>2, Rested
  <2>4. next = After(IF in THEN "DONE" ELSE "IDLE", 0) /\ ~out
    BY <1>3, <1>7 DEF TpPhase, Phase, Start, TimerAbs!tp_state, TimerAbs!tp_out, TimerAbs!Elapsed
  <2>5. Phase(c) = (IF in THEN "DONE" ELSE "IDLE") /\ Start(c) = 0
    BY <2>3 DEF Phase, Start
  <2> HIDE DEF next, out
  <2>6. QED  BY <2>3, <2>4, <2>5
<1>8. ASSUME s.state = 1, ~Elapsed(d) PROVE Goal
  <2>1. Runs(d).state = 1
    BY <1>1, <1>8, Going
  <2>2. c = Runs(d)
    <3>1. pulse = Runs(d)
      BY <1>1, <1>8
    <3> HIDE DEF pulse
    <3>2. QED  BY <2>1, <3>1
  <2> HIDE DEF c
  <2>3. OnClock(c) /\ (c.q <=> s.q) /\ c.state = 1 /\ c.start_time = s.start_time /\ c.current_time = clock
    BY <1>1, <2>1, <2>2, Going
  <2>4. next = After("TIMING", Units(s.start_time)) /\ out
    BY <1>3, <1>8 DEF TpPhase, Phase, Start, TimerAbs!tp_state, TimerAbs!tp_out, TimerAbs!Elapsed, TimerAbs!Seen
  <2>5. Phase(c) = "TIMING" /\ Start(c) = Units(s.start_time)
    BY <2>3 DEF Phase, Start
  <2> HIDE DEF next, out
  <2>6. QED  BY <1>0, <1>8, <2>3, <2>4, <2>5
<1>9. ASSUME s.state = 2 PROVE Goal
  <2>1. c = IF in THEN d ELSE Idle(d)
    <3>1. pulse = d
      BY <1>1, <1>9
    <3> HIDE DEF pulse
    <3>2. QED  BY <1>1, <1>9, <3>1
  <2> HIDE DEF c
  <2>2. OnClock(c) /\ ~c.q /\ c.state = (IF in THEN 2 ELSE 0) /\ c.current_time = clock
    BY <1>0, <1>1, <1>9, <2>1, Rested
  <2>3. next = After(IF in THEN "DONE" ELSE "IDLE", 0) /\ ~out
    <3>1. abs.phase = "DONE" /\ abs.start = 0
      BY <1>9 DEF TpPhase, Phase, Start
    <3> HIDE DEF abs
    <3>2. CASE in
      BY <1>9, <3>1, <3>2 DEF TimerAbs!tp_state, TimerAbs!tp_out, TimerAbs!Seen
    <3>3. CASE ~in
      BY <1>9, <3>1, <3>3 DEF TimerAbs!tp_state, TimerAbs!tp_out, TimerAbs!tp_init
    <3>4. QED  BY <3>2, <3>3
  <2>4. Phase(c) = (IF in THEN "DONE" ELSE "IDLE") /\ Start(c) = 0
    BY <2>2 DEF Phase, Start
  <2> HIDE DEF next, out
  <2>5. QED  BY <2>2, <2>3, <2>4
<1> HIDE DEF c, next, out
<1>10. Goal
  BY <1>2, <1>5, <1>6, <1>7, <1>8, <1>9
<1>11. /\ OnClock(t) /\ t.q = c.q /\ t.state = c.state /\ t.prev_in = in
       /\ t.start_time = c.start_time /\ t.current_time = c.current_time
  BY <1>10, SeenBlock
<1> HIDE DEF t
<1>12. TpPhase(t) = After(Phase(c), Start(c))
  BY <1>11 DEF TpPhase, Phase, Start
<1>13. TpRests(t)
  BY <1>10, <1>11 DEF TpRests
<1>14. t = TpCalled(s, in, clock)
  BY DEF t, c, pulse, d, TpCalled, TpCode
<1>15. QED  BY <1>10, <1>11, <1>12, <1>13, <1>14 DEF next, out

LEMMA TofCall ==
    ASSUME NEW s, TofRests(s), NEW in \in BOOLEAN, NEW clock, Later(s, clock)
    PROVE  LET t == TofCalled(s, in, clock)
           IN  /\ TofRests(t) /\ t.current_time = clock /\ t.prev_in = in
               /\ TofPhase(t) = TimerAbs!tof_state(TofPhase(s), in, Units(clock))
               /\ t.q <=> TimerAbs!tof_out(TofPhase(s), in, Units(clock))
<1> DEFINE d == Called(s, clock)
           off == IF d.state = 0 /\ d.prev_in /\ ~in THEN Starts(d, d.q)
                  ELSE IF in THEN Idle(d)
                  ELSE IF d.state = 1 THEN IF Elapsed(d) THEN Ends(d, d.q) ELSE Runs(d)
                  ELSE d
           c == [off EXCEPT !.q = in \/ off.state = 1]
           t == Seen(c, in)
<1>1. /\ OnClock(d) /\ d.current_time = clock /\ d.q = s.q /\ d.state = s.state
      /\ d.prev_in = s.prev_in /\ d.start_time = s.start_time
  BY CalledBlock DEF TofRests, Later
<1>2. /\ s.state \in 0 .. 2 /\ s.prev_in \in BOOLEAN /\ s.q \in BOOLEAN
      /\ s.prev_in => s.state = 0
  BY DEF TofRests, OnClock, Timer
<1>3. Elapsed(d) <=> Units(clock) - Units(s.start_time) >= Units(PT)
  BY <1>1, ElapsedUnits
<1>4. d.q \in BOOLEAN
  BY <1>1, <1>2
<1> HIDE DEF d
<1> DEFINE abs == TofPhase(s)
           next == TimerAbs!tof_state(abs, in, Units(clock))
           out == TimerAbs!tof_out(abs, in, Units(clock))
           After(phase, start) == [phase |-> phase, prev_in |-> in, start |-> start]
           PhaseAfter == IF off.state = 1 THEN "TIMING" ELSE IF in THEN "DONE" ELSE "IDLE"
           Goal == /\ OnClock(off) /\ off.current_time = clock /\ (in => off.state = 0)
                   /\ next = After(PhaseAfter, Start(off)) /\ (in \/ off.state = 1 <=> out)
<1>5. ASSUME in PROVE Goal
  <2>1. off = Idle(d)
    BY <1>5
  <2> HIDE DEF off
  <2>2. OnClock(off) /\ off.state = 0 /\ off.current_time = clock
    BY <1>1, <2>1, Rested
  <2>3. next = After("DONE", 0) /\ out
    BY <1>2, <1>5 DEF TofPhase, Start, TimerAbs!tof_state, TimerAbs!tof_out
  <2>4. Start(off) = 0 /\ PhaseAfter = "DONE"
    BY <1>5, <2>2 DEF Start
  <2> HIDE DEF next, out
  <2>5. QED  BY <1>5, <2>2, <2>3, <2>4
<1>6. ASSUME ~in, s.prev_in PROVE Goal
  <2>1. off = Starts(d, d.q)
    BY <1>1, <1>2, <1>6
  <2> HIDE DEF off
  <2>2. OnClock(off) /\ off.state = 1 /\ off.start_time = clock /\ off.current_time = clock
    BY <1>1, <1>4, <2>1, Started
  <2>3. next = After("TIMING", Units(clock)) /\ out
    <3>1. abs.phase = "DONE"
      BY <1>2, <1>6 DEF TofPhase
    <3> HIDE DEF abs
    <3>2. QED  BY <1>6, <3>1 DEF TimerAbs!tof_state, TimerAbs!tof_out
  <2>4. Start(off) = Units(clock) /\ PhaseAfter = "TIMING"
    BY <1>6, <2>2 DEF Start
  <2> HIDE DEF next, out
  <2>5. QED  BY <1>6, <2>2, <2>3, <2>4
<1>7. ASSUME ~in, ~s.prev_in, s.state = 1, Elapsed(d) PROVE Goal
  <2>1. off = Ends(d, d.q)
    BY <1>1, <1>7
  <2> HIDE DEF off
  <2>2. OnClock(off) /\ off.state = 2 /\ off.current_time = clock
    BY <1>1, <1>4, <2>1, Ended
  <2>3. next = After("IDLE", 0) /\ ~out
    BY <1>3, <1>7 DEF TofPhase, Start, TimerAbs!tof_state, TimerAbs!tof_out, TimerAbs!Elapsed, TimerAbs!tof_init
  <2>4. Start(off) = 0 /\ PhaseAfter = "IDLE"
    BY <1>7, <2>2 DEF Start
  <2> HIDE DEF next, out
  <2>5. QED  BY <1>7, <2>2, <2>3, <2>4
<1>8. ASSUME ~in, ~s.prev_in, s.state = 1, ~Elapsed(d) PROVE Goal
  <2>1. off = Runs(d)
    BY <1>1, <1>8
  <2> HIDE DEF off
  <2>2. OnClock(off) /\ off.state = 1 /\ off.start_time = s.start_time /\ off.current_time = clock
    BY <1>1, <1>8, <2>1, Going
  <2>3. next = After("TIMING", Units(s.start_time)) /\ out
    BY <1>3, <1>8 DEF TofPhase, Start, TimerAbs!tof_state, TimerAbs!tof_out, TimerAbs!Elapsed, TimerAbs!Seen
  <2>4. Start(off) = Units(s.start_time) /\ PhaseAfter = "TIMING"
    BY <1>8, <2>2 DEF Start
  <2> HIDE DEF next, out
  <2>5. QED  BY <1>8, <2>2, <2>3, <2>4
<1>9. ASSUME ~in, ~s.prev_in, s.state # 1 PROVE Goal
  <2>1. off = d
    BY <1>1, <1>9
  <2> HIDE DEF off
  <2>2. OnClock(off) /\ off.state # 1 /\ off.current_time = clock
    BY <1>1, <1>9, <2>1
  <2>3. next = After("IDLE", 0) /\ ~out
    BY <1>9 DEF TofPhase, Start, TimerAbs!tof_state, TimerAbs!tof_out, TimerAbs!Seen
  <2>4. Start(off) = 0 /\ PhaseAfter = "IDLE"
    BY <1>9, <2>2 DEF Start
  <2> HIDE DEF next, out
  <2>5. QED  BY <1>9, <2>2, <2>3, <2>4
<1> HIDE DEF off, next, out
<1>10. Goal
  BY <1>2, <1>5, <1>6, <1>7, <1>8, <1>9
<1>11. /\ OnClock(c) /\ (c.q <=> in \/ off.state = 1) /\ c.state = off.state
       /\ c.start_time = off.start_time /\ c.current_time = off.current_time
  <2>1. (in \/ off.state = 1) \in BOOLEAN /\ off \in Timer
    BY <1>10 DEF OnClock
  <2>2. /\ c \in Timer /\ (c.q <=> in \/ off.state = 1) /\ c.state = off.state
        /\ c.start_time = off.start_time /\ c.current_time = off.current_time
    BY <2>1, Set_q
  <2>3. QED  BY <1>10, <2>2 DEF OnClock
<1> HIDE DEF c
<1>12. /\ OnClock(t) /\ t.q = c.q /\ t.state = c.state /\ t.prev_in = in
       /\ t.start_time = c.start_time /\ t.current_time = c.current_time
  BY <1>11, SeenBlock
<1> HIDE DEF t
<1>13. TofPhase(t) = After(PhaseAfter, Start(off))
  BY <1>11, <1>12 DEF TofPhase, Start
<1>14. TofRests(t)
  BY <1>10, <1>11, <1>12 DEF TofRests
<1>15. t = TofCalled(s, in, clock)
  BY DEF t, c, off, d, TofCalled, TofCode
<1>16. QED  BY <1>10, <1>11, <1>12, <1>13, <1>14, <1>15 DEF next, out

-----------------------------------------------------------------------------
(* The three timers of a program, called together.                         *)
TimerInv ==
    /\ TonRests(ton) /\ TpRests(tp) /\ TofRests(tof)
    /\ tp.current_time = ton.current_time /\ tof.current_time = ton.current_time

LEMMA TimersStart == TimerInit => TimerInv /\ TimerAbs!Init
<1> SUFFICES ASSUME TimerInit PROVE TimerInv /\ TimerAbs!Init
  OBVIOUS
<1>1. ton = Fresh /\ tp = Fresh /\ tof = Fresh
  BY DEF TimerInit, TON_init, TP_init, TOF_init
<1>2. /\ Fresh \in Timer /\ ~Fresh.q /\ Fresh.q = FALSE /\ Fresh.state = 0 /\ ~Fresh.prev_in /\ Fresh.prev_in = FALSE
      /\ Fresh.current_time = Zero /\ Fresh.start_time = Zero
  BY InTime DEF Fresh, Timer
<1>3. OnClock(Fresh)
  BY <1>2, InTime DEF OnClock
<1>4. TonRests(Fresh) /\ TpRests(Fresh) /\ TofRests(Fresh)
  BY <1>2, <1>3 DEF TonRests, TpRests, TofRests
<1>5. TimerInv
  BY <1>1, <1>4 DEF TimerInv
<1>6. Units(ton.current_time) = 0 /\ ton.prev_in = FALSE /\ ton.q = FALSE /\ tp.q = FALSE /\ tof.q = FALSE
  BY <1>1, <1>2, InTime
<1>7. TonPhase(ton) = TimerAbs!ton_init
  BY <1>1, <1>2 DEF TonPhase, Phase, TimerAbs!ton_init
<1>8. TpPhase(tp) = TimerAbs!tp_init
  BY <1>1 DEF TpPhase, Phase, Start, Fresh, TimerAbs!tp_init
<1>9. TofPhase(tof) = TimerAbs!tof_init
  BY <1>1 DEF TofPhase, Start, Fresh, TimerAbs!tof_init
<1>10. TimerAbs!Init
  BY <1>6, <1>7, <1>8, <1>9 DEF TimerAbs!Init
<1>11. QED  BY <1>5, <1>10

LEMMA StartsBehind ==
    ASSUME NEW s, OnClock(s), NEW clock, Later(s, clock)
    PROVE  /\ Units(clock) >= TonPhase(s).start /\ Units(clock) >= TpPhase(s).start
           /\ Units(clock) >= TofPhase(s).start
<1>1. /\ Units(clock) \in Nat /\ Units(s.start_time) \in Nat /\ Units(s.current_time) \in Nat
      /\ Units(clock) >= Units(s.current_time) /\ Units(s.start_time) <= Units(s.current_time)
  BY ExactUnits DEF OnClock, Later
<1>2. Units(clock) >= 0 /\ Units(clock) >= Units(s.start_time)
  BY <1>1
<1>3. QED  BY <1>2 DEF TonPhase, TpPhase, TofPhase, Start

LEMMA TimersStep ==
    ASSUME PT # Zero, TimerInv, NEW en \in BOOLEAN, TimerNext(en)
    PROVE  TimerInv' /\ [TimerAbs!Next]_(TimerAbs!vars)
<1>1. PICK in \in BOOLEAN, clock \in Instants : TimerScan(en, in, clock)
  BY DEF TimerNext
<1>2. CASE ~en
  <2>1. UNCHANGED <<tp, ton, tof>>
    BY <1>1, <1>2 DEF TimerScan, TP, TON, TOF
  <2>2. QED  BY <2>1 DEF TimerInv, TonRests, TpRests, TofRests, OnClock, TimerAbs!vars
<1>3. CASE en
  <2>1. Exact(clock) /\ Units(clock) <= Horizon
    BY LibTimerAssumption
  <2>2. Units(clock) \in 0 .. Horizon /\ Units(ton.current_time) \in Nat
    BY <2>1, ExactUnits, LibTimerAssumption DEF TimerInv, TonRests, OnClock
  <2>3. Later(ton, clock) /\ Later(tp, clock) /\ Later(tof, clock)
    BY <1>1, <2>1, ExactOrder DEF TimerScan, TimerInv, TonRests, OnClock, Later
  <2>4. /\ ton' = TonCalled(ton, in, clock) /\ tp' = TpCalled(tp, in, clock)
        /\ tof' = TofCalled(tof, in, clock)
    BY <1>1, <1>3 DEF TimerScan, TP, TON, TOF, TP_body, TON_body, TOF_body, TonCalled, TpCalled, TofCalled
  <2>5. TonRests(ton) /\ TpRests(tp) /\ TofRests(tof)
    BY DEF TimerInv
  <2>6. /\ TonRests(ton') /\ ton'.current_time = clock /\ ton'.prev_in = in
        /\ TonPhase(ton') = TimerAbs!ton_state(TonPhase(ton), in, Units(clock))
        /\ ton'.q <=> TimerAbs!ton_out(TonPhase(ton), in, Units(clock))
    BY <2>3, <2>4, <2>5, TonCall
  <2>7. /\ TpRests(tp') /\ tp'.current_time = clock
        /\ TpPhase(tp') = TimerAbs!tp_state(TpPhase(tp), in, Units(clock))
        /\ tp'.q <=> TimerAbs!tp_out(TpPhase(tp), in, Units(clock))
    BY <2>3, <2>4, <2>5, TpCall
  <2>8. /\ TofRests(tof') /\ tof'.current_time = clock
        /\ TofPhase(tof') = TimerAbs!tof_state(TofPhase(tof), in, Units(clock))
        /\ tof'.q <=> TimerAbs!tof_out(TofPhase(tof), in, Units(clock))
    BY <2>3, <2>4, <2>5, TofCall
  <2>9. TimerInv'
    BY <2>6, <2>7, <2>8 DEF TimerInv
  <2>10. TimerAbs!TickGuard(Units(clock))
    BY <2>3, <2>5, StartsBehind DEF TonRests, TpRests, TofRests, TimerAbs!TickGuard
  <2>11. ton'.q \in BOOLEAN /\ tp'.q \in BOOLEAN /\ tof'.q \in BOOLEAN
    BY <2>6, <2>7, <2>8 DEF TonRests, TpRests, TofRests, OnClock, Timer
  <2>12. /\ TimerAbs!ton_out(TonPhase(ton), in, Units(clock)) \in BOOLEAN
         /\ TimerAbs!tp_out(TpPhase(tp), in, Units(clock)) \in BOOLEAN
         /\ TimerAbs!tof_out(TofPhase(tof), in, Units(clock)) \in BOOLEAN
    BY DEF TimerAbs!ton_out, TimerAbs!tp_out, TimerAbs!tof_out
  <2>13. TimerAbs!Scan(Units(clock), in)
    BY <2>6, <2>7, <2>8, <2>10, <2>11, <2>12 DEF TimerAbs!Scan
  <2>14. QED  BY <2>2, <2>9, <2>13 DEF TimerAbs!Next
<1>4. QED  BY <1>2, <1>3

-----------------------------------------------------------------------------
(* The counters: no sum leaves the type, so Cast changes nothing.          *)
WordValues == word \in {Signed, Unsigned}

LEMMA CastInType ==
    ASSUME WordValues, NEW n \in word
    PROVE  n \in Int /\ Cast(n) = n
<1> DEFINE m == 2 * WordMax + 2
<1>1. WordMax \in Nat \ {0}
  BY LibCounterAssumption
<1>2. ASSUME NEW k \in Int, 0 <= k, k < m PROVE k % m = k
  BY <1>1, <1>2
<1>3. CASE word = Signed
  <2>1. Least = -WordMax - 1 /\ n \in -WordMax - 1 .. WordMax
    BY <1>3 DEF Least, Signed
  <2>2. n - Least \in Int /\ 0 <= n - Least /\ n - Least < m
    BY <1>1, <2>1
  <2>3. QED  BY <1>1, <1>2, <2>1, <2>2 DEF Cast
<1>4. CASE word # Signed
  <2>1. Least = 0 /\ n \in 0 .. 2 * WordMax + 1
    BY <1>4 DEF Least, WordValues, Unsigned
  <2>2. QED  BY <1>1, <1>2, <2>1 DEF Cast
<1>5. QED  BY <1>3, <1>4

LEMMA InBetween ==
    ASSUME WordValues, NEW a \in word, NEW b \in word, NEW n \in Int, a <= n, n <= b
    PROVE  n \in word
BY LibCounterAssumption DEF WordValues, Signed, Unsigned

LEMMA ZeroInType == WordValues => 0 \in word
BY LibCounterAssumption DEF WordValues, Signed, Unsigned

CounterInv ==
    /\ WordValues /\ inp \in Inputs /\ inp.pv \in word
    /\ ctu \in CtuData /\ ctd \in CtdData /\ ctud \in CtudData
    /\ rtrig \in EdgeData /\ ftrig \in EdgeData /\ sr \in BOOLEAN /\ rs \in BOOLEAN

LEMMA CountersStart == CounterInit => CounterInv /\ CounterAbs!Init
<1> SUFFICES ASSUME CounterInit PROVE CounterInv /\ CounterAbs!Init
  OBVIOUS
<1>1. WordValues /\ 0 \in word
  BY ZeroInType DEF CounterInit, WordValues
<1>2. R_TRIG_init \in EdgeData /\ F_TRIG_init \in EdgeData
  BY DEF R_TRIG_init, F_TRIG_init, EdgeData
<1>3. CTU_init \in CtuData /\ CTD_init \in CtdData /\ CTUD_init \in CtudData
  BY <1>1, <1>2 DEF CTU_init, CTD_init, CTUD_init, CtuData, CtdData, CtudData
<1>4. CounterInv
  BY <1>1, <1>2, <1>3 DEF CounterInit, CounterInv, SR_init, RS_init
<1>5. CounterAbs!Init
  BY DEF CounterInit, CounterAbs!Init, R_TRIG_init, CTU_init, CTD_init, CTUD_init, SR_init, RS_init
<1>6. QED  BY <1>4, <1>5

LEMMA Up ==
    ASSUME WordValues, NEW n \in word, NEW pv \in word, n < pv
    PROVE  n + 1 \in word /\ Cast(n + 1) = n + 1
<1>1. n \in Int /\ pv \in Int
  BY CastInType
<1>2. n + 1 \in Int /\ n <= n + 1 /\ n + 1 <= pv
  BY <1>1
<1>3. n + 1 \in word
  BY <1>2, InBetween
<1>4. QED  BY <1>3, CastInType

LEMMA Down ==
    ASSUME WordValues, NEW n \in word, n > 0
    PROVE  n - 1 \in word /\ Cast(n - 1) = n - 1
<1>1. n \in Int /\ 0 \in word
  BY CastInType, ZeroInType
<1>2. n - 1 \in Int /\ 0 <= n - 1 /\ n - 1 <= n
  BY <1>1
<1>3. n - 1 \in word
  BY <1>1, <1>2, InBetween
<1>4. QED  BY <1>3, CastInType

LEMMA TriggerCall ==
    ASSUME NEW s \in EdgeData, NEW clk \in BOOLEAN
    PROVE  /\ R_TRIG_body(s, clk) \in EdgeData /\ R_TRIG_body(s, clk).m = clk
           /\ R_TRIG_body(s, clk).q <=> clk /\ ~s.m
           /\ F_TRIG_body(s, clk) \in EdgeData
BY DEF R_TRIG_body, F_TRIG_body, EdgeData

LEMMA CtuCall ==
    ASSUME CounterInv, NEW i \in Inputs, i.pv \in word, CTU_body(i)
    PROVE  /\ ctu' \in CtuData
           /\ [cv |-> ctu'.cv, prev_cu |-> ctu'.cu_t.m, q |-> ctu'.q]
                  = CounterAbs!ctu_step([cv |-> ctu.cv, prev_cu |-> ctu.cu_t.m, q |-> ctu.q], i.cu, i.r, i.pv)
<1> DEFINE t == R_TRIG_body(ctu.cu_t, i.cu)
           cv == CtuCounts(i, t.q)
           abs == [cv |-> ctu.cv, prev_cu |-> ctu.cu_t.m, q |-> ctu.q]
           new == IF i.r THEN 0
                  ELSE IF i.cu /\ ~ctu.cu_t.m THEN IF ctu.cv < i.pv THEN ctu.cv + 1 ELSE ctu.cv
                  ELSE ctu.cv
<1>1. /\ ctu.cv \in word /\ ctu.q \in BOOLEAN /\ ctu.cu_t \in EdgeData /\ ctu.cu_t.m \in BOOLEAN
      /\ i.cu \in BOOLEAN /\ i.r \in BOOLEAN /\ WordValues /\ 0 \in word
  BY ZeroInType DEF CounterInv, CtuData, EdgeData, Inputs
<1>2. t \in EdgeData /\ t.m = i.cu /\ (t.q <=> i.cu /\ ~ctu.cu_t.m)
  BY <1>1, TriggerCall
<1> HIDE DEF t
<1>3. cv = new /\ cv \in word
  <2>1. CASE i.r
    BY <1>1, <2>1 DEF CtuCounts
  <2>2. CASE ~i.r /\ t.q /\ ctu.cv < i.pv
    BY <1>1, <1>2, <2>2, Up DEF CtuCounts
  <2>3. CASE ~i.r /\ ~(t.q /\ ctu.cv < i.pv)
    <3>1. cv = ctu.cv
      BY <2>3 DEF CtuCounts
    <3>2. new = ctu.cv
      BY <1>2, <2>3
    <3>3. QED  BY <1>1, <3>1, <3>2
  <2>4. QED  BY <2>1, <2>2, <2>3
<1>4. ctu' = [cv |-> cv, q |-> cv >= i.pv, cu_t |-> t]
  BY DEF CTU_body, t
<1> HIDE DEF cv
<1>5. ctu' \in CtuData
  <2>1. (cv >= i.pv) \in BOOLEAN
    BY <1>1, <1>3, CastInType
  <2>2. QED  BY <1>2, <1>3, <1>4, <2>1 DEF CtuData
<1>6. [cv |-> ctu'.cv, prev_cu |-> ctu'.cu_t.m, q |-> ctu'.q] = [cv |-> new, prev_cu |-> i.cu, q |-> new >= i.pv]
  BY <1>2, <1>3, <1>4
<1>7. CounterAbs!ctu_step(abs, i.cu, i.r, i.pv) = [cv |-> new, prev_cu |-> i.cu, q |-> new >= i.pv]
  BY DEF CounterAbs!ctu_step
<1>8. QED  BY <1>5, <1>6, <1>7

LEMMA CtdCall ==
    ASSUME CounterInv, NEW i \in Inputs, i.pv \in word, CTD_body(i)
    PROVE  /\ ctd' \in CtdData
           /\ [cv |-> ctd'.cv, prev_cd |-> ctd'.cd_t.m, q |-> ctd'.q]
                  = CounterAbs!ctd_step([cv |-> ctd.cv, prev_cd |-> ctd.cd_t.m, q |-> ctd.q], i.cd, i.ld, i.pv)
<1> DEFINE t == R_TRIG_body(ctd.cd_t, i.cd)
           cv == CtdCounts(i, t.q)
           abs == [cv |-> ctd.cv, prev_cd |-> ctd.cd_t.m, q |-> ctd.q]
           new == IF i.ld THEN i.pv
                  ELSE IF i.cd /\ ~ctd.cd_t.m THEN IF ctd.cv > 0 THEN ctd.cv - 1 ELSE ctd.cv
                  ELSE ctd.cv
<1>1. /\ ctd.cv \in word /\ ctd.q \in BOOLEAN /\ ctd.cd_t \in EdgeData /\ ctd.cd_t.m \in BOOLEAN
      /\ i.cd \in BOOLEAN /\ i.ld \in BOOLEAN /\ WordValues
  BY DEF CounterInv, CtdData, EdgeData, Inputs
<1>2. t \in EdgeData /\ t.m = i.cd /\ (t.q <=> i.cd /\ ~ctd.cd_t.m)
  BY <1>1, TriggerCall
<1> HIDE DEF t
<1>3. cv = new /\ cv \in word
  <2>1. CASE i.ld
    BY <1>1, <2>1 DEF CtdCounts
  <2>2. CASE ~i.ld /\ t.q /\ ctd.cv > 0
    BY <1>1, <1>2, <2>2, Down DEF CtdCounts
  <2>3. CASE ~i.ld /\ ~(t.q /\ ctd.cv > 0)
    <3>1. cv = ctd.cv
      BY <2>3 DEF CtdCounts
    <3>2. new = ctd.cv
      BY <1>2, <2>3
    <3>3. QED  BY <1>1, <3>1, <3>2
  <2>4. QED  BY <2>1, <2>2, <2>3
<1>4. ctd' = [cv |-> cv, q |-> cv <= 0, cd_t |-> t]
  BY DEF CTD_body, t
<1> HIDE DEF cv
<1>5. ctd' \in CtdData
  <2>1. (cv <= 0) \in BOOLEAN
    BY <1>1, <1>3, CastInType
  <2>2. QED  BY <1>2, <1>3, <1>4, <2>1 DEF CtdData
<1>6. [cv |-> ctd'.cv, prev_cd |-> ctd'.cd_t.m, q |-> ctd'.q] = [cv |-> new, prev_cd |-> i.cd, q |-> new <= 0]
  BY <1>2, <1>3, <1>4
<1>7. CounterAbs!ctd_step(abs, i.cd, i.ld, i.pv) = [cv |-> new, prev_cd |-> i.cd, q |-> new <= 0]
  BY DEF CounterAbs!ctd_step
<1>8. QED  BY <1>5, <1>6, <1>7

(* The code tests an edge and the bound at once where the combinator tests *)
(* the bound inside the edge: after an edge up at PV no edge down is due.  *)
LEMMA CtudCall ==
    ASSUME CounterInv, NEW i \in Inputs, i.pv \in word, CTUD_body(i)
    PROVE  /\ ctud' \in CtudData
           /\ [cv |-> ctud'.cv, prev_cu |-> ctud'.cu_t.m, prev_cd |-> ctud'.cd_t.m,
               qu |-> ctud'.qu, qd |-> ctud'.qd]
                  = CounterAbs!ctud_step([cv |-> ctud.cv, prev_cu |-> ctud.cu_t.m, prev_cd |-> ctud.cd_t.m,
                                          qu |-> ctud.qu, qd |-> ctud.qd], i.cu, i.cd, i.r, i.ld, i.pv)
<1> DEFINE u == R_TRIG_body(ctud.cu_t, i.cu)
           d == R_TRIG_body(ctud.cd_t, i.cd)
           cv == CtudCounts(i, u.q, d.q)
           abs == [cv |-> ctud.cv, prev_cu |-> ctud.cu_t.m, prev_cd |-> ctud.cd_t.m,
                   qu |-> ctud.qu, qd |-> ctud.qd]
           up == i.cu /\ ~ctud.cu_t.m
           down == i.cd /\ ~ctud.cd_t.m
           new == IF i.r THEN 0
                  ELSE IF i.ld THEN i.pv
                  ELSE IF up /\ down THEN ctud.cv
                  ELSE IF up THEN IF ctud.cv < i.pv THEN ctud.cv + 1 ELSE ctud.cv
                  ELSE IF down THEN IF ctud.cv > 0 THEN ctud.cv - 1 ELSE ctud.cv
                  ELSE ctud.cv
<1>1. /\ ctud.cv \in word /\ ctud.qu \in BOOLEAN /\ ctud.qd \in BOOLEAN
      /\ ctud.cu_t \in EdgeData /\ ctud.cu_t.m \in BOOLEAN
      /\ ctud.cd_t \in EdgeData /\ ctud.cd_t.m \in BOOLEAN
      /\ i.cu \in BOOLEAN /\ i.cd \in BOOLEAN /\ i.r \in BOOLEAN /\ i.ld \in BOOLEAN /\ WordValues /\ 0 \in word
  BY ZeroInType DEF CounterInv, CtudData, EdgeData, Inputs
<1>2. u \in EdgeData /\ u.m = i.cu /\ (u.q <=> up)
  <2> HIDE DEF cv, abs, new, down, d
  <2>1. ctud.cu_t.m \in BOOLEAN /\ ctud.cu_t \in EdgeData /\ i.cu \in BOOLEAN
    BY <1>1
  <2>2. QED  BY <2>1, TriggerCall, SMTT(30)
<1>3. d \in EdgeData /\ d.m = i.cd /\ (d.q <=> down)
  <2> HIDE DEF cv, abs, new, up, u
  <2>1. ctud.cd_t.m \in BOOLEAN /\ ctud.cd_t \in EdgeData /\ i.cd \in BOOLEAN
    BY <1>1
  <2>2. QED  BY <2>1, TriggerCall, SMTT(30)
<1> HIDE DEF u, d
<1>4. cv = new /\ cv \in word
  <2> HIDE DEF up, down
  <2>1. CASE i.r \/ i.ld
    BY <1>1, <2>1 DEF CtudCounts
  <2>2. CASE ~i.r /\ ~i.ld /\ up /\ down
    BY <1>1, <1>2, <1>3, <2>2 DEF CtudCounts
  <2>3. CASE ~i.r /\ ~i.ld /\ up /\ ~down
    <3>1. CASE ctud.cv < i.pv
      BY <1>1, <1>2, <1>3, <2>3, <3>1, Up DEF CtudCounts
    <3>2. CASE ~(ctud.cv < i.pv)
      BY <1>1, <1>2, <1>3, <2>3, <3>2 DEF CtudCounts
    <3>3. QED  BY <3>1, <3>2
  <2>4. CASE ~i.r /\ ~i.ld /\ ~up /\ down
    <3>1. CASE ctud.cv > 0
      BY <1>1, <1>2, <1>3, <2>4, <3>1, Down DEF CtudCounts
    <3>2. CASE ~(ctud.cv > 0)
      BY <1>1, <1>2, <1>3, <2>4, <3>2 DEF CtudCounts
    <3>3. QED  BY <3>1, <3>2
  <2>5. CASE ~i.r /\ ~i.ld /\ ~up /\ ~down
    BY <1>1, <1>2, <1>3, <2>5 DEF CtudCounts
  <2>6. QED  BY <2>1, <2>2, <2>3, <2>4, <2>5
<1>5. ctud' = [cv |-> cv, qu |-> cv >= i.pv, qd |-> cv <= 0, cu_t |-> u, cd_t |-> d]
  BY DEF CTUD_body, u, d
<1> HIDE DEF cv
<1>6. ctud' \in CtudData
  <2>1. (cv >= i.pv) \in BOOLEAN /\ (cv <= 0) \in BOOLEAN
    BY <1>1, <1>4, CastInType
  <2>2. QED  BY <1>2, <1>3, <1>4, <1>5, <2>1 DEF CtudData
<1>7. [cv |-> ctud'.cv, prev_cu |-> ctud'.cu_t.m, prev_cd |-> ctud'.cd_t.m, qu |-> ctud'.qu, qd |-> ctud'.qd]
          = [cv |-> new, prev_cu |-> i.cu, prev_cd |-> i.cd, qu |-> new >= i.pv, qd |-> new <= 0]
  BY <1>2, <1>3, <1>4, <1>5
<1>8. CounterAbs!ctud_step(abs, i.cu, i.cd, i.r, i.ld, i.pv)
          = [cv |-> new, prev_cu |-> i.cu, prev_cd |-> i.cd, qu |-> new >= i.pv, qd |-> new <= 0]
  BY DEF CounterAbs!ctud_step
<1>9. QED  BY <1>6, <1>7, <1>8

LEMMA CountersStep ==
    ASSUME CounterInv, NEW en \in BOOLEAN, CounterNext(en)
    PROVE  CounterInv' /\ [CounterAbs!Next]_(CounterAbs!vars)
<1>1. PICK i \in Inputs : CounterScan(en, i)
  BY DEF CounterNext
<1>2. CASE ~en
  <2>1. UNCHANGED <<inp, ctu, ctd, ctud, rtrig, ftrig, sr, rs, word>>
    BY <1>1, <1>2 DEF CounterScan, CTU, CTD, CTUD, R_TRIG, F_TRIG, SR, RS
  <2>2. QED  BY <2>1 DEF CounterInv, WordValues, CtuData, CtdData, CtudData, CounterAbs!vars
<1>3. CASE en
  <2>1. /\ i.pv \in word /\ word' = word /\ inp' = i
        /\ CTU_body(i) /\ CTD_body(i) /\ CTUD_body(i) /\ SR_body(i) /\ RS_body(i)
        /\ rtrig' = R_TRIG_body(rtrig, i.cu) /\ ftrig' = F_TRIG_body(ftrig, i.cu)
    BY <1>1, <1>3 DEF CounterScan, CTU, CTD, CTUD, R_TRIG, F_TRIG, SR, RS
  <2>2. i.cu \in BOOLEAN /\ i.r \in BOOLEAN /\ sr \in BOOLEAN /\ rs \in BOOLEAN
    BY DEF Inputs, CounterInv
  <2>3. /\ ctu' \in CtuData
        /\ [cv |-> ctu'.cv, prev_cu |-> ctu'.cu_t.m, q |-> ctu'.q]
               = CounterAbs!ctu_step([cv |-> ctu.cv, prev_cu |-> ctu.cu_t.m, q |-> ctu.q], i.cu, i.r, i.pv)
    BY <2>1, CtuCall
  <2>4. /\ ctd' \in CtdData
        /\ [cv |-> ctd'.cv, prev_cd |-> ctd'.cd_t.m, q |-> ctd'.q]
               = CounterAbs!ctd_step([cv |-> ctd.cv, prev_cd |-> ctd.cd_t.m, q |-> ctd.q], i.cd, i.ld, i.pv)
    BY <2>1, CtdCall
  <2>5. /\ ctud' \in CtudData
        /\ [cv |-> ctud'.cv, prev_cu |-> ctud'.cu_t.m, prev_cd |-> ctud'.cd_t.m,
            qu |-> ctud'.qu, qd |-> ctud'.qd]
               = CounterAbs!ctud_step([cv |-> ctud.cv, prev_cu |-> ctud.cu_t.m, prev_cd |-> ctud.cd_t.m,
                                       qu |-> ctud.qu, qd |-> ctud.qd], i.cu, i.cd, i.r, i.ld, i.pv)
    BY <2>1, CtudCall
  <2>6. rtrig' \in EdgeData /\ ftrig' \in EdgeData /\ rtrig' = CounterAbs!r_trig_step(rtrig, i.cu)
    BY <2>1, <2>2, TriggerCall DEF CounterInv, R_TRIG_body, CounterAbs!r_trig_step
  <2>7. /\ sr' \in BOOLEAN /\ rs' \in BOOLEAN
        /\ sr' = CounterAbs!sr_step(sr, i.cu, i.r) /\ rs' = CounterAbs!rs_step(rs, i.cu, i.r)
    BY <2>1, <2>2 DEF SR_body, RS_body, CounterAbs!sr_step, CounterAbs!rs_step
  <2>8. CounterInv'
    BY <2>1, <2>3, <2>4, <2>5, <2>6, <2>7 DEF CounterInv, WordValues, CtuData, CtdData, CtudData
  <2>9. CounterAbs!Scan(i)
    BY <2>1, <2>3, <2>4, <2>5, <2>6, <2>7 DEF CounterAbs!Scan
  <2>10. QED  BY <2>8, <2>9 DEF CounterAbs!Next
<1>4. QED  BY <1>2, <1>3

(* The history of a counter: the ends of its type bound every count, so    *)
(* edges past the room its type has left need no telling apart.            *)
LEMMA TypeEnds ==
    ASSUME WordValues, NEW n \in word
    PROVE  n \in Int /\ Least \in Int /\ Most \in Int /\ Least <= n /\ n <= Most
BY LibCounterAssumption DEF WordValues, Signed, Unsigned, Least, Most

Histories == [of : {"ctu", "ctd", "ctud"}, set : word, ups : Nat, downs : Nat, pvs : SUBSET word]

LEMMA HistoryBegins ==
    ASSUME WordValues, NEW f \in {"ctu", "ctd", "ctud"}, NEW n \in word
    PROVE  Begun(f, n) \in Histories /\ Begun(f, n).of = f /\ CountedRight(Begun(f, n), n)
<1>1. n \in Int
  BY TypeEnds
<1>2. Begun(f, n) = [of |-> f, set |-> n, ups |-> 0, downs |-> 0, pvs |-> {}]
  BY DEF Begun
<1>3. Begun(f, n) \in Histories
  BY <1>2 DEF Histories
<1>4. QED  BY <1>1, <1>2, <1>3 DEF CountedRight

LEMMA OneMoreIs ==
    ASSUME NEW n \in Nat, NEW room \in Int, room >= 0
    PROVE  /\ OneMore(n, room) \in Nat /\ OneMore(n, room) > 0 /\ OneMore(n, room) >= n
           /\ OneMore(n, room) = n + 1 \/ (OneMore(n, room) = n /\ n > room)
BY DEF OneMore

LEMMA CountedUp ==
    ASSUME WordValues, NEW c \in Histories, NEW cv \in word, NEW pv \in word, CountedRight(c, cv)
    PROVE  /\ WithUp(c, pv) \in Histories /\ WithUp(c, pv).of = c.of /\ WithUp(c, pv).downs = c.downs
           /\ CountedRight(WithUp(c, pv), IF cv < pv THEN cv + 1 ELSE cv)
<1> DEFINE d == WithUp(c, pv)
           new == IF cv < pv THEN cv + 1 ELSE cv
<1>1. c.set \in word /\ c.ups \in Nat /\ c.downs \in Nat /\ c.pvs \subseteq word
  BY DEF Histories
<1>2. /\ c.set \in Int /\ cv \in Int /\ pv \in Int /\ Most \in Int
      /\ c.set <= Most /\ cv <= Most /\ pv <= Most
  BY <1>1, TypeEnds
<1>3. /\ d.of = c.of /\ d.set = c.set /\ d.ups = OneMore(c.ups, Most - c.set) /\ d.downs = c.downs
      /\ d.pvs = c.pvs \cup {pv}
  BY DEF WithUp, Histories
<1>4. /\ d.ups \in Nat /\ d.ups > 0 /\ d.ups >= c.ups
      /\ d.ups = c.ups + 1 \/ (d.ups = c.ups /\ c.set + c.ups > Most)
  <2>1. Most - c.set \in Int /\ Most - c.set >= 0
    BY <1>2
  <2>2. /\ d.ups \in Nat /\ d.ups > 0 /\ d.ups >= c.ups
        /\ d.ups = c.ups + 1 \/ (d.ups = c.ups /\ c.ups > Most - c.set)
    BY <1>1, <1>3, <2>1, OneMoreIs
  <2>3. QED  BY <1>1, <1>2, <2>2
<1>5. d \in Histories
  <2>1. d = [of |-> c.of, set |-> c.set, ups |-> d.ups, downs |-> c.downs, pvs |-> d.pvs]
    BY <1>3 DEF WithUp, Histories
  <2>2. d.pvs \subseteq word
    BY <1>1, <1>3
  <2> HIDE DEF d
  <2>3. QED  BY <1>1, <1>4, <2>1, <2>2 DEF Histories
<1> HIDE DEF d
<1>6. /\ c.set - c.downs <= cv /\ cv <= c.set + c.ups
      /\ cv <= c.set \/ \E p \in c.pvs : cv <= p
      /\ cv >= c.set \/ cv >= 0
      /\ c.downs = 0 => cv >= c.set /\ (cv >= c.set + c.ups \/ \E p \in c.pvs : cv >= p)
  BY DEF CountedRight
<1>7. new \in Int /\ new >= cv /\ new <= Most /\ (new = cv \/ (new = cv + 1 /\ new <= pv)) /\ (new = cv => pv <= cv)
  BY <1>2
<1> HIDE DEF new
<1>8. c.set - c.downs <= new /\ new <= c.set + d.ups
  BY <1>1, <1>2, <1>4, <1>6, <1>7
<1>9. new <= c.set \/ \E p \in d.pvs : new <= p
  BY <1>3, <1>6, <1>7
<1>10. new >= c.set \/ new >= 0
  BY <1>2, <1>6, <1>7
<1>11. ASSUME c.downs = 0
       PROVE  new >= c.set /\ (new >= c.set + d.ups \/ \E p \in d.pvs : new >= p)
  <2>1. new >= c.set
    BY <1>2, <1>6, <1>7, <1>11
  <2>2. CASE new = cv
    BY <1>3, <1>7, <2>1, <2>2
  <2>3. CASE cv >= c.set + c.ups /\ new = cv + 1
    BY <1>1, <1>2, <1>4, <1>7, <2>1, <2>3
  <2>4. ASSUME NEW p \in c.pvs, cv >= p PROVE new >= p
    <3>1. p \in Int
      BY <1>1, TypeEnds
    <3>2. QED  BY <1>2, <1>7, <2>4, <3>1
  <2>5. QED  BY <1>3, <1>6, <1>7, <1>11, <2>1, <2>2, <2>3, <2>4
<1>12. CountedRight(d, new)
  BY <1>3, <1>4, <1>8, <1>9, <1>10, <1>11 DEF CountedRight
<1>13. QED  BY <1>3, <1>5, <1>12 DEF d, new

LEMMA CountedDown ==
    ASSUME WordValues, NEW c \in Histories, NEW cv \in word, CountedRight(c, cv)
    PROVE  /\ WithDown(c) \in Histories /\ WithDown(c).of = c.of /\ WithDown(c).ups = c.ups
           /\ CountedRight(WithDown(c), IF cv > 0 THEN cv - 1 ELSE cv)
<1> DEFINE d == WithDown(c)
           new == IF cv > 0 THEN cv - 1 ELSE cv
<1>1. c.set \in word /\ c.ups \in Nat /\ c.downs \in Nat /\ c.pvs \subseteq word
  BY DEF Histories
<1>2. c.set \in Int /\ cv \in Int /\ Least \in Int /\ Least <= c.set /\ Least <= cv
  BY <1>1, TypeEnds
<1>3. /\ d.of = c.of /\ d.set = c.set /\ d.ups = c.ups /\ d.downs = OneMore(c.downs, c.set - Least)
      /\ d.pvs = c.pvs
  BY DEF WithDown, Histories
<1>4. /\ d.downs \in Nat /\ d.downs > 0 /\ d.downs >= c.downs
      /\ d.downs = c.downs + 1 \/ (d.downs = c.downs /\ c.set - c.downs < Least)
  <2>1. c.set - Least \in Int /\ c.set - Least >= 0
    BY <1>2
  <2>2. /\ d.downs \in Nat /\ d.downs > 0 /\ d.downs >= c.downs
        /\ d.downs = c.downs + 1 \/ (d.downs = c.downs /\ c.downs > c.set - Least)
    BY <1>1, <1>3, <2>1, OneMoreIs
  <2>3. QED  BY <1>1, <1>2, <2>2
<1>5. d \in Histories
  <2>1. d = [of |-> c.of, set |-> c.set, ups |-> c.ups, downs |-> d.downs, pvs |-> c.pvs]
    BY <1>3 DEF WithDown, Histories
  <2> HIDE DEF d
  <2>2. QED  BY <1>1, <1>4, <2>1 DEF Histories
<1> HIDE DEF d
<1>6. /\ c.set - c.downs <= cv /\ cv <= c.set + c.ups
      /\ cv <= c.set \/ \E p \in c.pvs : cv <= p
      /\ cv >= c.set \/ cv >= 0
      /\ c.ups = 0 => cv <= c.set /\ (cv <= c.set - c.downs \/ cv <= 0)
  BY DEF CountedRight
<1>7. new \in Int /\ new <= cv /\ (new = cv \/ (new = cv - 1 /\ cv > 0 /\ new >= 0)) /\ (new = cv => cv <= 0)
  BY <1>2
<1> HIDE DEF new
<1>8. c.set - d.downs <= new /\ new <= c.set + c.ups
  BY <1>1, <1>2, <1>4, <1>6, <1>7
<1>9. new <= c.set \/ \E p \in c.pvs : new <= p
  <2>1. CASE cv <= c.set
    BY <1>2, <1>7, <2>1
  <2>2. ASSUME NEW p \in c.pvs, cv <= p PROVE new <= p
    <3>1. p \in Int
      BY <1>1, TypeEnds
    <3>2. QED  BY <1>2, <1>7, <2>2, <3>1
  <2>3. QED  BY <1>6, <2>1, <2>2
<1>10. new >= c.set \/ new >= 0
  BY <1>2, <1>6, <1>7
<1>11. ASSUME c.ups = 0
       PROVE  new <= c.set /\ (new <= c.set - d.downs \/ new <= 0)
  BY <1>1, <1>2, <1>4, <1>6, <1>7, <1>11
<1>12. CountedRight(d, new)
  BY <1>3, <1>4, <1>8, <1>9, <1>10, <1>11 DEF CountedRight
<1>13. QED  BY <1>3, <1>5, <1>12 DEF d, new

(* The history and the data of the blocks agree on the last call, so they  *)
(* see the same edges.                                                     *)
LastCalls ==
    /\ clks \in Seq(BOOLEAN) /\ Len(clks) <= 2
    /\ clks # <<>> => clks[Len(clks)] = inp.cu
    /\ ctu.cu_t.m <=> clks # <<>> /\ inp.cu
    /\ ctud.cu_t.m <=> clks # <<>> /\ inp.cu
    /\ ctd.cd_t.m <=> clks # <<>> /\ inp.cd
    /\ ctud.cd_t.m <=> clks # <<>> /\ inp.cd
    /\ ftrig.m <=> clks # <<>> /\ ~inp.cu
CourseInv ==
    /\ course \in Histories /\ LastCalls /\ CountsEdges /\ ShowsFall

LEMMA CourseStarts == CounterInit => CourseInv
<1> SUFFICES ASSUME CounterInit PROVE CourseInv
  OBVIOUS
<1>1. WordValues /\ 0 \in word
  BY ZeroInType DEF CounterInit, WordValues
<1>2. PICK f \in {"ctu", "ctd", "ctud"} : course = Begun(f, 0)
  BY DEF CounterInit
<1>3. course \in Histories /\ CountedRight(course, 0)
  BY <1>1, <1>2, HistoryBegins
<1>4. /\ clks = <<>> /\ ctu.cv = 0 /\ ctd.cv = 0 /\ ctud.cv = 0
      /\ ~ctu.cu_t.m /\ ~ctud.cu_t.m /\ ~ctd.cd_t.m /\ ~ctud.cd_t.m /\ ~ftrig.m /\ ~ftrig.q
  BY DEF CounterInit, CTU_init, CTD_init, CTUD_init, R_TRIG_init, F_TRIG_init
<1>5. LastCalls
  BY <1>4 DEF LastCalls
<1>6. QED  BY <1>3, <1>4, <1>5 DEF CourseInv, CountsEdges, ShowsFall

(* One more call, of each counter whose history is kept.                   *)
LEMMA CtuFollowed ==
    ASSUME CounterInv, CourseInv, NEW i \in Inputs, i.pv \in word, CTU_body(i), course.of = "ctu"
    PROVE  Followed(i) \in Histories /\ Followed(i).of = "ctu" /\ CountedRight(Followed(i), ctu'.cv)
<1> DEFINE new == IF ctu.cv < i.pv THEN ctu.cv + 1 ELSE ctu.cv
<1>1. /\ WordValues /\ 0 \in word /\ ctu.cv \in word /\ course \in Histories /\ CountedRight(course, ctu.cv)
      /\ i.cu \in BOOLEAN /\ i.r \in BOOLEAN /\ ctu.cu_t \in EdgeData
  BY ZeroInType DEF CounterInv, CourseInv, CountsEdges, CtuData, Inputs
<1>2. CountsUp /\ ~CountsDown
  BY DEF CountsUp, CountsDown
<1>3. UpEdge(i) <=> R_TRIG_body(ctu.cu_t, i.cu).q
  BY <1>1, <1>2, TriggerCall DEF CourseInv, LastCalls, UpEdge
<1>4. ctu'.cv = CtuCounts(i, R_TRIG_body(ctu.cu_t, i.cu).q)
  BY DEF CTU_body
<1>5. ~DownEdge(i)
  BY <1>2 DEF DownEdge
<1>6. CASE i.r
  <2>1. Followed(i) = Begun("ctu", 0) /\ ctu'.cv = 0
    BY <1>2, <1>4, <1>6 DEF Followed, CtuCounts
  <2>2. QED  BY <1>1, <2>1, HistoryBegins
<1>7. CASE ~i.r /\ UpEdge(i)
  <2>1. Followed(i) = WithUp(course, i.pv)
    BY <1>2, <1>5, <1>7 DEF Followed
  <2>2. ctu'.cv = new
    BY <1>1, <1>3, <1>4, <1>7, Up DEF CtuCounts
  <2>3. QED  BY <1>1, <2>1, <2>2, CountedUp
<1>8. CASE ~i.r /\ ~UpEdge(i)
  <2>1. Followed(i) = course /\ ctu'.cv = ctu.cv
    BY <1>2, <1>3, <1>4, <1>5, <1>8 DEF Followed, CtuCounts
  <2>2. QED  BY <1>1, <2>1
<1>9. QED  BY <1>6, <1>7, <1>8

LEMMA CtdFollowed ==
    ASSUME CounterInv, CourseInv, NEW i \in Inputs, i.pv \in word, CTD_body(i), course.of = "ctd"
    PROVE  Followed(i) \in Histories /\ Followed(i).of = "ctd" /\ CountedRight(Followed(i), ctd'.cv)
<1> DEFINE new == IF ctd.cv > 0 THEN ctd.cv - 1 ELSE ctd.cv
<1>1. /\ WordValues /\ ctd.cv \in word /\ course \in Histories /\ CountedRight(course, ctd.cv)
      /\ i.cd \in BOOLEAN /\ i.ld \in BOOLEAN /\ ctd.cd_t \in EdgeData
  BY DEF CounterInv, CourseInv, CountsEdges, CtdData, Inputs
<1>2. ~CountsUp /\ CountsDown
  BY DEF CountsUp, CountsDown
<1>3. DownEdge(i) <=> R_TRIG_body(ctd.cd_t, i.cd).q
  BY <1>1, <1>2, TriggerCall DEF CourseInv, LastCalls, DownEdge
<1>4. ctd'.cv = CtdCounts(i, R_TRIG_body(ctd.cd_t, i.cd).q)
  BY DEF CTD_body
<1>5. ~UpEdge(i)
  BY <1>2 DEF UpEdge
<1>6. CASE i.ld
  <2>1. Followed(i) = Begun("ctd", i.pv) /\ ctd'.cv = i.pv
    BY <1>2, <1>4, <1>6 DEF Followed, CtdCounts
  <2>2. QED  BY <1>1, <2>1, HistoryBegins
<1>7. CASE ~i.ld /\ DownEdge(i)
  <2>1. Followed(i) = WithDown(course)
    BY <1>2, <1>5, <1>7 DEF Followed
  <2>2. ctd'.cv = new
    BY <1>1, <1>3, <1>4, <1>7, Down DEF CtdCounts
  <2>3. QED  BY <1>1, <2>1, <2>2, CountedDown
<1>8. CASE ~i.ld /\ ~DownEdge(i)
  <2>1. Followed(i) = course /\ ctd'.cv = ctd.cv
    BY <1>2, <1>3, <1>4, <1>5, <1>8 DEF Followed, CtdCounts
  <2>2. QED  BY <1>1, <2>1
<1>9. QED  BY <1>6, <1>7, <1>8

LEMMA CtudFollowed ==
    ASSUME CounterInv, CourseInv, NEW i \in Inputs, i.pv \in word, CTUD_body(i), course.of = "ctud"
    PROVE  Followed(i) \in Histories /\ Followed(i).of = "ctud" /\ CountedRight(Followed(i), ctud'.cv)
<1> DEFINE up == R_TRIG_body(ctud.cu_t, i.cu).q
           down == R_TRIG_body(ctud.cd_t, i.cd).q
           more == IF ctud.cv < i.pv THEN ctud.cv + 1 ELSE ctud.cv
           less == IF ctud.cv > 0 THEN ctud.cv - 1 ELSE ctud.cv
<1>1. /\ WordValues /\ 0 \in word /\ ctud.cv \in word /\ course \in Histories /\ CountedRight(course, ctud.cv)
      /\ i.cu \in BOOLEAN /\ i.cd \in BOOLEAN /\ i.r \in BOOLEAN /\ i.ld \in BOOLEAN
      /\ ctud.cu_t \in EdgeData /\ ctud.cd_t \in EdgeData
  BY ZeroInType DEF CounterInv, CourseInv, CountsEdges, CtudData, Inputs
<1>2. CountsUp /\ CountsDown
  BY DEF CountsUp, CountsDown
<1>3. (UpEdge(i) <=> up) /\ (DownEdge(i) <=> down)
  BY <1>1, <1>2, TriggerCall DEF CourseInv, LastCalls, UpEdge, DownEdge
<1>4. ctud'.cv = CtudCounts(i, up, down)
  BY DEF CTUD_body
<1> HIDE DEF up, down
<1>5. CASE i.r
  <2>1. Followed(i) = Begun("ctud", 0) /\ ctud'.cv = 0
    BY <1>2, <1>4, <1>5 DEF Followed, CtudCounts
  <2>2. QED  BY <1>1, <2>1, HistoryBegins
<1>6. CASE ~i.r /\ i.ld
  <2>1. Followed(i) = Begun("ctud", i.pv) /\ ctud'.cv = i.pv
    BY <1>2, <1>4, <1>6 DEF Followed, CtudCounts
  <2>2. QED  BY <1>1, <2>1, HistoryBegins
<1>7. CASE ~i.r /\ ~i.ld /\ up /\ ~down
  <2>1. Followed(i) = WithUp(course, i.pv)
    BY <1>2, <1>3, <1>7 DEF Followed
  <2>2. ctud'.cv = more
    BY <1>1, <1>4, <1>7, Up DEF CtudCounts
  <2>3. QED  BY <1>1, <2>1, <2>2, CountedUp
<1>8. CASE ~i.r /\ ~i.ld /\ ~up /\ down
  <2>1. Followed(i) = WithDown(course)
    BY <1>2, <1>3, <1>8 DEF Followed
  <2>2. ctud'.cv = less
    BY <1>1, <1>4, <1>8, Down DEF CtudCounts
  <2>3. QED  BY <1>1, <2>1, <2>2, CountedDown
<1>9. CASE ~i.r /\ ~i.ld /\ (up <=> down)
  <2>1. Followed(i) = course /\ ctud'.cv = ctud.cv
    BY <1>2, <1>3, <1>4, <1>9 DEF Followed, CtudCounts
  <2>2. QED  BY <1>1, <2>1
<1>10. QED  BY <1>5, <1>6, <1>7, <1>8, <1>9

LEMMA RecentClks ==
    ASSUME NEW s \in Seq(BOOLEAN), Len(s) <= 2, clks = s, NEW clk \in BOOLEAN
    PROVE  /\ Recent(clk) \in Seq(BOOLEAN) /\ Recent(clk) # <<>> /\ Len(Recent(clk)) <= 2
           /\ Recent(clk)[Len(Recent(clk))] = clk
           /\ Len(Recent(clk)) = 2 <=> s # <<>>
           /\ s # <<>> => Recent(clk)[1] = s[Len(s)]
<1>1. CASE s = <<>>
  <2>1. Recent(clk) = <<clk>>
    BY <1>1 DEF Recent
  <2>2. QED  BY <1>1, <2>1
<1>2. CASE s # <<>>
  <2>1. Recent(clk) = <<s[Len(s)], clk>>
    BY <1>2 DEF Recent
  <2>2. s[Len(s)] \in BOOLEAN
    BY <1>2
  <2>3. QED  BY <1>2, <2>1, <2>2
<1>3. QED  BY <1>1, <1>2

LEMMA CourseStep ==
    ASSUME CounterInv, CourseInv, NEW en \in BOOLEAN, CounterNext(en)
    PROVE  CourseInv'
<1>1. PICK i \in Inputs : CounterScan(en, i)
  BY DEF CounterNext
<1>2. CASE ~en
  <2>1. UNCHANGED <<inp, ctu, ctd, ctud, ftrig, word, course, clks>>
    BY <1>1, <1>2 DEF CounterScan, CTU, CTD, CTUD, F_TRIG
  <2>2. QED  BY <2>1 DEF CourseInv, LastCalls, Histories, CountsEdges, ShowsFall, CountedRight
<1>3. CASE en
  <2>1. /\ i.pv \in word /\ word' = word /\ inp' = i /\ CTU_body(i) /\ CTD_body(i) /\ CTUD_body(i)
        /\ ftrig' = F_TRIG_body(ftrig, i.cu) /\ course' = Followed(i) /\ clks' = Recent(i.cu)
    BY <1>1, <1>3 DEF CounterScan, CTU, CTD, CTUD, F_TRIG
  <2>2. i.cu \in BOOLEAN /\ i.cd \in BOOLEAN /\ clks \in Seq(BOOLEAN) /\ Len(clks) <= 2
    BY DEF Inputs, CourseInv, LastCalls
  <2>3. /\ clks' \in Seq(BOOLEAN) /\ clks' # <<>> /\ Len(clks') <= 2 /\ clks'[Len(clks')] = i.cu
        /\ Len(clks') = 2 <=> clks # <<>>
        /\ clks # <<>> => clks'[1] = clks[Len(clks)]
    BY <2>1, <2>2, RecentClks
  <2>4. /\ ctu'.cu_t.m = i.cu /\ ctd'.cd_t.m = i.cd /\ ctud'.cu_t.m = i.cu /\ ctud'.cd_t.m = i.cd
        /\ ftrig'.m = ~i.cu /\ ftrig'.q = (~i.cu /\ ~ftrig.m)
    BY <2>1 DEF CTU_body, CTD_body, CTUD_body, R_TRIG_body, F_TRIG_body
  <2>5. LastCalls'
    BY <2>1, <2>2, <2>3, <2>4 DEF LastCalls
  <2>6. ShowsFall'
    <3>1. /\ ftrig.m <=> clks # <<>> /\ ~inp.cu
          /\ clks # <<>> => clks[Len(clks)] = inp.cu
      BY DEF CourseInv, LastCalls
    <3>2. QED  BY <2>2, <2>3, <2>4, <3>1 DEF ShowsFall
  <2>7. course.of \in {"ctu", "ctd", "ctud"}
    BY DEF CourseInv, Histories
  <2>8. CASE course.of = "ctu"
    <3>1. Followed(i) \in Histories /\ Followed(i).of = "ctu" /\ CountedRight(Followed(i), ctu'.cv)
      BY <2>1, <2>8, CtuFollowed
    <3>2. course' \in Histories' /\ CountsEdges'
      BY <2>1, <3>1 DEF Histories, CountsEdges, CountedRight
    <3>3. QED  BY <2>5, <2>6, <3>2 DEF CourseInv
  <2>9. CASE course.of = "ctd"
    <3>1. Followed(i) \in Histories /\ Followed(i).of = "ctd" /\ CountedRight(Followed(i), ctd'.cv)
      BY <2>1, <2>9, CtdFollowed
    <3>2. course' \in Histories' /\ CountsEdges'
      BY <2>1, <3>1 DEF Histories, CountsEdges, CountedRight
    <3>3. QED  BY <2>5, <2>6, <3>2 DEF CourseInv
  <2>10. CASE course.of = "ctud"
    <3>1. Followed(i) \in Histories /\ Followed(i).of = "ctud" /\ CountedRight(Followed(i), ctud'.cv)
      BY <2>1, <2>10, CtudFollowed
    <3>2. course' \in Histories' /\ CountsEdges'
      BY <2>1, <3>1 DEF Histories, CountsEdges, CountedRight
    <3>3. QED  BY <2>5, <2>6, <3>2 DEF CourseInv
  <2>11. QED  BY <2>7, <2>8, <2>9, <2>10
<1>4. QED  BY <1>2, <1>3

(* Whatever a program calls and whatever PV does between the calls, in a   *)
(* counter of any width: the count is explained by the edges since it was  *)
(* last set, with none lost, none past PV or zero and no wrap of the type, *)
(* and F_TRIG by the last two calls.                                       *)
THEOREM LibraryCountsEdges == Spec => []EdgesAreCounted
<1> DEFINE Inv == CounterInv /\ CourseInv
<1>1. Init => Inv
  BY CountersStart, CourseStarts DEF Init
<1>2. Inv /\ [Next]_vars => Inv'
  <2> SUFFICES ASSUME CounterInv, CourseInv, [Next]_vars PROVE CounterInv' /\ CourseInv'
    OBVIOUS
  <2>1. UNCHANGED counters \/ \E en \in Enables : CounterNext(en)
    BY DEF Next, vars, BlockCall, FunctionCall, TaskStep
  <2>2. CASE UNCHANGED counters
    <3>1. UNCHANGED <<word, inp, ctu, ctd, ctud, rtrig, ftrig, sr, rs, course, clks>>
      BY <2>2 DEF counters
    <3>2. CounterInv'
      BY <3>1 DEF CounterInv, WordValues, CtuData, CtdData, CtudData
    <3>3. CourseInv'
      BY <3>1 DEF CourseInv, LastCalls, Histories, CountsEdges, ShowsFall, CountedRight
    <3>4. QED  BY <3>2, <3>3
  <2>3. ASSUME NEW en \in Enables, CounterNext(en) PROVE CounterInv' /\ CourseInv'
    <3>1. en \in BOOLEAN
      BY DEF Enables
    <3>2. QED  BY <2>3, <3>1, CountersStep, CourseStep
  <2>4. QED  BY <2>1, <2>2, <2>3
<1>3. Inv => EdgesAreCounted
  BY DEF CourseInv, EdgesAreCounted
<1>4. QED  BY <1>1, <1>2, <1>3, PTL DEF Spec

-----------------------------------------------------------------------------
(* The other families of calls leave these blocks alone.                   *)
LEMMA BlocksStep ==
    ASSUME PT # Zero, TimerInv, CounterInv, [Next]_vars
    PROVE  /\ TimerInv' /\ [TimerAbs!Next]_(TimerAbs!vars)
           /\ CounterInv' /\ [CounterAbs!Next]_(CounterAbs!vars)
<1>1. ASSUME UNCHANGED timers
      PROVE  TimerInv' /\ [TimerAbs!Next]_(TimerAbs!vars)
  BY <1>1 DEF timers, TimerInv, TonRests, TpRests, TofRests, OnClock, TimerAbs!vars
<1>2. ASSUME UNCHANGED counters
      PROVE  CounterInv' /\ [CounterAbs!Next]_(CounterAbs!vars)
  BY <1>2 DEF counters, CounterInv, WordValues, CtuData, CtdData, CtudData, CounterAbs!vars
<1>3. CASE UNCHANGED vars
  BY <1>1, <1>2, <1>3 DEF vars
<1>4. CASE FunctionCall \/ TaskStep
  BY <1>1, <1>2, <1>4 DEF FunctionCall, TaskStep
<1>5. CASE BlockCall
  <2>1. PICK en \in Enables :
          \/ TimerNext(en) /\ UNCHANGED counters
          \/ CounterNext(en) /\ UNCHANGED timers
          \/ UNCHANGED <<timers, counters>>
    BY <1>5 DEF BlockCall
  <2>2. en \in BOOLEAN
    BY DEF Enables
  <2>3. CASE TimerNext(en) /\ UNCHANGED counters
    BY <1>2, <2>2, <2>3, TimersStep
  <2>4. CASE CounterNext(en) /\ UNCHANGED timers
    BY <1>1, <2>2, <2>4, CountersStep
  <2>5. CASE UNCHANGED <<timers, counters>>
    BY <1>1, <1>2, <2>5
  <2>6. QED  BY <2>1, <2>3, <2>4, <2>5
<1>6. QED  BY <1>3, <1>4, <1>5 DEF Next

(* The timers, counters, R_TRIG and the latches of the C library do        *)
(* what the combinators of LowPLC do, whatever the program calls between   *)
(* their calls, for every preset but T#0s (with which the library's TP     *)
(* still gives a pulse), every width of a counter and every clock that is  *)
(* not set back.                                                           *)
THEOREM LibraryBlocksAreCombinators ==
    ASSUME PT # Zero
    PROVE  Spec => RefinesCombinators
<1>1. Init => TimerInv /\ TimerAbs!Init /\ CounterInv /\ CounterAbs!Init
  BY TimersStart, CountersStart DEF Init
<1>2. TimerInv /\ CounterInv /\ [Next]_vars
          => /\ TimerInv' /\ [TimerAbs!Next]_(TimerAbs!vars)
             /\ CounterInv' /\ [CounterAbs!Next]_(CounterAbs!vars)
  BY BlocksStep
<1>3. QED  BY <1>1, <1>2, PTL DEF Spec, RefinesCombinators, TimerAbs!Spec, CounterAbs!Spec

-----------------------------------------------------------------------------
(* A set with 0 that holds the successor of each of its numbers.           *)
LEMMA SetInduction ==
    ASSUME NEW S, 0 \in S, \A n \in Nat : n \in S => n + 1 \in S
    PROVE  Nat \subseteq S
<1> DEFINE R == OpToRel(<, Nat)
           T == Nat \ S
<1>1. IsWellFoundedOn(R, Nat)
  BY NatLessThanWellFounded
<1>2. \A x, y \in Nat : x < y => <<x, y>> \in R
  BY DEF OpToRel
<1>3. SUFFICES ASSUME T # {} PROVE FALSE
  OBVIOUS
<1>4. T \subseteq Nat
  OBVIOUS
<1> HIDE DEF R
<1>5. PICK x \in T : \A y \in T : ~(<<y, x>> \in R)
  <2> HIDE DEF T
  <2> QED  BY <1>1, <1>3, <1>4, WFMin
<1>6. x \in Nat /\ x # 0 /\ x - 1 \in Nat
  BY <1>5
<1>7. x - 1 \in S
  <2>1. SUFFICES ASSUME x - 1 \notin S PROVE FALSE
    OBVIOUS
  <2>2. x - 1 \in T
    BY <1>6, <2>1
  <2>3. x - 1 < x
    BY <1>6
  <2>4. QED  BY <1>2, <1>5, <1>6, <2>2, <2>3
<1>8. (x - 1) + 1 \in S
  BY <1>6, <1>7
<1>9. QED  BY <1>5, <1>6, <1>8

-----------------------------------------------------------------------------
Pos == Nat \ {0}
LEMMA Remainders ==
    ASSUME NEW n \in Nat, NEW d \in Nat \ {0}
    PROVE  /\ n \div d \in Nat /\ n % d \in Nat /\ n % d < d
           /\ n = d * (n \div d) + (n % d)
OBVIOUS

LEMMA AtLeast == ASSUME NEW d \in Nat, NEW k \in Nat \ {0} PROVE d * k >= d
OBVIOUS

(* The remainder is unique.                                                *)
LEMMA UniqueRemainder ==
    ASSUME NEW d \in Nat \ {0}, NEW k \in Nat, NEW j \in Nat, NEW s \in Nat, NEW r \in Nat,
           s < d, r < d, d * k + s = d * j + r
    PROVE  k = j /\ s = r
<1>1. k <= j
  <2>1. SUFFICES ASSUME k > j PROVE FALSE
    OBVIOUS
  <2>2. k - j \in Nat \ {0} /\ d * (k - j) >= d
    BY <2>1, AtLeast
  <2>3. d * (k - j) = d * k - d * j
    OBVIOUS
  <2>4. QED  BY <2>2, <2>3
<1>2. j <= k
  <2>1. SUFFICES ASSUME j > k PROVE FALSE
    OBVIOUS
  <2>2. j - k \in Nat \ {0} /\ d * (j - k) >= d
    BY <2>1, AtLeast
  <2>3. d * (j - k) = d * j - d * k
    OBVIOUS
  <2>4. QED  BY <2>2, <2>3
<1>3. k = j
  BY <1>1, <1>2
<1>4. QED  BY <1>3

LEMMA SameRemainder ==
    ASSUME NEW d \in Nat \ {0}, NEW k \in Nat, NEW n \in Nat
    PROVE  (d * k + n) % d = n % d
<1> DEFINE m == d * k + n
<1>1. d * k \in Nat /\ m \in Nat
  OBVIOUS
<1>2. /\ m \div d \in Nat /\ m % d \in Nat /\ m % d < d /\ m = d * (m \div d) + (m % d)
  <2> HIDE DEF m
  <2> QED  BY <1>1, Remainders
<1>3. /\ n \div d \in Nat /\ n % d \in Nat /\ n % d < d /\ n = d * (n \div d) + (n % d)
  BY Remainders
<1>4. d * (k + (n \div d)) = d * k + d * (n \div d) /\ k + (n \div d) \in Nat
  BY <1>3
<1>5. d * (k + (n \div d)) + (n % d) = d * (m \div d) + (m % d)
  BY <1>2, <1>3, <1>4
<1> HIDE DEF m
<1>6. n % d = m % d
  BY <1>2, <1>3, <1>4, <1>5, UniqueRemainder
<1>7. QED  BY <1>6 DEF m

LEMMA Product ==
    ASSUME NEW d \in Nat \ {0}, NEW k \in Nat
    PROVE  (d * k) % d = 0 /\ (d * k) \div d = k
<1>1. d * k \in Nat
  OBVIOUS
<1> DEFINE m == d * k
<1>2. /\ m \div d \in Nat /\ m % d \in Nat /\ m % d < d /\ m = d * (m \div d) + (m % d)
  <2>1. m \in Nat
    BY <1>1
  <2> HIDE DEF m
  <2>2. QED  BY <2>1, Remainders
<1>3. \A s \in Nat : s = 0 => s < d /\ d * k + s = d * (m \div d) + (m % d)
  <2>1. m \in Nat /\ m = d * k
    BY <1>1
  <2> HIDE DEF m
  <2>2. QED  BY <1>2, <2>1
<1> HIDE DEF m
<1>4. ASSUME NEW s \in Nat, s = 0 PROVE k = m \div d /\ s = m % d
  <2>1. s < d /\ d * k + s = d * (m \div d) + (m % d)
    BY <1>3, <1>4
  <2> DEFINE j == m \div d
             r == m % d
  <2>2. j \in Nat /\ r \in Nat /\ r < d /\ d * k + s = d * j + r
    BY <1>2, <2>1
  <2> HIDE DEF j, r
  <2>3. k = j /\ s = r
    BY <2>1, <2>2, UniqueRemainder
  <2>4. QED  BY <2>3 DEF j, r
<1>5. QED  BY <1>4 DEF m

LEMMA DividesSum ==
    ASSUME NEW d \in Nat \ {0}, NEW a \in Nat, NEW b \in Nat, NEW k \in Nat, a % d = 0, b % d = 0
    PROVE  (a * k + b) % d = 0
<1>1. /\ a \div d \in Nat /\ a = d * (a \div d) /\ b \div d \in Nat /\ b = d * (b \div d)
  BY Multiple
<1> DEFINE x == a \div d
           y == b \div d
<1>2. a * k + b = d * (x * k + y)
  <2>1. x \in Nat /\ y \in Nat /\ a = d * x /\ b = d * y
    BY <1>1
  <2> HIDE DEF x, y
  <2>2. QED  BY <2>1
<1>3. x * k + y \in Nat
  <2>1. x \in Nat /\ y \in Nat
    BY <1>1
  <2> HIDE DEF x, y
  <2>2. QED  BY <2>1
<1> HIDE DEF x, y
<1>4. QED  BY <1>2, <1>3, Product

LEMMA DividesThrough ==
    ASSUME NEW d \in Nat \ {0}, NEW e \in Nat \ {0}, NEW n \in Nat, e % d = 0, n % e = 0
    PROVE  n % d = 0
<1>1. n \div e \in Nat /\ n = e * (n \div e)
  BY Multiple
<1>2. (e * (n \div e) + 0) % d = 0
  <2>1. 0 % d = 0
    OBVIOUS
  <2>2. QED  BY <1>1, <2>1, DividesSum
<1>3. QED  BY <1>1, <1>2

-----------------------------------------------------------------------------
(* GCM is defined for all positive numbers: it recurs on smaller second    *)
(* arguments.                                                              *)
GcmOf(g, b, a) == IF a < b THEN g[a][b] ELSE IF a % b = 0 THEN b ELSE g[a % b][b]
Gcms(n) == {g \in [1 .. n -> [Pos -> Pos]] : \A b \in 1 .. n, a \in Pos : g[b][a] = GcmOf(g, b, a)}

LEMMA GcmStays ==
    ASSUME NEW n \in Nat, NEW g \in [1 .. n -> [Pos -> Pos]], NEW b \in 1 .. n + 1, NEW a \in Pos
    PROVE  GcmOf(g, b, a) \in Pos
<1>1. b \in Pos
  BY DEF Pos
<1>2. CASE a < b
  BY <1>1, <1>2 DEF GcmOf, Pos
<1>3. CASE a >= b /\ a % b = 0
  BY <1>1, <1>3 DEF GcmOf, Pos
<1>4. CASE a >= b /\ a % b # 0
  <2>1. a % b \in Nat /\ a % b < b
    BY <1>1, Remainders DEF Pos
  <2>2. a % b \in 1 .. n
    BY <1>1, <1>4, <2>1 DEF Pos
  <2>3. g[a % b][b] \in Pos
    BY <1>1, <2>2
  <2>4. ~(a < b)
    BY <1>1, <1>4 DEF Pos
  <2>5. QED  BY <1>4, <2>3, <2>4 DEF GcmOf
<1>5. QED  BY <1>1, <1>2, <1>3, <1>4 DEF Pos

LEMMA GcmReads ==
    ASSUME NEW g, NEW h, NEW b \in Pos, NEW a \in Pos,
           \A c \in Pos : c < b => g[c] = h[c]
    PROVE  GcmOf(g, b, a) = GcmOf(h, b, a)
<1>1. CASE a < b
  BY <1>1 DEF GcmOf
<1>2. CASE ~(a < b) /\ a % b = 0
  BY <1>2 DEF GcmOf
<1>3. CASE ~(a < b) /\ a % b # 0
  <2>1. a % b \in Pos /\ a % b < b
    BY <1>3, Remainders DEF Pos
  <2>2. g[a % b] = h[a % b]
    BY <2>1
  <2>3. QED  BY <1>3, <2>2 DEF GcmOf
<1>4. QED  BY <1>1, <1>2, <1>3

LEMMA GcmsExist == \A n \in Nat : Gcms(n) # {}
<1> DEFINE S == {n \in Nat : Gcms(n) # {}}
<1>1. 0 \in S
  <2> DEFINE g == [b \in 1 .. 0 |-> [a \in Pos |-> 1]]
  <2>1. g \in Gcms(0)
    BY DEF Gcms
  <2>2. QED  BY <2>1
<1>2. ASSUME NEW n \in Nat, n \in S PROVE n + 1 \in S
  <2>1. PICK g \in Gcms(n) : TRUE
    BY <1>2
  <2>2. g \in [1 .. n -> [Pos -> Pos]] /\ \A b \in 1 .. n, a \in Pos : g[b][a] = GcmOf(g, b, a)
    BY DEF Gcms
  <2> DEFINE h == [b \in 1 .. n + 1 |-> IF b <= n THEN g[b] ELSE [a \in Pos |-> GcmOf(g, b, a)]]
  <2>3. \A b \in 1 .. n : h[b] = g[b]
    OBVIOUS
  <2>4. h[n + 1] = [a \in Pos |-> GcmOf(g, n + 1, a)]
    OBVIOUS
  <2>5. h \in [1 .. n + 1 -> [Pos -> Pos]]
    <3>1. \A a \in Pos : GcmOf(g, n + 1, a) \in Pos
      BY <2>2, GcmStays
    <3>2. h[n + 1] \in [Pos -> Pos]
      BY <2>4, <3>1
    <3>3. \A b \in 1 .. n + 1 : b <= n \/ b = n + 1
      OBVIOUS
    <3>4. \A b \in 1 .. n + 1 : h[b] \in [Pos -> Pos]
      BY <2>2, <2>3, <3>2, <3>3
    <3>5. QED  BY <3>4
  <2> HIDE DEF h
  <2>6. ASSUME NEW b \in 1 .. n + 1, NEW a \in Pos PROVE h[b][a] = GcmOf(h, b, a)
    <3>1. b \in Pos /\ \A c \in Pos : c < b => g[c] = h[c]
      BY <2>3 DEF Pos
    <3>2. GcmOf(g, b, a) = GcmOf(h, b, a)
      BY <3>1, GcmReads
    <3>3. CASE b \in 1 .. n
      BY <2>2, <2>3, <3>2, <3>3
    <3>4. CASE b = n + 1
      BY <2>4, <3>2, <3>4
    <3>5. QED  BY <3>3, <3>4
  <2>7. h \in Gcms(n + 1)
    BY <2>5, <2>6 DEF Gcms
  <2>8. QED  BY <2>7
<1>3. Nat \subseteq S
  <2> HIDE DEF S
  <2> QED  BY <1>1, <1>2, SetInduction
<1>4. QED  BY <1>3

LEMMA GcmsAgree ==
    \A b \in Nat : \A c \in 1 .. b, n \in Nat, m \in Nat : \A g \in Gcms(n), h \in Gcms(m) :
        c <= n /\ c <= m => g[c] = h[c]
<1> DEFINE S == {b \in Nat : \A c \in 1 .. b, n \in Nat, m \in Nat : \A g \in Gcms(n), h \in Gcms(m) :
                                 c <= n /\ c <= m => g[c] = h[c]}
<1>1. 0 \in S
  OBVIOUS
<1>2. ASSUME NEW b \in Nat, b \in S PROVE b + 1 \in S
  <2>1. SUFFICES ASSUME NEW c \in 1 .. b + 1, NEW n \in Nat, NEW m \in Nat, NEW g \in Gcms(n), NEW h \in Gcms(m),
                        c <= n, c <= m
                 PROVE  g[c] = h[c]
    OBVIOUS
  <2>2. c \in Pos /\ c \in 1 .. n /\ c \in 1 .. m
    BY <2>1 DEF Pos
  <2>3. \A x \in Pos : x < c => g[x] = h[x]
    BY <1>2, <2>1, <2>2 DEF Pos
  <2>4. ASSUME NEW a \in Pos PROVE g[c][a] = h[c][a]
    <3>1. g[c][a] = GcmOf(g, c, a) /\ h[c][a] = GcmOf(h, c, a)
      BY <2>2 DEF Gcms
    <3>2. GcmOf(g, c, a) = GcmOf(h, c, a)
      BY <2>2, <2>3, GcmReads
    <3>3. QED  BY <3>1, <3>2
  <2>5. g[c] \in [Pos -> Pos] /\ h[c] \in [Pos -> Pos]
    BY <2>2 DEF Gcms
  <2>6. QED  BY <2>4, <2>5
<1>3. Nat \subseteq S
  <2> HIDE DEF S
  <2> QED  BY <1>1, <1>2, SetInduction
<1>4. QED  BY <1>3

LEMMA GcmDefined ==
    GCM \in [Pos -> [Pos -> Pos]] /\ \A b \in Pos, a \in Pos : GCM[b][a] = GcmOf(GCM, b, a)
<1> DEFINE some(b) == CHOOSE g \in Gcms(b) : TRUE
           G == [b \in Pos |-> some(b)[b]]
<1>1. \A b \in Pos : some(b) \in Gcms(b)
  BY GcmsExist DEF Pos
<1> HIDE DEF some
<1>2. \A b \in Pos : G[b] \in [Pos -> Pos]
  BY <1>1 DEF Gcms, Pos
<1>3. \A b \in Pos, c \in Pos : c < b => some(b)[c] = G[c]
  <2>1. SUFFICES ASSUME NEW b \in Pos, NEW c \in Pos, c < b PROVE some(b)[c] = some(c)[c]
    OBVIOUS
  <2>2. some(b) \in Gcms(b) /\ some(c) \in Gcms(c) /\ b \in Nat /\ c \in Nat /\ c \in 1 .. c /\ c <= b /\ c <= c
    BY <1>1, <2>1 DEF Pos
  <2>3. QED  BY <2>2, GcmsAgree
<1>4. ASSUME NEW b \in Pos, NEW a \in Pos PROVE G[b][a] = GcmOf(G, b, a)
  <2>1. some(b)[b][a] = GcmOf(some(b), b, a)
    BY <1>1 DEF Gcms, Pos
  <2> HIDE DEF G
  <2>2. GcmOf(some(b), b, a) = GcmOf(G, b, a)
    BY <1>3, GcmReads
  <2>3. G[b] = some(b)[b]
    BY DEF G
  <2>4. QED  BY <2>1, <2>2, <2>3
<1>5. G = [b \in Pos |-> [a \in Pos |-> GcmOf(G, b, a)]]
  <2>1. \A b \in Pos : G[b] = [a \in Pos |-> GcmOf(G, b, a)]
    <3> HIDE DEF G
    <3> QED  BY <1>2, <1>4
  <2>2. G = [b \in Pos |-> G[b]]
    OBVIOUS
  <2> HIDE DEF G
  <2>3. QED  BY <2>1, <2>2
<1> HIDE DEF G
<1>6. GCM = CHOOSE g : g = [b \in Pos |-> [a \in Pos |-> GcmOf(g, b, a)]]
  BY DEF GCM, GcmOf, Pos
<1>7. GCM = [b \in Pos |-> [a \in Pos |-> GcmOf(GCM, b, a)]]
  BY <1>5, <1>6
<1>8. G \in [Pos -> [Pos -> Pos]]
  BY <1>2, <1>5
<1>9. \A b \in Pos : GCM[b] = G[b]
  <2> DEFINE S == {n \in Nat : \A b \in 1 .. n : GCM[b] = G[b]}
  <2>1. 0 \in S
    OBVIOUS
  <2>2. ASSUME NEW n \in Nat, n \in S PROVE n + 1 \in S
    <3>1. n + 1 \in Pos /\ \A c \in Pos : c < n + 1 => GCM[c] = G[c]
      BY <2>2 DEF Pos
    <3>2. \A a \in Pos : GcmOf(GCM, n + 1, a) = GcmOf(G, n + 1, a)
      BY <3>1, GcmReads
    <3>3. GCM[n + 1] = [a \in Pos |-> GcmOf(GCM, n + 1, a)] /\ G[n + 1] = [a \in Pos |-> GcmOf(G, n + 1, a)]
      BY <1>5, <1>7, <3>1
    <3>4. GCM[n + 1] = G[n + 1]
      BY <3>2, <3>3
    <3>5. QED  BY <2>2, <3>4
  <2>3. Nat \subseteq S
    <3> HIDE DEF S
    <3> QED  BY <2>1, <2>2, SetInduction
  <2>4. QED  BY <2>3 DEF Pos
<1>10. GCM = G
  <2>1. GCM = [b \in Pos |-> GCM[b]] /\ G = [b \in Pos |-> G[b]]
    BY <1>5, <1>7
  <2>2. QED  BY <1>9, <2>1
<1>11. QED  BY <1>4, <1>8, <1>10

(* What GCM returns divides both arguments; and it is the second, if this  *)
(* divides the first.                                                      *)
LEMMA GcmDivides ==
    ASSUME NEW b \in Pos, NEW a \in Pos
    PROVE  GCM[b][a] \in Pos /\ a % GCM[b][a] = 0 /\ b % GCM[b][a] = 0
<1> DEFINE Divides(x, y) == y % GCM[x][y] = 0 /\ x % GCM[x][y] = 0
           S == {n \in Nat : \A x \in 1 .. n, y \in Pos : Divides(x, y)}
<1>1. 0 \in S
  OBVIOUS
<1>2. ASSUME NEW n \in Nat, n \in S PROVE n + 1 \in S
  <2> DEFINE m == n + 1
  <2>1. SUFFICES ASSUME NEW y \in Pos PROVE Divides(m, y)
    BY <1>2
  <2>2. m \in Pos /\ GCM[m][y] = GcmOf(GCM, m, y) /\ GCM[m][y] \in Pos
    BY GcmDefined DEF Pos
  <2>3. \A x \in Pos : x < m => Divides(x, m)
    BY <1>2, <2>2 DEF Pos
  <2> HIDE DEF S
  <2>4. CASE y < m
    BY <2>2, <2>3, <2>4 DEF GcmOf
  <2>5. CASE ~(y < m) /\ y % m = 0
    <3>1. GCM[m][y] = m
      BY <2>2, <2>5 DEF GcmOf
    <3>2. m % m = 0
      BY <2>2 DEF Pos
    <3>3. QED  BY <2>5, <3>1, <3>2
  <2>6. CASE ~(y < m) /\ y % m # 0
    <3> DEFINE r == y % m
               g == GCM[m][y]
    <3>1. r \in Pos /\ r < m /\ y \div m \in Nat /\ y = m * (y \div m) + r
      BY <2>2, <2>6, Remainders DEF Pos
    <3>2. g = GCM[r][m] /\ g \in Pos
      BY <2>2, <2>6 DEF GcmOf
    <3> HIDE DEF r, g, m
    <3>3. m % g = 0 /\ r % g = 0
      BY <2>3, <3>1, <3>2
    <3> DEFINE q == y \div m
    <3>4. y % g = 0
      <4>1. g \in Nat \ {0} /\ m \in Nat /\ r \in Nat /\ q \in Nat /\ y = m * q + r
        BY <2>2, <3>1, <3>2 DEF Pos
      <4> HIDE DEF q
      <4>2. (m * q + r) % g = 0
        BY <3>3, <4>1, DividesSum
      <4>3. QED  BY <4>1, <4>2
    <3>5. QED  BY <3>3, <3>4 DEF g
  <2>7. QED  BY <2>4, <2>5, <2>6
<1>3. Nat \subseteq S
  <2> HIDE DEF S
  <2> QED  BY <1>1, <1>2, SetInduction
<1>4. b \in 1 .. b /\ b \in Nat
  BY DEF Pos
<1>5. Divides(b, a)
  BY <1>3, <1>4
<1>6. QED  BY <1>5, GcmDefined

LEMMA GcmOfMultiple ==
    ASSUME NEW b \in Pos, NEW a \in Pos, a % b = 0
    PROVE  GCM[b][a] = b
<1>1. ~(a < b)
  <2>1. a \div b \in Nat /\ a = b * (a \div b)
    BY Multiple DEF Pos
  <2>2. a \div b # 0
    BY <2>1 DEF Pos
  <2>3. QED  BY <2>1, <2>2, AtLeast DEF Pos
<1>2. QED  BY <1>1, GcmDefined DEF GcmOf

LEMMA LcmNumber ==
    ASSUME NEW a \in Pos, NEW b \in Pos
    PROVE  LcmOf(a, b) \in Nat
<1> DEFINE m == (a * b) % (UllMax + 1)
<1>1. GCM[b][a] \in Pos
  BY GcmDivides
<1>2. m \in Nat
  <2>1. a * b \in Nat /\ UllMax + 1 \in Nat \ {0}
    BY ConfigurationAssumption DEF Pos
  <2>2. QED  BY <2>1
<1> HIDE DEF m
<1>3. m \div GCM[b][a] \in Nat
  BY <1>1, <1>2, Remainders DEF Pos
<1>4. QED  BY <1>3 DEF LcmOf, m

LEMMA LcmMultiple ==
    ASSUME NEW a \in Pos, NEW b \in Pos, a * b <= UllMax
    PROVE  LcmOf(a, b) \in Pos /\ LcmOf(a, b) % a = 0 /\ LcmOf(a, b) % b = 0
<1> DEFINE g == GCM[b][a]
           x == a \div g
           y == b \div g
<1>1. g \in Pos /\ x \in Nat /\ a = g * x /\ y \in Nat /\ b = g * y
  <2>1. g \in Pos /\ a % g = 0 /\ b % g = 0
    BY GcmDivides
  <2> HIDE DEF g
  <2>2. QED  BY <2>1, Multiple DEF Pos
<1>2. LcmOf(a, b) = (a * b) \div g
  <2> DEFINE m == a * b
  <2>1. m \in Nat /\ UllMax \in Nat /\ m <= UllMax
    BY ConfigurationAssumption DEF Pos
  <2> HIDE DEF m, g
  <2>2. m % (UllMax + 1) = m
    BY <2>1
  <2>3. QED  BY <2>2 DEF LcmOf, m, g
<1> HIDE DEF g, x, y
<1>3. x # 0 /\ y # 0 /\ x * b \in Nat /\ a * y \in Nat
  BY <1>1 DEF Pos
<1>4. a * b = g * (x * b) /\ x * b = a * y
  BY <1>1 DEF Pos
<1>5. LcmOf(a, b) = x * b
  <2>1. (g * (x * b)) \div g = x * b
    BY <1>1, <1>3, Product DEF Pos
  <2>2. QED  BY <1>2, <1>4, <2>1
<1>6. x * b = b * x /\ b * x >= b
  BY <1>1, <1>3, AtLeast DEF Pos
<1>7. (b * x) % b = 0 /\ (a * y) % a = 0
  BY <1>1, Product DEF Pos
<1>8. QED  BY <1>3, <1>4, <1>5, <1>6, <1>7 DEF Pos

-----------------------------------------------------------------------------
(* The plan of a configuration.                                            *)
Plan == [outcome : {"source", "runs", "refused", "crashed"}, ticktime : Nat, period : Nat, exact : BOOLEAN]

LEMMA TickCounted ==
    ASSUME NEW t \in Plan, NEW time \in Nat
    PROVE  LET u == update_ticktime(t, time)
           IN  /\ u \in Plan
               /\ u.outcome = "runs" /\ t.outcome = "runs" =>
                     /\ time \in Pos /\ t.period \in Pos /\ u.ticktime \in Pos /\ time % u.ticktime = 0
                     /\ u.exact => /\ t.exact /\ u.period \in Pos
                                   /\ u.period % (time \div u.ticktime) = 0 /\ u.period % t.period = 0
                     /\ t.ticktime = 0 => u.ticktime = time
                     /\ t.ticktime # 0 => /\ t.ticktime % u.ticktime = 0
                                          /\ time % t.ticktime = 0 => u.ticktime = t.ticktime
<1>1. t.ticktime \in Nat /\ t.period \in Nat /\ t.exact \in BOOLEAN /\ t.outcome \in {"source", "runs", "refused", "crashed"}
  BY DEF Plan
<1>2. CASE time = 0 \/ t.period = 0
  <2>1. update_ticktime(t, time) = [t EXCEPT !.outcome = "crashed"]
    BY <1>2 DEF update_ticktime
  <2>2. QED  BY <2>1 DEF Plan
<1>3. CASE time # 0 /\ t.period # 0
  <2> DEFINE tt == IF t.ticktime = 0 THEN time ELSE GCM[t.ticktime][time]
             n == time \div tt
             p == LcmOf(t.period, n)
             e == (t.exact /\ t.period * n <= UllMax)
             u == [outcome |-> t.outcome, ticktime |-> tt, period |-> p, exact |-> e]
  <2>1. time \in Pos /\ t.period \in Pos
    BY <1>1, <1>3 DEF Pos
  <2>2. /\ tt \in Pos /\ time % tt = 0
        /\ t.ticktime = 0 => tt = time
        /\ t.ticktime # 0 => /\ t.ticktime % tt = 0
                             /\ time % t.ticktime = 0 => tt = t.ticktime
    <3>1. CASE t.ticktime = 0
      <4>1. time % time = 0
        BY <2>1 DEF Pos
      <4>2. QED  BY <2>1, <3>1, <4>1
    <3>2. CASE t.ticktime # 0
      <4>1. t.ticktime \in Pos
        BY <1>1, <3>2 DEF Pos
      <4>2. QED  BY <2>1, <3>2, <4>1, GcmDivides, GcmOfMultiple
    <3>3. QED  BY <3>1, <3>2
  <2>3. update_ticktime(t, time) = IF p >= UlMax THEN [t EXCEPT !.outcome = "refused"]
                                   ELSE u
    BY <1>3 DEF update_ticktime
  <2> HIDE DEF tt
  <2>4. n \in Pos
    <3>1. n \in Nat /\ time = tt * n
      BY <2>1, <2>2, Multiple DEF Pos
    <3>2. n # 0
      <4> HIDE DEF n
      <4>1. QED  BY <2>1, <2>2, <3>1 DEF Pos
    <3>3. QED  BY <3>1, <3>2 DEF Pos
  <2>5. p \in Nat /\ (e => t.exact /\ p \in Pos /\ p % t.period = 0 /\ p % n = 0)
    <3> HIDE DEF n
    <3>1. p \in Nat
      BY <2>1, <2>4, LcmNumber
    <3>2. ASSUME e PROVE t.exact /\ p \in Pos /\ p % t.period = 0 /\ p % n = 0
      BY <2>1, <2>4, <3>2, LcmMultiple
    <3>3. QED  BY <3>1, <3>2
  <2>6. n = time \div tt
    OBVIOUS
  <2>7. e \in BOOLEAN
    OBVIOUS
  <2> HIDE DEF n, p, e
  <2>8. CASE p >= UlMax
    <3>1. update_ticktime(t, time) = [t EXCEPT !.outcome = "refused"]
      BY <2>3, <2>8
    <3>2. QED  BY <3>1 DEF Plan
  <2>9. CASE ~(p >= UlMax)
    <3>1. update_ticktime(t, time) = u
      BY <2>3, <2>9
    <3>2. u \in Plan
      BY <1>1, <2>2, <2>5, <2>7 DEF Plan, Pos
    <3>3. u.ticktime = tt /\ u.period = p /\ u.exact = e
      OBVIOUS
    <3> HIDE DEF u
    <3>4. QED  BY <2>1, <2>2, <2>5, <2>6, <3>1, <3>2, <3>3
  <2>10. QED  BY <2>8, <2>9
<1>4. QED  BY <1>1, <1>2, <1>3

LEMMA TimesAreNumbers ==
    ASSUME NEW task \in Task, task.interval # <<>>
    PROVE  TimeOf(task) \in Nat
<1>1. task.interval[1] \in Duration
  BY DEF Task
<1>2. \A d \in Duration : d.s \in Nat /\ d.ms \in Nat
  BY DEF Duration
<1>3. Nanos.s \in Nat /\ Nanos.ms \in Nat
  BY ConfigurationAssumption, <1>2
<1> DEFINE d == task.interval[1]
<1>4. d.s \in Nat /\ d.ms \in Nat /\ TimeOf(task) = (d.s * Nanos.s + d.ms * Nanos.ms) \div 2
  BY <1>1, <1>2 DEF TimeOf, calculate_time
<1> HIDE DEF d
<1>5. d.s * Nanos.s \in Nat /\ d.ms * Nanos.ms \in Nat
  BY <1>3, <1>4
<1> DEFINE m == d.s * Nanos.s + d.ms * Nanos.ms
<1>6. m \in Nat
  BY <1>5
<1> HIDE DEF m
<1>7. m \div 2 \in Nat
  BY <1>6, Remainders
<1>8. QED  BY <1>4, <1>7 DEF m

LEMMA TaskPlanned ==
    ASSUME NEW t \in Plan, NEW task \in Task
    PROVE  task_initialization(t, task) \in Plan
<1>1. [t EXCEPT !.outcome = "refused"] \in Plan
  BY DEF Plan
<1>2. task.interval # <<>> => update_ticktime(t, TimeOf(task)) \in Plan
  BY TimesAreNumbers, TickCounted
<1>3. QED  BY <1>1, <1>2 DEF task_initialization

(* A list of steps can be done one after the other.                        *)
Steps(n, D, d, step) == n \in Nat /\ d \in D /\ step \in [1 .. n -> [D -> D]]
Follows(n, D, d, step) ==
    \E f \in [0 .. n -> D] : f = [k \in 0 .. n |-> IF k = 0 THEN d ELSE step[k][f[k - 1]]]
LEMMA StepsDone ==
    ASSUME NEW n, NEW D, NEW d, NEW step, Steps(n, D, d, step)
    PROVE  Follows(n, D, d, step)
<1> USE DEF Steps
<1> DEFINE Done(f, m) == f \in [0 .. m -> D] /\ f[0] = d /\ \A k \in 1 .. m : f[k] = step[k][f[k - 1]]
           S == {m \in Nat : m <= n => \E f : Done(f, m)}
<1>1. 0 \in S
  <2>1. Done([k \in 0 .. 0 |-> d], 0)
    OBVIOUS
  <2>2. QED  BY <2>1
<1>2. ASSUME NEW m \in Nat, m \in S PROVE m + 1 \in S
  <2>1. SUFFICES ASSUME m + 1 <= n PROVE \E f : Done(f, m + 1)
    OBVIOUS
  <2>2. PICK f : Done(f, m)
    BY <1>2, <2>1
  <2> DEFINE g == [k \in 0 .. m + 1 |-> IF k <= m THEN f[k] ELSE step[m + 1][f[m]]]
  <2>3. step[m + 1] \in [D -> D] /\ f[m] \in D
    BY <2>1, <2>2
  <2>4. \A k \in 0 .. m : g[k] = f[k]
    OBVIOUS
  <2>5. g[m + 1] = step[m + 1][f[m]] /\ g[m + 1] \in D
    BY <2>3
  <2>6. g \in [0 .. m + 1 -> D]
    BY <2>2, <2>3
  <2> HIDE DEF g
  <2>7. ASSUME NEW k \in 1 .. m + 1 PROVE g[k] = step[k][g[k - 1]]
    <3>1. CASE k \in 1 .. m
      <4>1. k \in 0 .. m /\ k - 1 \in 0 .. m
        BY <3>1
      <4>2. QED  BY <2>2, <2>4, <3>1, <4>1
    <3>2. CASE k = m + 1
      BY <2>4, <2>5, <3>2
    <3>3. QED  BY <3>1, <3>2
  <2>8. Done(g, m + 1)
    BY <2>2, <2>4, <2>6, <2>7
  <2>9. QED  BY <2>8
<1>3. Nat \subseteq S
  <2> HIDE DEF S
  <2> QED  BY <1>1, <1>2, SetInduction
<1>4. PICK f : Done(f, n)
  BY <1>3
<1>5. f = [k \in 0 .. n |-> IF k = 0 THEN d ELSE step[k][f[k - 1]]]
  <2>1. \A k \in 0 .. n : k # 0 => k \in 1 .. n
    OBVIOUS
  <2>2. QED  BY <1>4, <2>1
<1>6. QED  BY <1>4, <1>5 DEF Follows

(* The tasks of a resource are planned one after the other.                *)
LEMMA TasksPlanned ==
    ASSUME NEW before \in Plan, NEW tasks \in Seq(Task)
    PROVE  \E t \in [0 .. Len(tasks) -> Plan] :
              /\ t[0] = before /\ \A k \in 1 .. Len(tasks) : t[k] = task_initialization(t[k - 1], tasks[k])
              /\ task_configurations(before, tasks) = t[Len(tasks)]
<1> DEFINE n == Len(tasks)
           step == [k \in 1 .. n |-> [p \in Plan |-> task_initialization(p, tasks[k])]]
           Is(t) == t = [k \in 0 .. n |-> IF k = 0 THEN before ELSE task_initialization(t[k - 1], tasks[k])]
           t0 == CHOOSE t : Is(t)
<1>1. n \in Nat /\ \A k \in 1 .. n : tasks[k] \in Task
  OBVIOUS
<1>2. step \in [1 .. n -> [Plan -> Plan]]
  BY <1>1, TaskPlanned
<1>3. PICK f \in [0 .. n -> Plan] : f = [k \in 0 .. n |-> IF k = 0 THEN before ELSE step[k][f[k - 1]]]
  <2> HIDE DEF step, n, Is, t0
  <2>1. Steps(n, Plan, before, step)
    BY <1>1, <1>2 DEF Steps
  <2>2. Follows(n, Plan, before, step)
    BY <2>1, StepsDone
  <2>3. QED  BY <2>2 DEF Follows
<1>4. \A k \in 0 .. n : k # 0 => k \in 1 .. n /\ f[k - 1] \in Plan
  <2> HIDE DEF step, n
  <2>1. \A k \in 0 .. n : k # 0 => k \in 1 .. n /\ k - 1 \in 0 .. n
    BY <1>1
  <2>2. QED  BY <1>3, <2>1
<1>5. Is(f)
  <2>1. \A k \in 0 .. n : k # 0 => step[k][f[k - 1]] = task_initialization(f[k - 1], tasks[k])
    BY <1>4
  <2> HIDE DEF step
  <2>2. QED  BY <1>3, <2>1
<1>6. Is(t0)
  <2> HIDE DEF Is
  <2> QED  BY <1>5
<1>7. task_configurations(before, tasks) = t0[n]
  BY DEF task_configurations
<1> HIDE DEF t0, step
<1>8. t0[0] = before /\ \A k \in 1 .. n : t0[k] = task_initialization(t0[k - 1], tasks[k])
  BY <1>1, <1>6
<1>9. \A k \in 0 .. n : t0[k] \in Plan
  <2> DEFINE S == {k \in Nat : k <= n => t0[k] \in Plan}
  <2>1. 0 \in S
    BY <1>8
  <2>2. ASSUME NEW k \in Nat, k \in S PROVE k + 1 \in S
    <3>1. SUFFICES ASSUME k + 1 <= n PROVE t0[k + 1] \in Plan
      OBVIOUS
    <3>2. t0[k] \in Plan /\ k + 1 \in 1 .. n /\ (k + 1) - 1 = k
      BY <1>1, <2>2, <3>1
    <3>3. QED  BY <1>1, <1>8, <3>2, TaskPlanned
  <2>3. Nat \subseteq S
    <3> HIDE DEF S
    <3> QED  BY <2>1, <2>2, SetInduction
  <2>4. QED  BY <1>1, <2>3
<1>10. t0 \in [0 .. n -> Plan]
  BY <1>6, <1>9
<1>11. QED  BY <1>7, <1>8, <1>10

(* What the plan promises of the tasks up to task k of resource r.         *)
Visited(c, r, k) == {z \in Timed(c) : z[1] < r \/ (z[1] = r /\ z[2] <= k)}
Promises(c, seen, t) ==
    /\ t \in Plan
    /\ t.outcome = "runs" =>
          /\ t.ticktime = 0 => seen = {}
          /\ \A z \in seen : TimeAt(c, z) \in Pos /\ TimeAt(c, z) % t.ticktime = 0
          /\ FirstDivides(c) =>
                /\ t.ticktime # 0 => \A z \in Timed(c) : TimeAt(c, z) % t.ticktime = 0
                /\ t.exact => \A z \in seen : t.period % (TimeAt(c, z) \div t.ticktime) = 0

LEMMA ElementOf ==
    ASSUME NEW D, NEW s \in Seq(D), NEW k \in DOMAIN s
    PROVE  s[k] \in D /\ k \in Nat /\ k \in 1 .. Len(s) /\ Len(s) \in Nat /\ DOMAIN s = 1 .. Len(s)
OBVIOUS

Resource == [tasks : Seq(Task), programs : Seq(Program)]
LEMMA DeclaredResource ==
    ASSUME NEW c, Declared(c), NEW r \in DOMAIN c.resources
    PROVE  /\ Len(c.resources) \in Nat /\ DOMAIN c.resources = 1 .. Len(c.resources)
           /\ r \in Nat /\ c.resources[r].tasks \in Seq(Task) /\ c.resources[r].programs \in Seq(Program)
<1> DEFINE list == c.resources
<1>1. list \in Seq(Resource) /\ r \in DOMAIN list
  BY DEF Declared, Resource
<1> HIDE DEF list
<1>2. list[r] \in Resource /\ r \in Nat /\ Len(list) \in Nat /\ DOMAIN list = 1 .. Len(list)
  BY <1>1, ElementOf
<1>3. list[r].tasks \in Seq(Task) /\ list[r].programs \in Seq(Program)
  BY <1>2 DEF Resource
<1>4. QED  BY <1>2, <1>3 DEF list

LEMMA TimedTasks ==
    ASSUME NEW c, Declared(c), NEW z \in Timed(c)
    PROVE  /\ z = <<z[1], z[2]>> /\ z[1] \in DOMAIN c.resources /\ z[2] \in DOMAIN c.resources[z[1]].tasks
           /\ z[1] \in Nat /\ z[2] \in Nat /\ TimeAt(c, z) \in Nat
<1>1. PICK r \in DOMAIN c.resources : \E k \in DOMAIN c.resources[r].tasks :
          z = <<r, k>> /\ c.resources[r].tasks[k].interval # <<>>
  BY DEF Timed
<1>2. PICK k \in DOMAIN c.resources[r].tasks : z = <<r, k>> /\ c.resources[r].tasks[k].interval # <<>>
  BY <1>1
<1>4. c.resources[r].tasks \in Seq(Task) /\ r \in Nat
  BY DeclaredResource
<1>5. c.resources[r].tasks[k] \in Task /\ k \in Nat
  BY <1>4
<1>6. TimeAt(c, z) \in Nat
  BY <1>2, <1>5, TimesAreNumbers DEF TimeAt
<1>7. QED  BY <1>1, <1>2, <1>4, <1>5, <1>6

LEMMA NothingPromised ==
    ASSUME NEW c, NEW seen, NEW t \in Plan, t.outcome # "runs"
    PROVE  Promises(c, seen, t)
BY DEF Promises

LEMMA TaskPromised ==
    ASSUME NEW c, Declared(c), NEW r \in DOMAIN c.resources, NEW k \in Nat, k + 1 \in DOMAIN c.resources[r].tasks,
           NEW t, Promises(c, Visited(c, r, k), t)
    PROVE  Promises(c, Visited(c, r, k + 1), task_initialization(t, c.resources[r].tasks[k + 1]))
<1> DEFINE w == <<r, k + 1>>
           task == c.resources[r].tasks[k + 1]
           u == task_initialization(t, task)
           seen == Visited(c, r, k)
           visited == Visited(c, r, k + 1)
<1>1. task \in Task /\ r \in Nat /\ k + 1 \in Nat
  <2>1. c.resources[r].tasks \in Seq(Task) /\ r \in Nat
    BY DeclaredResource
  <2>2. QED  BY <2>1, ElementOf
<1>2. t \in Plan /\ u \in Plan
  BY <1>1, TaskPlanned DEF Promises
<1>3. \A z \in Timed(c) : z[1] \in Nat /\ z[2] \in Nat /\ z = <<z[1], z[2]>> /\ TimeAt(c, z) \in Nat
  BY TimedTasks
<1>4. w \in Timed(c) <=> task.interval # <<>>
  BY DEF Timed
<1>5. visited = IF w \in Timed(c) THEN seen \cup {w} ELSE seen
  <2>1. \A z \in Timed(c) : z \in visited <=> z \in seen \/ z = w
    <3>1. SUFFICES ASSUME NEW z \in Timed(c) PROVE z \in visited <=> z \in seen \/ z = w
      OBVIOUS
    <3>2. z = w <=> z[1] = r /\ z[2] = k + 1
      BY <1>3
    <3>3. z[1] \in Nat /\ z[2] \in Nat
      BY <1>3
    <3> HIDE DEF w
    <3>4. QED  BY <1>1, <3>2, <3>3 DEF Visited
  <2>2. visited \subseteq Timed(c) /\ seen \subseteq Timed(c)
    BY DEF Visited
  <2> HIDE DEF w, visited, seen
  <2>3. QED  BY <2>1, <2>2
<1>6. CASE t.outcome # "runs" \/ task.interval = <<>>
  <2>1. u = t
    BY <1>6 DEF task_initialization
  <2>2. t.outcome # "runs" \/ visited = seen
    BY <1>4, <1>5, <1>6
  <2> HIDE DEF u, visited, seen
  <2>3. Promises(c, seen, t)
    BY DEF seen
  <2>4. Promises(c, visited, t)
    BY <2>2, <2>3 DEF Promises
  <2>5. QED  BY <2>1, <2>4 DEF u, visited
<1>7. CASE t.outcome = "runs" /\ task.interval # <<>>
  <2> DEFINE time == TimeOf(task)
  <2>1. time \in Nat /\ w \in Timed(c) /\ TimeAt(c, w) = time
    BY <1>1, <1>4, <1>7, TimesAreNumbers DEF TimeAt
  <2>2. CASE time > UllMax
    <3>1. u = [t EXCEPT !.outcome = "refused"]
      BY <1>7, <2>2 DEF task_initialization
    <3>2. u.outcome = "refused"
      BY <1>2, <3>1 DEF Plan
    <3>3. QED  BY <1>2, <3>2 DEF Promises
  <2>3. CASE ~(time > UllMax)
    <3>1. u = update_ticktime(t, time)
      BY <1>7, <2>3 DEF task_initialization
    <3>2. SUFFICES ASSUME u.outcome = "runs" PROVE Promises(c, visited, u)
      BY <1>2, NothingPromised
    <3>3. /\ time \in Pos /\ t.period \in Pos /\ u.ticktime \in Pos /\ time % u.ticktime = 0
          /\ u.exact => /\ t.exact /\ u.period \in Pos
                        /\ u.period % (time \div u.ticktime) = 0 /\ u.period % t.period = 0
          /\ t.ticktime = 0 => u.ticktime = time
          /\ t.ticktime # 0 => /\ t.ticktime % u.ticktime = 0
                               /\ time % t.ticktime = 0 => u.ticktime = t.ticktime
      <4> HIDE DEF u, time
      <4> QED  BY <1>2, <1>7, <2>1, <3>1, <3>2, TickCounted, SMTT(30)
    <3>4. visited = seen \cup {w}
      BY <1>5, <2>1
    <3>5. t.ticktime \in Nat
      BY <1>2 DEF Plan
    <3> DEFINE T == t.ticktime
               V == u.ticktime
    <3>6. /\ T = 0 => seen = {}
          /\ \A z \in seen : TimeAt(c, z) \in Pos /\ TimeAt(c, z) % T = 0
          /\ FirstDivides(c) =>
                /\ T # 0 => \A z \in Timed(c) : TimeAt(c, z) % T = 0
                /\ t.exact => \A z \in seen : t.period % (TimeAt(c, z) \div T) = 0
      BY <1>7 DEF Promises
    <3> HIDE DEF u, seen, visited
    <3>7. \A z \in visited : TimeAt(c, z) \in Pos /\ TimeAt(c, z) % V = 0
      <4>1. TimeAt(c, w) \in Pos /\ TimeAt(c, w) % V = 0
        BY <2>1, <3>3
      <4>2. ASSUME NEW z \in seen PROVE TimeAt(c, z) \in Pos /\ TimeAt(c, z) % V = 0
        <5>1. T \in Pos /\ V \in Pos /\ T % V = 0 /\ TimeAt(c, z) \in Pos /\ TimeAt(c, z) % T = 0
          BY <3>3, <3>5, <3>6, <4>2 DEF Pos
        <5> HIDE DEF T, V
        <5>2. QED  BY <5>1, DividesThrough DEF Pos
      <4> HIDE DEF T, V, w
      <4>3. QED  BY <3>4, <4>1, <4>2
    <3>8. ASSUME FirstDivides(c)
          PROVE  /\ \A z \in Timed(c) : TimeAt(c, z) % V = 0
                 /\ u.exact => \A z \in visited : u.period % (TimeAt(c, z) \div V) = 0
      <4>1. CASE T = 0
        <5>1. V = time /\ seen = {} /\ visited = {w}
          BY <3>3, <3>4, <3>6, <4>1
        <5>2. \A x \in Timed(c) : ~Earlier(x, w)
          <6>1. SUFFICES ASSUME NEW x \in Timed(c), Earlier(x, w) PROVE FALSE
            OBVIOUS
          <6>2. x[1] \in Nat /\ x[2] \in Nat /\ w[1] = r /\ w[2] = k + 1
            BY <1>3
          <6>3. x[1] < r \/ (x[1] = r /\ x[2] < k + 1)
            BY <6>1, <6>2 DEF Earlier
          <6>4. x \in seen
            BY <1>1, <6>2, <6>3 DEF seen, Visited
          <6>5. QED  BY <5>1, <6>4
        <5>3. \A z \in Timed(c) : TimeAt(c, z) % TimeAt(c, w) = 0
          BY <2>1, <3>8, <5>2 DEF FirstDivides
        <5>4. QED  BY <2>1, <3>3, <5>1, <5>3
      <4>2. CASE T # 0
        <5>1. V = T
          BY <2>1, <3>3, <3>6, <3>8, <4>2
        <5>2. ASSUME u.exact, NEW z \in seen PROVE u.period % (TimeAt(c, z) \div T) = 0
          <6> DEFINE n == TimeAt(c, z) \div T
          <6>1. t.period % n = 0 /\ u.period % t.period = 0 /\ t.period \in Pos /\ u.period \in Pos
            BY <3>3, <3>6, <3>8, <5>2
          <6>2. n \in Nat /\ TimeAt(c, z) = T * n /\ TimeAt(c, z) \in Pos /\ T \in Pos
            <7>1. T \in Pos /\ TimeAt(c, z) \in Pos /\ TimeAt(c, z) % T = 0
              BY <3>5, <3>6, <4>2, <5>2 DEF Pos
            <7> HIDE DEF T
            <7>2. QED  BY <7>1, Multiple DEF Pos
          <6> HIDE DEF n, T
          <6>3. n \in Pos
            BY <6>2 DEF Pos
          <6>4. u.period % n = 0
            BY <3>5, <6>1, <6>3, DividesThrough DEF Pos
          <6>5. QED  BY <6>4 DEF n
        <5>3. u.exact => u.period % (TimeAt(c, w) \div V) = 0
          BY <2>1, <3>3
        <5>4. \A z \in Timed(c) : TimeAt(c, z) % V = 0
          BY <3>6, <3>8, <4>2, <5>1
        <5> HIDE DEF T, V, w
        <5>5. QED  BY <3>4, <5>1, <5>2, <5>3, <5>4
      <4>3. QED  BY <4>1, <4>2
    <3>9. V # 0
      BY <3>3 DEF Pos
    <3>10. u \in Plan
      BY <1>2
    <3>11. QED  BY <3>7, <3>8, <3>9, <3>10 DEF Promises
  <2>4. QED  BY <2>2, <2>3
<1>8. QED  BY <1>6, <1>7

LEMMA ResourcePromised ==
    ASSUME NEW c, Declared(c), NEW r \in DOMAIN c.resources, NEW t, Promises(c, Visited(c, r, 0), t)
    PROVE  Promises(c, Visited(c, r + 1, 0), task_configurations(t, c.resources[r].tasks))
<1> DEFINE tasks == c.resources[r].tasks
           n == Len(tasks)
<1>1. tasks \in Seq(Task) /\ r \in Nat
  BY DeclaredResource
<1>2. n \in Nat /\ DOMAIN tasks = 1 .. n
  BY <1>1
<1>3. t \in Plan
  BY DEF Promises
<1>4. PICK f \in [0 .. n -> Plan] :
         /\ f[0] = t /\ \A k \in 1 .. n : f[k] = task_initialization(f[k - 1], tasks[k])
         /\ task_configurations(t, tasks) = f[n]
  BY <1>1, <1>3, TasksPlanned
<1> DEFINE S == {k \in Nat : k <= n => Promises(c, Visited(c, r, k), f[k])}
<1>5. 0 \in S
  BY <1>4
<1>6. ASSUME NEW k \in Nat, k \in S PROVE k + 1 \in S
  <2>1. SUFFICES ASSUME k + 1 <= n PROVE Promises(c, Visited(c, r, k + 1), f[k + 1])
    OBVIOUS
  <2>2. Promises(c, Visited(c, r, k), f[k]) /\ k + 1 \in DOMAIN tasks
    BY <1>2, <1>6, <2>1
  <2>3. f[k + 1] = task_initialization(f[k], tasks[k + 1])
    BY <1>2, <1>4, <2>1
  <2>4. QED  BY <2>2, <2>3, TaskPromised
<1>7. Nat \subseteq S
  <2> HIDE DEF S
  <2> QED  BY <1>5, <1>6, SetInduction
<1>8. Promises(c, Visited(c, r, n), f[n])
  BY <1>2, <1>7
<1>9. Visited(c, r, n) = Visited(c, r + 1, 0)
  <2>1. \A z \in Timed(c) : z[1] \in Nat /\ z[2] \in Nat /\ z[2] \in DOMAIN c.resources[z[1]].tasks
    BY TimedTasks
  <2>2. \A z \in Timed(c) : z[1] \in Nat /\ z[2] \in Nat /\ z[2] > 0 /\ (z[1] = r => z[2] <= n)
    <3>1. SUFFICES ASSUME NEW z \in Timed(c)
                   PROVE  z[1] \in Nat /\ z[2] \in Nat /\ z[2] > 0 /\ (z[1] = r => z[2] <= n)
      OBVIOUS
    <3>2. z[1] \in DOMAIN c.resources /\ z[2] \in DOMAIN c.resources[z[1]].tasks
      BY TimedTasks
    <3>3. c.resources[z[1]].tasks \in Seq(Task)
      BY <3>2, DeclaredResource
    <3>5. z[2] \in 1 .. Len(c.resources[z[1]].tasks)
      BY <3>2, <3>3, ElementOf
    <3>6. QED  BY <1>2, <2>1, <3>5
  <2> HIDE DEF n, tasks
  <2>3. QED  BY <1>1, <1>2, <2>2 DEF Visited
<1>10. QED  BY <1>4, <1>8, <1>9

LEMMA ResourcesPromised ==
    ASSUME NEW c, Declared(c)
    PROVE  Promises(c, Timed(c), resources_declared(c))
<1> DEFINE n == Len(c.resources)
           task_lists == [r \in 1 .. n |-> c.resources[r].tasks]
           step == [r \in 1 .. n |-> [p \in Plan |-> task_configurations(p, c.resources[r].tasks)]]
           Is(t) == t = [r \in 0 .. n |-> IF r = 0 THEN Unscheduled
                                          ELSE task_configurations(t[r - 1], c.resources[r].tasks)]
           t0 == CHOOSE t : Is(t)
<1>1. n \in Nat /\ DOMAIN c.resources = 1 .. n /\ \A r \in 1 .. n : c.resources[r].tasks \in Seq(Task)
  <2>1. c.resources \in Seq(Resource) /\ 1 \in DOMAIN c.resources
    BY DEF Declared, Resource
  <2>2. n \in Nat /\ DOMAIN c.resources = 1 .. n
    BY <2>1
  <2>3. QED  BY <2>2, DeclaredResource
<1>2. Unscheduled \in Plan
  BY DEF Unscheduled, Plan, Pos
<1>3. ASSUME NEW p \in Plan, NEW r \in 1 .. n PROVE task_configurations(p, c.resources[r].tasks) \in Plan
  <2> DEFINE tasks == c.resources[r].tasks
  <2>1. tasks \in Seq(Task)
    BY <1>1
  <2> HIDE DEF tasks
  <2>2. \E f \in [0 .. Len(tasks) -> Plan] : task_configurations(p, tasks) = f[Len(tasks)]
    BY <2>1, TasksPlanned
  <2>3. Len(tasks) \in 0 .. Len(tasks)
    BY <2>1
  <2>4. task_configurations(p, tasks) \in Plan
    BY <2>2, <2>3
  <2>5. QED  BY <2>4 DEF tasks
<1>4. PICK f \in [0 .. n -> Plan] : f = [r \in 0 .. n |-> IF r = 0 THEN Unscheduled ELSE step[r][f[r - 1]]]
  <2>1. step \in [1 .. n -> [Plan -> Plan]]
    BY <1>3
  <2> HIDE DEF step, n, Is, t0
  <2>2. Steps(n, Plan, Unscheduled, step)
    BY <1>1, <1>2, <2>1 DEF Steps
  <2>3. Follows(n, Plan, Unscheduled, step)
    BY <2>2, StepsDone
  <2>4. QED  BY <2>3 DEF Follows
<1>5. Is(f)
  <2>1. \A r \in 0 .. n : r # 0 => r \in 1 .. n /\ r - 1 \in 0 .. n
    BY <1>1
  <2>2. \A r \in 0 .. n : r # 0 => f[r - 1] \in Plan
    <3> HIDE DEF step, n
    <3> QED  BY <1>4, <2>1
  <2>3. \A r \in 0 .. n : r # 0 => step[r][f[r - 1]] = task_configurations(f[r - 1], c.resources[r].tasks)
    BY <2>1, <2>2
  <2> HIDE DEF step
  <2>4. QED  BY <1>4, <2>3
<1>6. Is(t0)
  <2> HIDE DEF Is
  <2> QED  BY <1>5
<1>7. resources_declared(c) = t0[n]
  BY DEF resources_declared
<1> HIDE DEF t0, step
<1>8. t0[0] = Unscheduled /\ \A r \in 1 .. n : t0[r] = task_configurations(t0[r - 1], c.resources[r].tasks)
  <2>1. 0 \in 0 .. n /\ \A r \in 1 .. n : r \in 0 .. n /\ r # 0
    BY <1>1
  <2> HIDE DEF n
  <2>2. QED  BY <1>6, <2>1
<1> DEFINE S == {r \in Nat : r <= n => Promises(c, Visited(c, r + 1, 0), t0[r])}
<1>9. Visited(c, 1, 0) = {} /\ Visited(c, n + 1, 0) = Timed(c)
  <2>1. ASSUME NEW z \in Timed(c) PROVE z[1] \in 1 .. n
    <3>1. z[1] \in DOMAIN c.resources
      BY <2>1, TimedTasks
    <3>2. QED  BY <1>1, <3>1
  <2>2. ASSUME NEW z \in Timed(c) PROVE z[2] \in Nat /\ z[2] > 0
    <3>1. z[1] \in 1 .. n /\ z[2] \in DOMAIN c.resources[z[1]].tasks
      BY <2>1, TimedTasks
    <3> DEFINE tasks == c.resources[z[1]].tasks
    <3>2. tasks \in Seq(Task) /\ z[2] \in DOMAIN tasks
      BY <1>1, <3>1
    <3> HIDE DEF tasks
    <3>3. QED  BY <3>2
  <2> HIDE DEF n
  <2>3. QED  BY <1>1, <2>1, <2>2 DEF Visited
<1>10. 0 \in S
  BY <1>2, <1>8, <1>9 DEF Promises, Unscheduled
<1>11. ASSUME NEW r \in Nat, r \in S PROVE r + 1 \in S
  <2>1. SUFFICES ASSUME r + 1 <= n PROVE Promises(c, Visited(c, (r + 1) + 1, 0), t0[r + 1])
    OBVIOUS
  <2>2. Promises(c, Visited(c, r + 1, 0), t0[r]) /\ r + 1 \in DOMAIN c.resources
    BY <1>1, <1>11, <2>1
  <2>3. t0[r + 1] = task_configurations(t0[r], c.resources[r + 1].tasks)
    BY <1>1, <1>8, <2>1
  <2>4. QED  BY <2>2, <2>3, ResourcePromised
<1>12. Nat \subseteq S
  <2> HIDE DEF S
  <2> QED  BY <1>10, <1>11, SetInduction
<1>13. Promises(c, Visited(c, n + 1, 0), t0[n])
  BY <1>1, <1>12
<1>14. QED  BY <1>7, <1>9, <1>13

(* What the generator prints of a configuration: a tick that divides the   *)
(* intervals of all tasks, and a period of as many ticks as divide into    *)
(* the intervals, where the first interval divides the others and no       *)
(* product of periods overflowed.                                          *)
THEOREM TickDividesIntervals ==
    ASSUME NEW c, Declared(c)
    PROVE  LET p == configuration_declaration(c)
           IN  /\ p \in Plan
               /\ p.outcome = "runs" =>
                     /\ p.ticktime \in Pos /\ p.period \in Pos
                     /\ \A z \in Timed(c) : TimeAt(c, z) \in Pos /\ TimeAt(c, z) % p.ticktime = 0
                     /\ FirstDivides(c) /\ p.exact => \A z \in Timed(c) : p.period % (TimeAt(c, z) \div p.ticktime) = 0
<1> DEFINE t == resources_declared(c)
           p == configuration_declaration(c)
<1>1. Promises(c, Timed(c), t)
  BY ResourcesPromised
<1>2. p = IF t.outcome = "runs" /\ t.ticktime = 0 THEN [t EXCEPT !.outcome = "refused"]
          ELSE IF t.outcome = "runs" /\ t.period = 0 THEN [t EXCEPT !.outcome = "crashed"]
          ELSE t
  BY DEF configuration_declaration
<1>3. t \in Plan
  BY <1>1 DEF Promises
<1> HIDE DEF t, p
<1>4. CASE t.outcome = "runs" /\ (t.ticktime = 0 \/ t.period = 0)
  BY <1>2, <1>3, <1>4 DEF Plan, p
<1>5. CASE ~(t.outcome = "runs" /\ (t.ticktime = 0 \/ t.period = 0))
  <2>1. p = t /\ t.ticktime \in Nat /\ t.period \in Nat
    BY <1>2, <1>3, <1>5 DEF Plan
  <2>2. t.outcome = "runs" =>
          /\ \A z \in Timed(c) : TimeAt(c, z) \in Pos /\ TimeAt(c, z) % t.ticktime = 0
          /\ FirstDivides(c) /\ t.exact => \A z \in Timed(c) : t.period % (TimeAt(c, z) \div t.ticktime) = 0
    BY <1>1 DEF Promises
  <2>3. QED  BY <1>3, <1>5, <2>1, <2>2 DEF Pos, p
<1>6. QED  BY <1>4, <1>5

-----------------------------------------------------------------------------
(* The invariant of the scheduling.                                        *)
TasksIn(r) == Resources[r].tasks
TaskIs(x) == Resources[x[1]].tasks[TaskOf(x)]
ScheduleTyped ==
    /\ conf \in Configurations /\ host \in {"plc.c", "wrapping"} /\ tick \in Nat /\ elapsed \in Nat
    /\ resource \in 0 .. Len(Resources) /\ program \in Nat
    /\ resource = 0 => program = 0
    /\ resource > 0 => program <= Len(Resources[resource].programs)
    /\ plan.outcome = "runs" => plan = configuration_declaration(conf)
    /\ plan.outcome # "runs" => resource = 0 /\ elapsed = 0 /\ tick = 0
    /\ DOMAIN trig = DOMAIN Resources /\ DOMAIN due = DOMAIN Resources
    /\ \A r \in DOMAIN Resources : \A k \in DOMAIN TasksIn(r) : trig[r][k] \in EdgeData /\ due[r][k] \in BOOLEAN
    /\ global \in [Globals -> BOOLEAN] /\ moved \subseteq Globals
    /\ rises \in [Globals -> 0 .. 3] /\ served \in [Programs -> 0 .. 3] /\ ran \subseteq Programs

(* A host that begins to count anew has left out whole periods.            *)
TicksCounted ==
    /\ host = "plc.c" => tick = elapsed
    /\ plan.outcome = "runs" => \E w \in Nat : elapsed = get_greatest_tick_count(plan) * w + tick

(* The programs that had their turn in this tick, and did run.             *)
DueByTick ==
    resource > 0 /\ program > 0 =>
        \A k \in DOMAIN TasksIn(resource) :
            TasksIn(resource)[k].single = None => (due[resource][k] <=> OnTick(TasksIn(resource)[k]))
Passed(x) == resource = 0 \/ x[1] < resource \/ (x[1] = resource /\ x[2] < program)
DueAt(x, e) == TaskOf(x) = 0 \/ AlwaysDue(TaskIs(x)) \/ (e * plan.ticktime) % TimeOf(TaskIs(x)) = 0
ThisTick == IF resource = 0 THEN elapsed - 1 ELSE elapsed
RanWhenDue ==
    (resource > 0 \/ elapsed > 0) /\ (host = "plc.c" \/ FirstIsTick) =>
            \A x \in Programs : Trigger(x) = None => (x \in ran <=> Passed(x) /\ DueAt(x, ThisTick))

(* A rise that was sampled waits for the program or has been served; one   *)
(* that was not is counted.                                                *)
One(b) == IF b THEN 1 ELSE 0
Memory(x) == trig[x[1]][TaskOf(x)].m
Ahead(x) == resource = x[1] /\ program > 0 /\ program <= x[2]
Waits(x) == Ahead(x) /\ due[x[1]][TaskOf(x)]
Sampled(x) == resource > x[1] \/ (resource = x[1] /\ program > 0) \/ (resource = 0 /\ elapsed > 0)
Unseen(x) == global[Trigger(x)] /\ ~Memory(x)
EdgeSeen(x) == Sampled(x) /\ Trigger(x) \notin moved => (Memory(x) <=> global[Trigger(x)])
RisesCover(x) == rises[Trigger(x)] = 3 \/ served[x] + One(Waits(x)) + One(Unseen(x)) <= rises[Trigger(x)]
MemoryServed(x) == Memory(x) => served[x] > 0 \/ Waits(x)
Triggers == \A x \in Programs : Trigger(x) # None => EdgeSeen(x) /\ RisesCover(x) /\ MemoryServed(x)

ScheduleInv == ScheduleTyped /\ TicksCounted /\ DueByTick /\ RanWhenDue /\ Triggers

LEMMA ProgramFacts ==
    ASSUME conf \in Configurations, NEW x \in Programs
    PROVE  /\ x = <<x[1], x[2]>> /\ x[1] \in DOMAIN Resources /\ x[1] \in 1 .. Len(Resources) /\ Len(Resources) \in Nat
           /\ x[2] \in 1 .. Len(Resources[x[1]].programs) /\ Len(Resources[x[1]].programs) \in Nat
           /\ TaskOf(x) # 0 => TaskOf(x) \in DOMAIN TasksIn(x[1]) /\ TaskIs(x) \in Task
           /\ Trigger(x) # None => Trigger(x) \in Globals /\ TaskOf(x) # 0 /\ Trigger(x) = TaskIs(x).single
           /\ Trigger(x) = None /\ TaskOf(x) # 0 => TaskIs(x).single = None
           /\ TaskIs(x) = TasksIn(x[1])[TaskOf(x)]
<1>1. Declared(conf)
  BY ConfigurationAssumption
<1>2. PICK r \in DOMAIN Resources : \E k \in DOMAIN Resources[r].programs : x = <<r, k>>
  BY DEF Programs
<1>3. PICK k \in DOMAIN Resources[r].programs : x = <<r, k>>
  BY <1>2
<1>4. /\ Len(Resources) \in Nat /\ DOMAIN Resources = 1 .. Len(Resources)
      /\ Resources[r].tasks \in Seq(Task) /\ Resources[r].programs \in Seq(Program)
  BY <1>1, DeclaredResource DEF Resources
<1>5. Resources[r].programs[k] \in Program /\ k \in 1 .. Len(Resources[r].programs) /\ Len(Resources[r].programs) \in Nat
  BY <1>4, ElementOf
<1>6. Resources[r].programs[k].task <= Len(Resources[r].tasks)
  BY <1>1 DEF Declared, Resources
<1>7. x[1] = r /\ x[2] = k
  BY <1>3
<1>8. TaskOf(x) = Resources[r].programs[k].task
  BY <1>7 DEF TaskOf
<1>9. TaskOf(x) \in Nat /\ TaskOf(x) <= Len(Resources[r].tasks)
  BY <1>5, <1>6, <1>8 DEF Program
<1> DEFINE tasks == Resources[r].tasks
<1>10. TaskOf(x) # 0 => TaskOf(x) \in DOMAIN tasks
  <2>1. tasks \in Seq(Task) /\ TaskOf(x) <= Len(tasks)
    BY <1>4, <1>9
  <2> HIDE DEF tasks
  <2>2. DOMAIN tasks = 1 .. Len(tasks) /\ Len(tasks) \in Nat
    BY <2>1
  <2>3. QED  BY <1>9, <2>1, <2>2
<1>11. TaskOf(x) # 0 => tasks[TaskOf(x)] \in Task
  BY <1>4, <1>10, ElementOf
<1>12. TaskIs(x) = tasks[TaskOf(x)] /\ TasksIn(x[1]) = tasks
  BY <1>7 DEF TaskIs, TasksIn
<1> HIDE DEF tasks
<1>13. Trigger(x) = IF TaskOf(x) = 0 THEN None ELSE TaskIs(x).single
  BY DEF Trigger, TaskIs
<1>14. TaskOf(x) # 0 => TaskIs(x).single \in Globals \cup {None}
  BY <1>11, <1>12 DEF Task
<1>15. x[1] \in DOMAIN Resources /\ x[1] \in 1 .. Len(Resources) /\ x = <<x[1], x[2]>>
  BY <1>3, <1>4, <1>7
<1>16. x[2] \in 1 .. Len(Resources[x[1]].programs) /\ Len(Resources[x[1]].programs) \in Nat
  BY <1>5, <1>7
<1>17. QED  BY <1>4, <1>10, <1>11, <1>12, <1>13, <1>14, <1>15, <1>16

LEMMA SameConfiguration ==
    ASSUME conf' = conf
    PROVE  /\ Resources' = Resources /\ Programs' = Programs
           /\ \A x : TaskOf(x)' = TaskOf(x) /\ Trigger(x)' = Trigger(x) /\ TaskIs(x)' = TaskIs(x)
           /\ \A r : TasksIn(r)' = TasksIn(r)
BY DEF Resources, Programs, TaskOf, Trigger, TaskIs, TasksIn

LEMMA ScheduleStarts == ConfigurationInit => ScheduleInv
<1> SUFFICES ASSUME ConfigurationInit PROVE ScheduleInv
  OBVIOUS
<1> USE DEF ConfigurationInit
<1>1. Len(Resources) \in Nat /\ \A r \in DOMAIN Resources : r \in Nat /\ r > 0
  <2>1. Declared(conf)
    BY ConfigurationAssumption
  <2>2. Resources \in Seq(Resource)
    BY <2>1 DEF Declared, Resource, Resources
  <2>3. QED  BY <2>2
<1>2. plan.outcome = "source"
  BY DEF Unscheduled
<1>3. rises \in [Globals -> 0 .. 3] /\ served \in [Programs -> 0 .. 3]
  OBVIOUS
<1>4. \A r \in DOMAIN Resources : \A k \in DOMAIN TasksIn(r) :
          trig[r][k] = R_TRIG_init /\ due[r][k] = FALSE
  BY DEF TasksIn
<1>5. ScheduleTyped
  <2>1. /\ conf \in Configurations /\ host \in {"plc.c", "wrapping"} /\ tick \in Nat /\ elapsed \in Nat
        /\ resource \in 0 .. Len(Resources) /\ program \in Nat /\ resource = 0 /\ program = 0
        /\ elapsed = 0 /\ tick = 0 /\ moved \subseteq Globals /\ ran \subseteq Programs
    BY <1>1
  <2>2. DOMAIN trig = DOMAIN Resources /\ DOMAIN due = DOMAIN Resources
    OBVIOUS
  <2>3. \A r \in DOMAIN Resources : \A k \in DOMAIN TasksIn(r) : trig[r][k] \in EdgeData /\ due[r][k] \in BOOLEAN
    <3>1. R_TRIG_init \in EdgeData
      BY DEF R_TRIG_init, EdgeData
    <3> HIDE DEF ConfigurationInit
    <3>2. QED  BY <1>4, <3>1
  <2>4. global \in [Globals -> BOOLEAN]
    OBVIOUS
  <2> HIDE DEF ConfigurationInit
  <2>5. QED  BY <1>2, <1>3, <2>1, <2>2, <2>3, <2>4 DEF ScheduleTyped
<1>6. TicksCounted /\ DueByTick /\ RanWhenDue
  BY <1>2 DEF TicksCounted, DueByTick, RanWhenDue
<1>7. ASSUME NEW x \in Programs, Trigger(x) # None
      PROVE  EdgeSeen(x) /\ RisesCover(x) /\ MemoryServed(x)
  <2>1. x[1] \in DOMAIN Resources /\ TaskOf(x) \in DOMAIN TasksIn(x[1]) /\ Trigger(x) \in Globals /\ x[1] \in Nat /\ x[1] > 0
    BY <1>1, <1>7, ProgramFacts
  <2>2. Memory(x) = FALSE
    BY <1>4, <2>1, SMTT(30) DEF Memory, R_TRIG_init
  <2>3. ~Waits(x) /\ ~Sampled(x)
    BY <2>1 DEF Waits, Ahead, Sampled
  <2>4. served[x] = 0 /\ rises[Trigger(x)] = One(global[Trigger(x)])
    BY <2>1 DEF One
  <2>5. One(Unseen(x)) = One(global[Trigger(x)]) /\ One(Waits(x)) = 0 /\ One(Unseen(x)) \in {0, 1}
    BY <2>2, <2>3 DEF Unseen, One
  <2>6. QED  BY <2>2, <2>3, <2>4, <2>5 DEF EdgeSeen, RisesCover, MemoryServed
<1>8. QED  BY <1>5, <1>6, <1>7 DEF ScheduleInv, Triggers

-----------------------------------------------------------------------------
(* The tick that counts decides as the time since the start would.         *)
LEMMA ScaledDivides ==
    ASSUME NEW T \in Pos, NEW n \in Pos, NEW e \in Nat
    PROVE  (e * T) % (T * n) = 0 <=> e % n = 0
<1> DEFINE d == T * n
           m == e * T
<1>1. d \in Pos /\ m \in Nat
  <2>1. d >= T /\ d \in Nat /\ T > 0
    BY AtLeast DEF Pos
  <2> HIDE DEF d
  <2>2. d \in Pos
    BY <2>1 DEF Pos
  <2>3. QED  BY <2>2 DEF Pos
<1>2. ASSUME m % d = 0 PROVE e % n = 0
  <2> DEFINE q == m \div d
  <2>1. q \in Nat /\ m = d * q
    <3> HIDE DEF m, d
    <3> QED  BY <1>1, <1>2, Multiple DEF Pos
  <2> HIDE DEF q
  <2>2. n * q \in Nat /\ d * q = T * (n * q) /\ m = T * e
    BY <2>1 DEF Pos
  <2>3. T * e + 0 = T * (n * q) + 0
    BY <2>1, <2>2 DEF Pos
  <2> DEFINE j == n * q
  <2>4. j \in Nat /\ T * e + 0 = T * j + 0 /\ T \in Nat \ {0} /\ 0 < T
    BY <2>2, <2>3 DEF Pos
  <2> HIDE DEF j
  <2>5. e = j
    BY <2>4, UniqueRemainder
  <2>6. QED  BY <2>1, <2>5, Product DEF j, Pos
<1>3. ASSUME e % n = 0 PROVE m % d = 0
  <2> DEFINE q == e \div n
  <2>1. q \in Nat /\ e = n * q
    BY <1>3, Multiple DEF Pos
  <2> HIDE DEF q
  <2>2. m = d * q
    BY <2>1 DEF Pos
  <2> HIDE DEF d, m
  <2>3. QED  BY <1>1, <2>1, <2>2, Product DEF Pos
<1>4. QED  BY <1>2, <1>3

(* The greatest count is whole periods.                                    *)
LEMMA GreatestCount ==
    ASSUME NEW p \in Plan, p.period \in Pos, NEW n \in Pos, p.period % n = 0
    PROVE  get_greatest_tick_count(p) \in Nat /\ get_greatest_tick_count(p) % n = 0
<1> DEFINE g == p.period
<1>1. g \in Pos /\ UlMax \in Nat
  BY ConfigurationAssumption DEF Plan
<1> HIDE DEF g
<1>2. /\ UlMax \div g \in Nat /\ UlMax % g \in Nat
      /\ UlMax = g * (UlMax \div g) + (UlMax % g)
  BY <1>1, Remainders DEF Pos
<1>3. UlMax - (UlMax % g) = g * (UlMax \div g) /\ UlMax - (UlMax % g) \in Nat
  BY <1>1, <1>2 DEF Pos
<1>4. (UlMax - (UlMax % g)) % n = 0
  <2> DEFINE q == UlMax \div g
  <2>1. g % n = 0
    BY DEF g
  <2>2. 0 % n = 0
    BY DEF Pos
  <2>3. q \in Nat /\ g \in Nat /\ n \in Nat \ {0}
    BY <1>1, <1>2 DEF Pos
  <2> HIDE DEF q
  <2>4. (g * q + 0) % n = 0
    BY <2>1, <2>2, <2>3, DividesSum
  <2>5. g * q + 0 = g * q
    BY <2>3
  <2>6. QED  BY <1>3, <2>4, <2>5 DEF q
<1>5. get_greatest_tick_count(p) = IF g = 1 THEN 0 ELSE UlMax - (UlMax % g)
  BY DEF get_greatest_tick_count, g
<1>6. 0 % n = 0
  BY DEF Pos
<1>7. QED  BY <1>3, <1>4, <1>5, <1>6

LEMMA TickDecides ==
    ASSUME ScheduleTyped, TicksCounted, plan.outcome = "runs", host = "plc.c" \/ FirstIsTick,
           NEW r \in DOMAIN Resources, NEW k \in DOMAIN TasksIn(r)
    PROVE  OnTick(TasksIn(r)[k]) <=>
               \/ TasksIn(r)[k].interval = <<>>
               \/ (elapsed * plan.ticktime) % TimeOf(TasksIn(r)[k]) = 0
<1> DEFINE t == TasksIn(r)[k]
           time == TimeOf(t)
           T == plan.ticktime
           n == time \div T
           G == get_greatest_tick_count(plan)
<1>1. CASE t.interval = <<>>
  BY <1>1 DEF OnTick
<1>2. CASE t.interval # <<>>
  <2>1. Declared(conf) /\ plan = configuration_declaration(conf) /\ tick \in Nat /\ elapsed \in Nat
    BY ConfigurationAssumption DEF ScheduleTyped
  <2>2. <<r, k>> \in Timed(conf) /\ TimeAt(conf, <<r, k>>) = time
    BY <1>2 DEF Timed, TimeAt, TasksIn, Resources
  <2>3. /\ plan \in Plan /\ plan.period \in Pos /\ T \in Pos /\ time \in Pos /\ time % T = 0
        /\ FirstIsTick => plan.period % n = 0
    BY <2>1, <2>2, TickDividesIntervals DEF FirstIsTick
  <2>4. OnTick(t) <=> tick % n = 0
    BY <1>2, <2>3 DEF OnTick, Pos
  <2> HIDE DEF t, time, T
  <2>5. n \in Nat /\ time = T * n
    BY <2>3, Multiple DEF Pos
  <2> HIDE DEF n
  <2>6. n \in Pos
    BY <2>3, <2>5 DEF Pos
  <2>7. (elapsed * T) % time = 0 <=> elapsed % n = 0
    BY <2>1, <2>3, <2>5, <2>6, ScaledDivides
  <2>8. elapsed % n = tick % n
    <3>1. CASE host = "plc.c"
      BY <3>1 DEF TicksCounted
    <3>2. CASE FirstIsTick
      <4>1. G \in Nat /\ G % n = 0
        BY <2>3, <2>6, <3>2, GreatestCount DEF n
      <4>2. PICK w \in Nat : elapsed = G * w + tick
        BY DEF TicksCounted
      <4> HIDE DEF G
      <4> DEFINE q == G \div n
      <4>3. q \in Nat /\ G = n * q
        BY <2>6, <4>1, Multiple DEF Pos
      <4> HIDE DEF q
      <4>4. q * w \in Nat /\ G * w = n * (q * w)
        BY <2>6, <4>3 DEF Pos
      <4> DEFINE j == q * w
      <4>5. j \in Nat /\ elapsed = n * j + tick /\ n \in Nat \ {0}
        BY <2>6, <4>2, <4>4 DEF Pos
      <4> HIDE DEF j
      <4>6. QED  BY <2>1, <4>5, SameRemainder
    <3>3. QED  BY <3>1, <3>2
  <2>9. QED  BY <1>2, <2>4, <2>7, <2>8 DEF time, t, T
<1>3. QED  BY <1>1, <1>2

-----------------------------------------------------------------------------
(* The turn of a program passes to the next one, or the tick ends.         *)
LEMMA Turns ==
    ASSUME ScheduleTyped, resource > 0, program > 0, Advance, conf' = conf
    PROVE  LET y == <<resource, program>>
           IN  /\ y \in Programs
               /\ resource' \in 0 .. Len(Resources) /\ program' \in Nat /\ elapsed' \in Nat /\ tick' \in Nat
               /\ resource' = 0 => program' = 0
               /\ resource' > 0 => program' <= Len(Resources[resource'].programs)
               /\ resource' > 0 /\ program' > 0 => resource' = resource /\ tick' = tick
               /\ IF resource' = 0 THEN tick' = NextTick /\ elapsed' = elapsed + 1 ELSE tick' = tick /\ elapsed' = elapsed
               /\ ThisTick' = ThisTick
               /\ resource' > 0 \/ elapsed' > 0
               /\ \A x \in Programs : /\ Passed(x)' <=> Passed(x) \/ x = y
                                      /\ Sampled(x)' => Sampled(x)
                                      /\ Ahead(x) <=> Ahead(x)' \/ x = y
<1> DEFINE y == <<resource, program>>
           last == Len(Resources[resource].programs)
           end == Len(Resources)
<1>1. /\ end \in Nat /\ resource \in 1 .. end /\ last \in Nat /\ program \in 1 .. last
      /\ tick \in Nat /\ elapsed \in Nat /\ y \in Programs
      /\ \A r \in 1 .. end : Len(Resources[r].programs) \in Nat
  <2>1. Declared(conf)
    BY ConfigurationAssumption DEF ScheduleTyped
  <2>2. end \in Nat /\ DOMAIN Resources = 1 .. end
    BY <2>1 DEF Declared, Resources
  <2>3. \A r \in 1 .. end : Resources[r].programs \in Seq(Program)
    BY <2>1, <2>2, DeclaredResource DEF Resources
  <2>4. \A r \in 1 .. end : Len(Resources[r].programs) \in Nat /\ DOMAIN Resources[r].programs = 1 .. Len(Resources[r].programs)
    BY <2>3
  <2>5. resource \in 1 .. end
    BY <2>2 DEF ScheduleTyped
  <2>6. last \in Nat /\ DOMAIN Resources[resource].programs = 1 .. last
    BY <2>4, <2>5
  <2>7. program \in 1 .. last
    BY <2>5, <2>6 DEF ScheduleTyped
  <2>8. y \in Programs
    BY <2>2, <2>5, <2>6, <2>7 DEF Programs
  <2>9. QED  BY <2>2, <2>4, <2>5, <2>6, <2>7, <2>8 DEF ScheduleTyped
<1>2. ASSUME NEW x \in Programs
      PROVE  /\ x = <<x[1], x[2]>> /\ x[1] \in 1 .. end /\ x[2] \in Nat /\ x[2] > 0
             /\ x[1] = resource => x[2] <= last
  <2>1. conf \in Configurations
    BY DEF ScheduleTyped
  <2>2. x[2] \in 1 .. Len(Resources[x[1]].programs) /\ Len(Resources[x[1]].programs) \in Nat
    BY <2>1, ProgramFacts
  <2>3. QED  BY <2>1, <2>2, ProgramFacts
<1>3. \A x \in Programs : x = y <=> x[1] = resource /\ x[2] = program
  BY <1>2
<1>4. NextTick \in Nat
  BY <1>1 DEF NextTick
<1>5. Resources' = Resources /\ Programs' = Programs
  BY SameConfiguration
<1> HIDE DEF y
<1> USE DEF Passed, Sampled, Ahead, ThisTick
<1>6. CASE program < last /\ program' = program + 1 /\ UNCHANGED <<resource, tick, elapsed>>
  BY <1>1, <1>2, <1>3, <1>6 DEF y
<1>7. CASE program' = 0 /\ ~(program < last) /\ resource < end /\ resource' = resource + 1 /\ UNCHANGED <<tick, elapsed>>
  <2>1. program = last
    BY <1>1, <1>7
  <2>2. \A x \in Programs : /\ Passed(x)' <=> Passed(x) \/ x = y
                            /\ Sampled(x)' => Sampled(x)
                            /\ Ahead(x) <=> Ahead(x)' \/ x = y
    BY <1>1, <1>2, <1>3, <1>7, <2>1
  <2>3. QED  BY <1>1, <1>7, <2>2 DEF y
<1>8. CASE program' = 0 /\ ~(program < last) /\ ~(resource < end) /\ resource' = 0 /\ tick' = NextTick /\ elapsed' = elapsed + 1
  <2>1. program = last /\ resource = end
    BY <1>1, <1>8
  <2>2. \A x \in Programs : /\ Passed(x)' <=> Passed(x) \/ x = y
                            /\ Sampled(x)' => Sampled(x)
                            /\ Ahead(x) <=> Ahead(x)' \/ x = y
    BY <1>1, <1>2, <1>3, <1>8, <2>1
  <2>3. QED  BY <1>1, <1>4, <1>8, <2>2 DEF y
<1>9. QED  BY <1>6, <1>7, <1>8 DEF Advance

-----------------------------------------------------------------------------
(* The invariant is kept: step by step.                                    *)
LEMMA TriggersStay ==
    ASSUME UNCHANGED <<conf, resource, program, due, trig, global, elapsed, moved, rises, served>>, Triggers
    PROVE  Triggers'
<1>1. Programs' = Programs /\ \A x : TaskOf(x)' = TaskOf(x) /\ Trigger(x)' = Trigger(x)
  BY SameConfiguration
<1>2. ASSUME NEW x \in Programs
      PROVE  /\ Memory(x)' = Memory(x) /\ Waits(x)' = Waits(x) /\ Sampled(x)' = Sampled(x) /\ Unseen(x)' = Unseen(x)
  BY <1>1 DEF Memory, Waits, Ahead, Sampled, Unseen
<1>3. ASSUME NEW x \in Programs
      PROVE  EdgeSeen(x)' = EdgeSeen(x) /\ RisesCover(x)' = RisesCover(x) /\ MemoryServed(x)' = MemoryServed(x)
  BY <1>1, <1>2 DEF EdgeSeen, RisesCover, MemoryServed, One
<1>4. QED  BY <1>1, <1>3 DEF Triggers

LEMMA GenerateKeeps == ScheduleInv /\ Generate => ScheduleInv'
<1> SUFFICES ASSUME ScheduleInv, Generate PROVE ScheduleInv'
  OBVIOUS
<1>1. /\ plan.outcome = "source" /\ plan' = configuration_declaration(conf)
      /\ UNCHANGED <<conf, host, tick, resource, program, due, trig, global, elapsed, ran, moved, rises, served>>
  BY DEF Generate
<1>2. resource = 0 /\ elapsed = 0 /\ tick = 0 /\ conf \in Configurations
  BY <1>1 DEF ScheduleInv, ScheduleTyped
<1>3. plan' \in Plan
  BY <1>1, <1>2, ConfigurationAssumption, TickDividesIntervals
<1>4. ScheduleTyped'
  BY <1>1, <1>2 DEF ScheduleInv, ScheduleTyped, Resources, TasksIn, Programs
<1>5. TicksCounted'
  <2> SUFFICES ASSUME (plan').outcome = "runs" PROVE TicksCounted'
    BY <1>1, <1>2 DEF TicksCounted
  <2> DEFINE G == get_greatest_tick_count(plan')
  <2>1. (plan').period \in Pos
    BY <1>1, <1>2, ConfigurationAssumption, TickDividesIntervals
  <2>2. 1 \in Pos /\ (plan').period % 1 = 0
    BY <2>1 DEF Pos
  <2>3. G \in Nat
    BY <1>3, <2>1, <2>2, GreatestCount
  <2>4. get_greatest_tick_count(plan)' = G
    BY DEF get_greatest_tick_count
  <2> HIDE DEF G
  <2>5. 0 = G * 0 + 0
    BY <2>3
  <2>6. QED  BY <1>1, <1>2, <2>4, <2>5 DEF TicksCounted
<1>6. DueByTick' /\ RanWhenDue'
  BY <1>1, <1>2 DEF DueByTick, RanWhenDue
<1>7. Triggers'
  BY <1>1, TriggersStay DEF ScheduleInv
<1>8. QED  BY <1>4, <1>5, <1>6, <1>7 DEF ScheduleInv

LEMMA StutterKeeps == ScheduleInv /\ UNCHANGED schedule => ScheduleInv'
<1> SUFFICES ASSUME ScheduleInv, UNCHANGED schedule PROVE ScheduleInv'
  OBVIOUS
<1>1. UNCHANGED <<conf, plan, host, tick, resource, program, due, trig, global, elapsed, ran, moved, rises, served>>
  BY DEF schedule
<1>2. ScheduleTyped' /\ TicksCounted'
  <2>1. ScheduleTyped'
    BY <1>1 DEF ScheduleInv, ScheduleTyped, Resources, TasksIn, Programs
  <2>2. get_greatest_tick_count(plan)' = get_greatest_tick_count(plan)
    BY <1>1
  <2>3. QED  BY <1>1, <2>1, <2>2 DEF ScheduleInv, TicksCounted
<1>3. DueByTick'
  BY <1>1 DEF ScheduleInv, DueByTick, Resources, TasksIn, OnTick
<1>4. RanWhenDue'
  BY <1>1 DEF ScheduleInv, RanWhenDue, FirstIsTick, Programs, Resources, Trigger, TaskOf, Passed, DueAt, TaskIs, ThisTick
<1>5. Triggers'
  BY <1>1, TriggersStay DEF ScheduleInv
<1>6. QED  BY <1>2, <1>3, <1>4, <1>5 DEF ScheduleInv

LEMMA Rises ==
    ASSUME NEW new \in [Globals -> BOOLEAN], global \in [Globals -> BOOLEAN], NEW before \in [Globals -> 0 .. 3],
           NEW g \in Globals
    PROVE  /\ Rise(new, before) \in [Globals -> 0 .. 3]
           /\ Rise(new, before)[g] = Counted(before[g] + One(new[g] /\ ~global[g]))
<1>1. \A h \in Globals : Counted(before[h] + IF new[h] /\ ~global[h] THEN 1 ELSE 0) \in 0 .. 3
  BY DEF Counted
<1>2. QED  BY <1>1 DEF Rise, One

(* The invariant of a trigger, for what its parts are.                     *)
LEMMA CoverStays ==
    ASSUME NEW r \in 0 .. 3, NEW s \in 0 .. 3, NEW w \in {0, 1}, NEW u \in {0, 1}, r = 3 \/ s + w + u <= r,
           NEW e \in {0, 1}, NEW t \in 0 .. 3, NEW v \in {0, 1}, NEW y \in {0, 1},
           t + v <= s + w, y <= u + e
    PROVE  Counted(r + e) = 3 \/ t + v + y <= Counted(r + e)
BY DEF Counted

LEMMA HostTickKeeps == ScheduleInv /\ HostTick => ScheduleInv'
<1> SUFFICES ASSUME ScheduleInv, HostTick PROVE ScheduleInv'
  OBVIOUS
<1>1. PICK new \in Values(conf.inputs) :
          /\ global' = new
          /\ rises' = Rise(new, [g \in Globals |-> IF g \in Through(FALSE) THEN 0 ELSE rises[g]])
  BY DEF HostTick
<1>2. /\ plan.outcome = "runs" /\ resource = 0
      /\ served' = [x \in Programs |-> IF Trigger(x) \in Through(FALSE) THEN 0 ELSE served[x]]
      /\ resource' = 1 /\ program' = 0 /\ ran' = {} /\ moved' = {}
      /\ UNCHANGED <<conf, plan, host, tick, due, trig, elapsed>>
  BY DEF HostTick
<1>3. ScheduleTyped /\ TicksCounted /\ Triggers /\ program = 0 /\ conf \in Configurations /\ elapsed \in Nat
  BY <1>2 DEF ScheduleInv, ScheduleTyped
<1>4. /\ Resources' = Resources /\ Programs' = Programs
      /\ \A x : TaskOf(x)' = TaskOf(x) /\ Trigger(x)' = Trigger(x) /\ TaskIs(x)' = TaskIs(x)
      /\ \A r : TasksIn(r)' = TasksIn(r)
  BY <1>2, SameConfiguration
<1>5. /\ global \in [Globals -> BOOLEAN] /\ rises \in [Globals -> 0 .. 3] /\ served \in [Programs -> 0 .. 3]
      /\ new \in [Globals -> BOOLEAN]
  BY <1>3 DEF ScheduleTyped, Values
<1> DEFINE before == [g \in Globals |-> IF g \in Through(FALSE) THEN 0 ELSE rises[g]]
<1>6. before \in [Globals -> 0 .. 3]
  <2> DEFINE low == Through(FALSE)
  <2> HIDE DEF low
  <2>1. \A g \in Globals : (IF g \in low THEN 0 ELSE rises[g]) \in 0 .. 3
    BY <1>5
  <2> USE DEF low
  <2>2. QED  BY <2>1
<1>7. /\ rises' \in [Globals -> 0 .. 3]
      /\ \A g \in Globals : rises'[g] = Counted(before[g] + One(new[g] /\ ~global[g]))
  <2> HIDE DEF before
  <2>1. \A g \in Globals : Rise(new, before)[g] = Counted(before[g] + One(new[g] /\ ~global[g]))
    BY <1>5, <1>6, Rises
  <2>2. Rise(new, before) \in [Globals -> 0 .. 3]
    <3>1. \A h \in Globals : Rise(new, before)[h] \in 0 .. 3
      BY <1>5, <1>6, <2>1 DEF Counted, One
    <3>2. QED  BY <3>1 DEF Rise
  <2>3. QED  BY <1>1, <2>1, <2>2 DEF before
<1>8. ScheduleTyped'
  <2>1. Len(Resources) \in Nat /\ Len(Resources) >= 1
    <3>1. Declared(conf)
      BY <1>3, ConfigurationAssumption
    <3>2. Resources \in Seq(Resource) /\ Len(Resources) > 0
      BY <3>1 DEF Declared, Resources, Resource
    <3>3. QED  BY <3>2
  <2>2. served' \in [Programs -> 0 .. 3]
    <3> DEFINE low == Through(FALSE)
    <3> HIDE DEF low
    <3>1. \A x \in Programs : (IF Trigger(x) \in low THEN 0 ELSE served[x]) \in 0 .. 3
      BY <1>5
    <3> USE DEF low
    <3>2. QED  BY <1>2, <3>1
  <2>3. resource' \in 0 .. Len(Resources) /\ program' \in Nat
    BY <1>2, <2>1
  <2>4. 0 <= Len(Resources[1].programs)
    <3>1. Declared(conf) /\ 1 \in DOMAIN Resources
      <4>1. Declared(conf)
        BY <1>3, ConfigurationAssumption
      <4>2. Resources \in Seq(Resource)
        BY <4>1 DEF Declared, Resources, Resource
      <4>3. QED  BY <2>1, <4>1, <4>2
    <3>2. Len(Resources[1].programs) > 0
      BY <3>1 DEF Declared, Resources
    <3>3. Resources[1].programs \in Seq(Program)
      BY <3>1, DeclaredResource DEF Resources
    <3>4. QED  BY <3>2, <3>3
  <2>5. QED  BY <1>1, <1>2, <1>3, <1>4, <1>5, <1>7, <2>2, <2>3, <2>4 DEF ScheduleTyped
<1>9. TicksCounted'
  BY <1>2, <1>3 DEF TicksCounted
<1>10. DueByTick'
  BY <1>2 DEF DueByTick
<1>11. RanWhenDue'
  <2>1. ASSUME NEW x \in Programs PROVE ~(Passed(x)')
    <3>1. x[1] \in Nat /\ x[1] > 0 /\ x[2] \in Nat
      BY <1>3, ProgramFacts
    <3>2. QED  BY <1>2, <3>1 DEF Passed
  <2>2. QED  BY <1>2, <1>4, <2>1 DEF RanWhenDue
<1>12. ASSUME NEW x \in Programs, Trigger(x) # None
       PROVE  (EdgeSeen(x) /\ RisesCover(x) /\ MemoryServed(x))'
  <2> DEFINE g == Trigger(x)
             r == rises[g]
             s == served[x]
             u == One(Unseen(x))
             e == One(new[g] /\ ~global[g])
             y == One(new[g] /\ ~Memory(x))
  <2>1. EdgeSeen(x) /\ RisesCover(x) /\ MemoryServed(x)
    BY <1>3, <1>12 DEF Triggers
  <2>2. /\ g \in Globals /\ TaskOf(x) \in DOMAIN TasksIn(x[1]) /\ x[1] \in DOMAIN Resources
        /\ x[1] \in Nat /\ x[1] > 0 /\ x[2] \in Nat
    BY <1>3, <1>12, ProgramFacts
  <2>3. Memory(x) \in BOOLEAN /\ Memory(x)' = Memory(x) /\ Trigger(x)' = g
    BY <1>2, <1>3, <1>4, <2>2 DEF ScheduleTyped, Memory, EdgeData
  <2>4. ~Waits(x) /\ ~(Waits(x)') /\ ~(Sampled(x)')
    BY <1>2, <1>3, <2>2 DEF Waits, Ahead, Sampled
  <2>5. One(Unseen(x)') = y /\ One(Waits(x)') = 0 /\ One(Waits(x)) = 0
    BY <1>1, <2>3, <2>4 DEF Unseen, One
  <2>6. One(Unseen(x))' = One(Unseen(x)') /\ One(Waits(x))' = One(Waits(x)')
    BY DEF One
  <2>7. u \in {0, 1} /\ e \in {0, 1} /\ y \in {0, 1} /\ r \in 0 .. 3 /\ s \in 0 .. 3
    BY <1>5, <2>2 DEF One
  <2>8. CASE g \in Through(FALSE)
    <3>1. global[g] = FALSE /\ g \notin moved /\ elapsed > 0
      BY <2>8 DEF Through
    <3>2. Memory(x) = FALSE
      BY <1>2, <2>1, <2>3, <3>1 DEF EdgeSeen, Sampled
    <3>3. served'[x] = 0 /\ rises'[g] = Counted(0 + e)
      BY <1>2, <1>7, <2>2, <2>8
    <3>4. y = e
      BY <3>1, <3>2
    <3> HIDE DEF y, e, g
    <3>5. 0 + 0 + y <= rises'[g]
      BY <2>7, <3>3, <3>4 DEF Counted
    <3>6. QED  BY <2>3, <2>4, <2>5, <2>6, <3>2, <3>3, <3>5 DEF EdgeSeen, RisesCover, MemoryServed, g
  <2>9. CASE g \notin Through(FALSE)
    <3>1. served'[x] = s /\ rises'[g] = Counted(r + e)
      BY <1>2, <1>7, <2>2, <2>9
    <3>2. y <= u + e
      <4>1. new[g] \in BOOLEAN /\ global[g] \in BOOLEAN
        BY <1>5, <2>2
      <4>2. QED  BY <2>3, <4>1 DEF One, Unseen
    <3>3. r = 3 \/ s + 0 + u <= r
      BY <2>1, <2>5 DEF RisesCover
    <3>4. Memory(x) => s > 0
      BY <2>1, <2>4 DEF MemoryServed
    <3> HIDE DEF y, u, e, g, s, r
    <3>5. Counted(r + e) = 3 \/ s + 0 + y <= Counted(r + e)
      BY <2>7, <3>2, <3>3, CoverStays
    <3>6. QED  BY <2>3, <2>4, <2>5, <2>6, <3>1, <3>4, <3>5 DEF EdgeSeen, RisesCover, MemoryServed, g
  <2>10. QED  BY <2>8, <2>9
<1>13. Triggers'
  BY <1>4, <1>12 DEF Triggers
<1>14. QED  BY <1>8, <1>9, <1>10, <1>11, <1>13 DEF ScheduleInv

LEMMA RunTasksKeeps == ScheduleInv /\ RunTasks => ScheduleInv'
<1> SUFFICES ASSUME ScheduleInv, RunTasks PROVE ScheduleInv'
  OBVIOUS
<1> DEFINE q == resource
           tasks == TasksIn(q)
           new == [k \in DOMAIN tasks |-> IF tasks[k].single = None THEN trig[q][k] ELSE Triggered(tasks[k], trig[q][k])]
           flags == [k \in DOMAIN tasks |-> IF tasks[k].single = None THEN OnTick(tasks[k]) ELSE new[k].q]
<1>1. /\ q > 0 /\ program = 0 /\ program' = 1
      /\ trig' = [trig EXCEPT ![q] = new] /\ due' = [due EXCEPT ![q] = flags]
      /\ UNCHANGED <<conf, plan, host, tick, resource, global, elapsed, ran, moved, rises, served>>
  BY DEF RunTasks, TasksIn
<1>2. /\ ScheduleTyped /\ TicksCounted /\ RanWhenDue /\ Triggers /\ conf \in Configurations /\ elapsed \in Nat
      /\ global \in [Globals -> BOOLEAN] /\ DOMAIN trig = DOMAIN Resources /\ DOMAIN due = DOMAIN Resources
      /\ q \in 0 .. Len(Resources)
      /\ \A r \in DOMAIN Resources : \A k \in DOMAIN TasksIn(r) : trig[r][k] \in EdgeData /\ due[r][k] \in BOOLEAN
  BY DEF ScheduleInv, ScheduleTyped
<1>3. /\ Resources' = Resources /\ Programs' = Programs /\ FirstIsTick' = FirstIsTick
      /\ \A x : TaskOf(x)' = TaskOf(x) /\ Trigger(x)' = Trigger(x) /\ TaskIs(x)' = TaskIs(x)
      /\ \A r : TasksIn(r)' = TasksIn(r)
  BY <1>1, SameConfiguration DEF FirstIsTick
<1>4. /\ Len(Resources) \in Nat /\ DOMAIN Resources = 1 .. Len(Resources) /\ q \in DOMAIN Resources
      /\ tasks \in Seq(Task) /\ 1 <= Len(Resources[q].programs)
  <2>1. Declared(conf)
    BY <1>2, ConfigurationAssumption
  <2>2. Resources \in Seq(Resource)
    BY <2>1 DEF Declared, Resources, Resource
  <2>3. Len(Resources) \in Nat /\ DOMAIN Resources = 1 .. Len(Resources)
    BY <2>2
  <2>4. q \in DOMAIN Resources
    BY <1>1, <1>2, <2>3
  <2>5. Len(Resources[q].programs) > 0 /\ Resources[q].programs \in Seq(Program) /\ tasks \in Seq(Task)
    BY <2>1, <2>4, DeclaredResource DEF Declared, Resources, TasksIn
  <2>6. Len(Resources[q].programs) \in Nat
    BY <2>5
  <2>7. QED  BY <2>3, <2>4, <2>5, <2>6
<1>5. /\ trig'[q] = new /\ due'[q] = flags
      /\ \A r \in DOMAIN Resources : r # q => trig'[r] = trig[r] /\ due'[r] = due[r]
      /\ DOMAIN trig' = DOMAIN Resources /\ DOMAIN due' = DOMAIN Resources
  <2> HIDE DEF new, flags
  <2> QED  BY <1>1, <1>2, <1>4
<1>6. ASSUME NEW k \in DOMAIN tasks
      PROVE  /\ tasks[k].single = None => new[k] = trig[q][k] /\ flags[k] = OnTick(tasks[k])
             /\ tasks[k].single # None =>
                   LET g == tasks[k].single
                   IN  /\ g \in Globals
                       /\ new[k] = [m |-> global[g], q |-> global[g] /\ ~trig[q][k].m]
                       /\ flags[k] = (global[g] /\ ~trig[q][k].m)
             /\ new[k] \in EdgeData /\ flags[k] \in BOOLEAN
  <2>1. tasks[k] \in Task
    BY <1>4, ElementOf
  <2>2. tasks[k].single # None => tasks[k].single \in Globals
    BY <2>1 DEF Task
  <2>3. CASE tasks[k].single = None
    <3>1. new[k] = trig[q][k] /\ flags[k] = OnTick(tasks[k])
      BY <2>3
    <3>2. new[k] \in EdgeData
      BY <1>2, <1>4, <3>1
    <3>3. OnTick(tasks[k]) \in BOOLEAN
      BY DEF OnTick
    <3>4. QED  BY <2>3, <3>1, <3>2, <3>3
  <2>4. CASE tasks[k].single # None
    <3>1. new[k] = [m |-> global[tasks[k].single], q |-> global[tasks[k].single] /\ ~trig[q][k].m] /\ flags[k] = new[k].q
      BY <2>4 DEF Triggered, R_TRIG_body
    <3> HIDE DEF new, flags
    <3>2. global[tasks[k].single] \in BOOLEAN /\ trig[q][k].m \in BOOLEAN
      BY <1>2, <1>4, <2>2, <2>4 DEF EdgeData
    <3>3. new[k] \in EdgeData /\ flags[k] = (global[tasks[k].single] /\ ~trig[q][k].m)
      BY <3>1, <3>2 DEF EdgeData
    <3>4. QED  BY <2>2, <2>4, <3>1, <3>3
  <2>5. QED  BY <2>3, <2>4
<1> HIDE DEF new, flags
<1>7. ScheduleTyped'
  <2>1. \A r \in DOMAIN Resources : \A k \in DOMAIN TasksIn(r) : trig'[r][k] \in EdgeData /\ due'[r][k] \in BOOLEAN
    BY <1>2, <1>5, <1>6
  <2>2. QED  BY <1>1, <1>2, <1>3, <1>4, <1>5, <2>1 DEF ScheduleTyped
<1>8. TicksCounted'
  BY <1>1, <1>2 DEF TicksCounted
<1>9. DueByTick'
  <2>1. \A k : OnTick(TasksIn(resource)[k])' <=> OnTick(tasks[k])
    BY <1>1, <1>3 DEF OnTick
  <2>2. \A k \in DOMAIN tasks : tasks[k].single = None => (due'[q][k] <=> OnTick(tasks[k]))
    BY <1>5, <1>6
  <2>3. QED  BY <1>1, <1>3, <2>1, <2>2 DEF DueByTick
<1>10. RanWhenDue'
  <2>1. ASSUME NEW x \in Programs
        PROVE  (Passed(x)' <=> Passed(x)) /\ (DueAt(x, ThisTick)' <=> DueAt(x, ThisTick))
    <3>1. x[2] \in Nat /\ x[2] > 0 /\ x[1] \in Nat
      BY <1>2, ProgramFacts
    <3>2. Passed(x)' <=> Passed(x)
      BY <1>1, <3>1 DEF Passed
    <3>3. DueAt(x, ThisTick)' <=> DueAt(x, ThisTick)
      BY <1>1, <1>3 DEF DueAt, ThisTick
    <3>4. QED  BY <3>2, <3>3
  <2>2. QED  BY <1>1, <1>2, <1>3, <2>1 DEF RanWhenDue
<1>11. ASSUME NEW x \in Programs, Trigger(x) # None
       PROVE  (EdgeSeen(x) /\ RisesCover(x) /\ MemoryServed(x))'
  <2> DEFINE g == Trigger(x)
             k == TaskOf(x)
             s == served[x]
             r == rises[g]
  <2>1. EdgeSeen(x) /\ RisesCover(x) /\ MemoryServed(x)
    BY <1>2, <1>11 DEF Triggers
  <2>2. /\ g \in Globals /\ k \in DOMAIN TasksIn(x[1]) /\ g = TasksIn(x[1])[k].single
        /\ x[1] \in DOMAIN Resources /\ x[1] \in Nat /\ x[1] > 0 /\ x[2] \in Nat /\ x[2] > 0
    BY <1>2, <1>11, ProgramFacts
  <2>3. global[g] \in BOOLEAN /\ Memory(x) \in BOOLEAN /\ due[x[1]][k] \in BOOLEAN
    BY <1>2, <2>2 DEF Memory, EdgeData
  <2>4. ~Waits(x)
    BY <1>1 DEF Waits, Ahead
  <2>5. s \in 0 .. 3 /\ r \in 0 .. 3
    BY <1>2, <2>2 DEF ScheduleTyped
  <2>6. CASE x[1] = q
    <3>1. Memory(x)' = global[g] /\ due'[x[1]][k] = (global[g] /\ ~Memory(x))
      <4>1. Memory(x) = trig[q][k].m /\ Memory(x)' = new[k].m /\ due'[x[1]][k] = flags[k]
        BY <1>3, <1>5, <2>6 DEF Memory
      <4>2. k \in DOMAIN tasks /\ tasks[k].single = g /\ g # None
        BY <1>11, <2>2, <2>6
      <4>3. new[k].m = global[g] /\ flags[k] = (global[g] /\ ~trig[q][k].m)
        <5> HIDE DEF tasks, q, g, k
        <5>1. new[k] = [m |-> global[g], q |-> global[g] /\ ~trig[q][k].m] /\ flags[k] = (global[g] /\ ~trig[q][k].m)
          BY <1>6, <4>2
        <5>2. QED  BY <5>1
      <4> HIDE DEF tasks, q, g, k
      <4>4. QED  BY <4>1, <4>3
    <3>2. (Waits(x))' <=> global[g] /\ ~Memory(x)
      <4>1. Ahead(x)'
        BY <1>1, <2>2, <2>6 DEF Ahead
      <4>2. (Waits(x))' <=> due'[x[1]][k]
        BY <1>3, <4>1 DEF Waits
      <4>3. QED  BY <3>1, <4>2
    <3>3. ~(Unseen(x)') /\ (Unseen(x) <=> global[g] /\ ~Memory(x))
      BY <1>1, <1>3, <3>1 DEF Unseen
    <3>4. One(Waits(x))' = One(Unseen(x)) /\ One(Unseen(x))' = 0 /\ One(Waits(x)) = 0 /\ One(Unseen(x)) \in {0, 1}
      BY <2>4, <3>2, <3>3 DEF One
    <3>5. RisesCover(x)'
      <4>1. r = 3 \/ s + 0 + One(Unseen(x)) <= r
        BY <2>1, <3>4 DEF RisesCover
      <4> DEFINE u == One(Unseen(x))
      <4> HIDE DEF u, s, r, g
      <4>2. r = 3 \/ s + u + 0 <= r
        BY <2>5, <3>4, <4>1 DEF u
      <4>3. QED  BY <1>1, <1>3, <3>4, <4>2 DEF RisesCover, u, s, r, g
    <3>6. MemoryServed(x)'
      BY <1>1, <2>1, <2>4, <3>1, <3>2 DEF MemoryServed
    <3>7. EdgeSeen(x)'
      BY <1>1, <1>3, <3>1 DEF EdgeSeen
    <3>8. QED  BY <3>5, <3>6, <3>7
  <2>7. CASE x[1] # q
    <3>1. Memory(x)' = Memory(x) /\ Unseen(x)' = Unseen(x)
      BY <1>1, <1>3, <1>5, <2>2, <2>7 DEF Memory, Unseen
    <3>2. ~(Waits(x)') /\ (Sampled(x)' <=> Sampled(x))
      BY <1>1, <1>2, <2>2, <2>7 DEF Waits, Ahead, Sampled
    <3>3. One(Waits(x))' = One(Waits(x)) /\ One(Unseen(x))' = One(Unseen(x))
      BY <2>4, <3>1, <3>2 DEF One
    <3>4. QED  BY <1>1, <1>3, <2>1, <2>4, <3>1, <3>2, <3>3 DEF EdgeSeen, RisesCover, MemoryServed
  <2>8. QED  BY <2>6, <2>7
<1>12. Triggers'
  BY <1>3, <1>11 DEF Triggers
<1>13. QED  BY <1>7, <1>8, <1>9, <1>10, <1>12 DEF ScheduleInv

(* A program that is let run or not by its task.                           *)
LEMMA TurnKeeps ==
    ASSUME ScheduleInv, resource > 0, program > 0, Advance, UNCHANGED <<conf, plan, host, due, trig>>,
           ran' = IF Released(<<resource, program>>) THEN ran \cup {<<resource, program>>} ELSE ran,
           global' \in [Globals -> BOOLEAN], moved' \subseteq Globals, rises' \in [Globals -> 0 .. 3],
           served' \in [Programs -> 0 .. 3]
    PROVE  ScheduleTyped' /\ TicksCounted' /\ DueByTick' /\ RanWhenDue'
<1> DEFINE y == <<resource, program>>
<1>1. /\ ScheduleTyped /\ TicksCounted /\ DueByTick /\ RanWhenDue /\ conf \in Configurations /\ plan.outcome = "runs"
      /\ plan = configuration_declaration(conf) /\ elapsed \in Nat /\ tick \in Nat /\ ran \subseteq Programs
  BY DEF ScheduleInv, ScheduleTyped
<1>2. /\ y \in Programs
      /\ resource' \in 0 .. Len(Resources) /\ program' \in Nat /\ elapsed' \in Nat /\ tick' \in Nat
      /\ resource' = 0 => program' = 0
      /\ resource' > 0 => program' <= Len(Resources[resource'].programs)
      /\ resource' > 0 /\ program' > 0 => resource' = resource /\ tick' = tick
      /\ IF resource' = 0 THEN tick' = NextTick /\ elapsed' = elapsed + 1 ELSE tick' = tick /\ elapsed' = elapsed
      /\ ThisTick' = ThisTick
      /\ resource' > 0 \/ elapsed' > 0
      /\ \A x \in Programs : Passed(x)' <=> Passed(x) \/ x = y
  BY <1>1, Turns
<1>3. /\ Resources' = Resources /\ Programs' = Programs /\ FirstIsTick' = FirstIsTick
      /\ \A x : TaskOf(x)' = TaskOf(x) /\ Trigger(x)' = Trigger(x) /\ TaskIs(x)' = TaskIs(x)
      /\ \A r : TasksIn(r)' = TasksIn(r)
  BY SameConfiguration DEF FirstIsTick
<1> HIDE DEF y
<1>4. ScheduleTyped'
  <2>1. ran' \subseteq Programs
    BY <1>1, <1>2 DEF y
  <2>2. resource' > 0 => program' <= Len(Resources[resource'].programs)
    BY <1>2
  <2>3. /\ DOMAIN trig' = DOMAIN Resources /\ DOMAIN due' = DOMAIN Resources
        /\ \A r \in DOMAIN Resources : \A k \in DOMAIN TasksIn(r) : trig'[r][k] \in EdgeData /\ due'[r][k] \in BOOLEAN
    BY <1>1 DEF ScheduleTyped
  <2>4. (plan').outcome = "runs" /\ plan' = configuration_declaration(conf') /\ host' \in {"plc.c", "wrapping"}
    BY <1>1 DEF ScheduleTyped
  <2>5. QED  BY <1>1, <1>2, <1>3, <2>1, <2>2, <2>3, <2>4 DEF ScheduleTyped
<1>5. TicksCounted'
  <2> DEFINE G == get_greatest_tick_count(plan)
  <2>1. G \in Nat
    <3>1. plan \in Plan /\ plan.period \in Pos
      BY <1>1, ConfigurationAssumption, TickDividesIntervals
    <3>2. 1 \in Pos /\ plan.period % 1 = 0
      BY <3>1 DEF Pos
    <3>3. QED  BY <3>1, <3>2, GreatestCount
  <2>2. PICK w \in Nat : elapsed = G * w + tick
    BY <1>1 DEF TicksCounted
  <2>3. host = "plc.c" => tick = elapsed
    BY <1>1 DEF TicksCounted
  <2>4. get_greatest_tick_count(plan)' = G
    BY DEF get_greatest_tick_count
  <2>5. NextTick = IF host = "wrapping" /\ tick + 1 = G THEN 0 ELSE tick + 1
    BY DEF NextTick
  <2> HIDE DEF G
  <2>6. G * w \in Nat /\ G * (w + 1) = G * w + G
    BY <2>1
  <2>7. CASE resource' # 0
    <3>1. tick' = tick /\ elapsed' = elapsed
      BY <1>2, <2>7
    <3>2. QED  BY <1>1, <2>2, <2>3, <2>4, <3>1 DEF TicksCounted
  <2>8. CASE resource' = 0 /\ host = "wrapping" /\ tick + 1 = G
    <3>1. tick' = 0 /\ elapsed' = elapsed + 1
      BY <1>2, <2>5, <2>8
    <3>2. elapsed' = G * (w + 1) + tick' /\ w + 1 \in Nat
      BY <1>1, <2>1, <2>2, <2>6, <2>8, <3>1
    <3>3. QED  BY <2>4, <2>8, <3>2 DEF TicksCounted
  <2>9. CASE resource' = 0 /\ ~(host = "wrapping" /\ tick + 1 = G)
    <3>1. tick' = tick + 1 /\ elapsed' = elapsed + 1
      BY <1>2, <2>5, <2>9
    <3>2. elapsed' = G * w + tick'
      BY <1>1, <2>2, <2>6, <3>1
    <3>3. host' = "plc.c" => tick' = elapsed'
      BY <2>3, <3>1
    <3>4. QED  BY <2>4, <3>2, <3>3 DEF TicksCounted
  <2>10. QED  BY <2>7, <2>8, <2>9
<1>6. DueByTick'
  <2>1. SUFFICES ASSUME resource' > 0, program' > 0 PROVE DueByTick'
    BY DEF DueByTick
  <2>2. resource' = resource /\ tick' = tick
    BY <1>2, <2>1
  <2>3. \A k : OnTick(TasksIn(resource)[k])' <=> OnTick(TasksIn(resource)[k])
    BY <1>3, <2>2 DEF OnTick
  <2>4. QED  BY <1>1, <1>3, <2>2, <2>3 DEF DueByTick
<1>7. RanWhenDue'
  <2>1. SUFFICES ASSUME host = "plc.c" \/ FirstIsTick, NEW x \in Programs, Trigger(x) = None
                 PROVE  x \in ran' <=> Passed(x)' /\ DueAt(x, ThisTick)'
    BY <1>3 DEF RanWhenDue
  <2>2. x \in ran <=> Passed(x) /\ DueAt(x, ThisTick)
    BY <1>1, <2>1 DEF RanWhenDue
  <2>3. DueAt(x, ThisTick)' <=> DueAt(x, ThisTick)
    BY <1>2, <1>3 DEF DueAt
  <2>4. Passed(x)' <=> Passed(x) \/ x = y
    BY <1>2
  <2>5. CASE x = y
    <3>1. x[1] = resource /\ x[2] = program /\ ThisTick = elapsed
      BY <2>5 DEF y, ThisTick
    <3>2. ~Passed(x)
      <4>1. resource \in Nat /\ program \in Nat
        BY <1>1 DEF ScheduleTyped
      <4>2. QED  BY <3>1, <4>1 DEF Passed
    <3>3. Released(x) <=> DueAt(x, ThisTick)
      <4>1. CASE TaskOf(x) = 0
        BY <4>1 DEF Released, DueAt
      <4>2. CASE TaskOf(x) # 0
        <5> DEFINE k == TaskOf(x)
        <5>1. /\ k \in DOMAIN TasksIn(resource) /\ TaskIs(x) = TasksIn(resource)[k]
              /\ TaskIs(x).single = None /\ resource \in DOMAIN Resources
          BY <1>1, <2>1, <3>1, <4>2, ProgramFacts
        <5>2. Released(x) <=> due[resource][k]
          BY <3>1, <4>2 DEF Released
        <5>3. due[resource][k] <=> OnTick(TaskIs(x))
          <6> HIDE DEF k
          <6>1. QED  BY <1>1, <5>1 DEF DueByTick
        <5>4. OnTick(TaskIs(x)) <=> TaskIs(x).interval = <<>> \/ (elapsed * plan.ticktime) % TimeOf(TaskIs(x)) = 0
          <6> HIDE DEF k
          <6>1. QED  BY <1>1, <2>1, <5>1, TickDecides
        <5>5. QED  BY <3>1, <4>2, <5>1, <5>2, <5>3, <5>4 DEF DueAt, AlwaysDue
      <4>3. QED  BY <4>1, <4>2
    <3>4. x \in ran' <=> x \in ran \/ Released(x)
      BY <2>5 DEF y
    <3>5. QED  BY <2>2, <2>3, <2>4, <2>5, <3>2, <3>3, <3>4
  <2>6. CASE x # y
    <3>1. x \in ran' <=> x \in ran
      BY <2>6 DEF y
    <3>2. QED  BY <2>2, <2>3, <2>4, <2>6, <3>1
  <2>7. QED  BY <2>5, <2>6
<1>8. QED  BY <1>4, <1>5, <1>6, <1>7

(* The turn of a trigger's program: it has been waited for, or it has not. *)
LEMMA TurnSeen ==
    ASSUME ScheduleInv, resource > 0, program > 0, Advance, UNCHANGED <<conf, plan, host, due, trig>>,
           NEW x \in Programs, Trigger(x) # None
    PROVE  /\ Trigger(x) \in Globals /\ Memory(x) \in BOOLEAN /\ Memory(x)' = Memory(x)
           /\ Trigger(x)' = Trigger(x) /\ x \in Programs'
           /\ Sampled(x)' => Sampled(x)
           /\ x # <<resource, program>> => (Waits(x)' <=> Waits(x))
           /\ x = <<resource, program>> => ~(Waits(x)') /\ (Waits(x) <=> Released(x))
           /\ EdgeSeen(x) /\ RisesCover(x) /\ MemoryServed(x)
<1>1. ScheduleTyped /\ Triggers /\ conf \in Configurations
  BY DEF ScheduleInv, ScheduleTyped
<1>2. /\ Trigger(x) \in Globals /\ TaskOf(x) # 0 /\ TaskOf(x) \in DOMAIN TasksIn(x[1])
      /\ x[1] \in DOMAIN Resources /\ x[2] \in Nat
  BY <1>1, ProgramFacts
<1>3. Memory(x) \in BOOLEAN
  BY <1>1, <1>2 DEF ScheduleTyped, Memory, EdgeData
<1>4. Programs' = Programs /\ TaskOf(x)' = TaskOf(x) /\ Trigger(x)' = Trigger(x)
  BY SameConfiguration
<1>5. Memory(x)' = Memory(x)
  BY <1>4 DEF Memory
<1>6. (Sampled(x)' => Sampled(x)) /\ (Ahead(x) <=> Ahead(x)' \/ x = <<resource, program>>)
  BY <1>1, Turns
<1>7. Waits(x)' <=> Ahead(x)' /\ due[x[1]][TaskOf(x)]
  BY <1>4 DEF Waits
<1>8. x = <<resource, program>> => ~(Ahead(x)') /\ Ahead(x)
  <2>1. SUFFICES ASSUME x = <<resource, program>> PROVE ~(Ahead(x)') /\ Ahead(x)
    OBVIOUS
  <2>2. x[1] = resource /\ x[2] = program /\ program \in Nat /\ resource \in Nat /\ Len(Resources) \in Nat
    <3>1. Len(Resources) \in Nat
      BY <1>1, ProgramFacts
    <3>2. QED  BY <1>1, <2>1, <3>1 DEF ScheduleTyped
  <2>3. Ahead(x)
    BY <1>6, <2>1
  <2>4. ~(Ahead(x)')
    BY <2>2 DEF Ahead, Advance
  <2>5. QED  BY <2>3, <2>4
<1>9. Released(x) <=> due[x[1]][TaskOf(x)]
  BY <1>2 DEF Released
<1>10. EdgeSeen(x) /\ RisesCover(x) /\ MemoryServed(x)
  BY <1>1 DEF Triggers
<1>11. x # <<resource, program>> => (Waits(x)' <=> Waits(x))
  BY <1>6, <1>7 DEF Waits
<1>12. x = <<resource, program>> => ~(Waits(x)') /\ (Waits(x) <=> Released(x))
  BY <1>7, <1>8, <1>9 DEF Waits
<1>13. QED  BY <1>2, <1>3, <1>4, <1>5, <1>6, <1>10, <1>11, <1>12

LEMMA SkipProgramKeeps == ScheduleInv /\ SkipProgram => ScheduleInv'
<1> SUFFICES ASSUME ScheduleInv, SkipProgram PROVE ScheduleInv'
  OBVIOUS
<1> DEFINE y == <<resource, program>>
<1>1. /\ resource > 0 /\ program > 0 /\ ~Released(y) /\ Advance
      /\ UNCHANGED <<conf, plan, host, due, trig, global, ran, moved, rises, served>>
  BY DEF SkipProgram
<1>2. /\ global \in [Globals -> BOOLEAN] /\ moved \subseteq Globals /\ rises \in [Globals -> 0 .. 3]
      /\ served \in [Programs -> 0 .. 3]
  BY DEF ScheduleInv, ScheduleTyped
<1>3. ScheduleTyped' /\ TicksCounted' /\ DueByTick' /\ RanWhenDue'
  BY <1>1, <1>2, TurnKeeps
<1>4. Programs' = Programs /\ \A x : Trigger(x)' = Trigger(x)
  BY <1>1, SameConfiguration
<1>5. ASSUME NEW x \in Programs, Trigger(x) # None
      PROVE  (EdgeSeen(x) /\ RisesCover(x) /\ MemoryServed(x))'
  <2>1. /\ Memory(x)' = Memory(x) /\ Trigger(x)' = Trigger(x) /\ (Sampled(x)' => Sampled(x))
        /\ x # y => (Waits(x)' <=> Waits(x))
        /\ x = y => ~(Waits(x)') /\ (Waits(x) <=> Released(x))
        /\ EdgeSeen(x) /\ RisesCover(x) /\ MemoryServed(x)
    BY <1>1, <1>5, TurnSeen
  <2>2. Waits(x)' <=> Waits(x)
    BY <1>1, <2>1
  <2>3. Unseen(x)' <=> Unseen(x)
    BY <1>1, <2>1 DEF Unseen
  <2>4. One(Waits(x))' = One(Waits(x)) /\ One(Unseen(x))' = One(Unseen(x))
    BY <2>2, <2>3 DEF One
  <2>5. QED  BY <1>1, <2>1, <2>2, <2>4 DEF EdgeSeen, RisesCover, MemoryServed
<1>6. Triggers'
  BY <1>4, <1>5 DEF Triggers
<1>7. QED  BY <1>3, <1>6 DEF ScheduleInv

LEMMA RunProgramKeeps == ScheduleInv /\ RunProgram => ScheduleInv'
<1> SUFFICES ASSUME ScheduleInv, RunProgram PROVE ScheduleInv'
  OBVIOUS
<1> DEFINE y == <<resource, program>>
<1>1. /\ resource > 0 /\ program > 0 /\ Released(y) /\ Advance /\ ran' = ran \cup {y}
      /\ served' = [served EXCEPT ![y] = Counted(@ + 1)]
      /\ UNCHANGED <<conf, plan, host, due, trig>>
  BY DEF RunProgram
<1>2. PICK new \in Values(Resources[resource].programs[program].writes) :
         global' = new /\ rises' = Rise(new, rises) /\ moved' = moved \cup {g \in Globals : new[g] # global[g]}
  BY DEF RunProgram
<1>3. /\ ScheduleTyped /\ global \in [Globals -> BOOLEAN] /\ moved \subseteq Globals /\ rises \in [Globals -> 0 .. 3]
      /\ served \in [Programs -> 0 .. 3] /\ new \in [Globals -> BOOLEAN] /\ y \in Programs
  BY <1>1, Turns DEF ScheduleInv, ScheduleTyped, Values
<1>4. /\ \A g \in Globals : rises'[g] = Counted(rises[g] + One(new[g] /\ ~global[g]))
      /\ rises' \in [Globals -> 0 .. 3]
  <2>1. \A g \in Globals : Rise(new, rises)[g] = Counted(rises[g] + One(new[g] /\ ~global[g]))
    BY <1>3, Rises
  <2>2. \A g \in Globals : Rise(new, rises)[g] \in 0 .. 3
    BY <1>3, <2>1 DEF Counted, One
  <2>3. Rise(new, rises) \in [Globals -> 0 .. 3]
    BY <2>2 DEF Rise
  <2>4. QED  BY <1>2, <2>1, <2>3
<1>5. /\ served' \in [Programs -> 0 .. 3] /\ served'[y] = Counted(served[y] + 1)
      /\ \A x \in Programs : x # y => served'[x] = served[x]
  <2> HIDE DEF y
  <2>1. Counted(served[y] + 1) \in 0 .. 3
    BY <1>3 DEF Counted
  <2>2. QED  BY <1>1, <1>3, <2>1
<1>6. global' \in [Globals -> BOOLEAN] /\ moved' \subseteq Globals
  BY <1>2, <1>3
<1>7. ScheduleTyped' /\ TicksCounted' /\ DueByTick' /\ RanWhenDue'
  BY <1>1, <1>4, <1>5, <1>6, TurnKeeps
<1>8. Programs' = Programs /\ \A x : Trigger(x)' = Trigger(x)
  BY <1>1, SameConfiguration
<1>9. ASSUME NEW x \in Programs, Trigger(x) # None
      PROVE  (EdgeSeen(x) /\ RisesCover(x) /\ MemoryServed(x))'
  <2> DEFINE g == Trigger(x)
             r == rises[g]
             s == served[x]
             w == One(Waits(x))
             u == One(Unseen(x))
             e == One(new[g] /\ ~global[g])
             t == served'[x]
             v == One(Waits(x)')
             z == One(Unseen(x)')
  <2>1. /\ Memory(x) \in BOOLEAN /\ Memory(x)' = Memory(x) /\ g \in Globals /\ Trigger(x)' = g
        /\ Sampled(x)' => Sampled(x)
        /\ x # y => (Waits(x)' <=> Waits(x))
        /\ x = y => ~(Waits(x)') /\ (Waits(x) <=> Released(x))
        /\ EdgeSeen(x) /\ RisesCover(x) /\ MemoryServed(x)
    BY <1>1, <1>9, TurnSeen
  <2>2. new[g] \in BOOLEAN /\ global[g] \in BOOLEAN /\ r \in 0 .. 3 /\ s \in 0 .. 3 /\ t \in 0 .. 3
    BY <1>3, <1>5, <2>1
  <2>3. w \in {0, 1} /\ u \in {0, 1} /\ e \in {0, 1} /\ v \in {0, 1} /\ z \in {0, 1}
    BY DEF One
  <2>4. t + v <= s + w /\ (x = y => t > 0)
    <3>1. CASE x = y
      <4>1. w = 1 /\ v = 0
        BY <1>1, <2>1, <3>1 DEF One
      <4>2. t = Counted(s + 1)
        BY <1>5, <3>1
      <4> HIDE DEF t, s, w, v
      <4>3. QED  BY <2>2, <4>1, <4>2 DEF Counted
    <3>2. CASE x # y
      <4>1. v = w /\ t = s
        BY <1>5, <2>1, <3>2 DEF One
      <4> HIDE DEF t, s, w, v
      <4>2. QED  BY <2>2, <2>3, <3>2, <4>1
    <3>3. QED  BY <3>1, <3>2
  <2>5. z <= u + e
    <3>1. Unseen(x)' <=> new[g] /\ ~Memory(x)
      BY <1>2, <2>1 DEF Unseen
    <3>2. Unseen(x) <=> global[g] /\ ~Memory(x)
      BY DEF Unseen
    <3>3. Unseen(x)' => Unseen(x) \/ (new[g] /\ ~global[g])
      BY <3>1, <3>2
    <3>4. QED  BY <3>3 DEF One
  <2>6. r = 3 \/ s + w + u <= r
    BY <2>1 DEF RisesCover
  <2>7. rises'[g] = Counted(r + e)
    BY <1>4, <2>1
  <2>8. RisesCover(x)'
    <3>1. Counted(r + e) = 3 \/ t + v + z <= Counted(r + e)
      <4> HIDE DEF r, s, w, u, e, t, v, z
      <4>1. QED  BY <2>2, <2>3, <2>4, <2>5, <2>6, CoverStays
    <3>2. One(Waits(x))' = v /\ One(Unseen(x))' = z
      BY DEF One
    <3>3. QED  BY <2>1, <2>7, <3>1, <3>2 DEF RisesCover
  <2>9. MemoryServed(x)'
    <3>1. CASE x = y
      BY <2>4, <3>1 DEF MemoryServed
    <3>2. CASE x # y
      BY <1>5, <2>1, <3>2 DEF MemoryServed
    <3>3. QED  BY <3>1, <3>2
  <2>10. EdgeSeen(x)'
    <3>1. SUFFICES ASSUME Sampled(x)', g \notin moved' PROVE Memory(x) <=> new[g]
      BY <1>2, <2>1 DEF EdgeSeen
    <3>2. new[g] = global[g] /\ g \notin moved
      BY <1>2, <2>1, <3>1
    <3>3. QED  BY <2>1, <3>1, <3>2 DEF EdgeSeen
  <2>11. QED  BY <2>8, <2>9, <2>10
<1>10. Triggers'
  BY <1>8, <1>9 DEF Triggers
<1>11. QED  BY <1>7, <1>10 DEF ScheduleInv

-----------------------------------------------------------------------------
LEMMA InvReleases == ScheduleInv => ReleasedInTime
<1> SUFFICES ASSUME ScheduleInv PROVE ReleasedInTime
  OBVIOUS
<1>1. ScheduleTyped /\ RanWhenDue /\ Triggers /\ conf \in Configurations /\ elapsed \in Nat
  BY DEF ScheduleInv, ScheduleTyped
<1>2. IntervalsKept
  <2>1. SUFFICES ASSUME resource = 0, elapsed > 0, host = "plc.c" \/ FirstIsTick, NEW x \in Programs, Trigger(x) = None
                 PROVE  x \in ran <=> \/ TaskOf(x) = 0 \/ AlwaysDue(TaskIs(x))
                                     \/ ((elapsed - 1) * plan.ticktime) % TimeOf(TaskIs(x)) = 0
    BY DEF IntervalsKept, TaskIs
  <2>2. x \in ran <=> Passed(x) /\ DueAt(x, ThisTick)
    BY <1>1, <2>1 DEF RanWhenDue
  <2>3. Passed(x) /\ ThisTick = elapsed - 1
    BY <2>1 DEF Passed, ThisTick
  <2>4. QED  BY <2>2, <2>3 DEF DueAt
<1>3. ASSUME NEW x \in Programs, Trigger(x) # None
      PROVE  /\ served[x] <= rises[Trigger(x)]
             /\ Trigger(x) \in Through(TRUE) => served[x] > 0
  <2>1. EdgeSeen(x) /\ RisesCover(x) /\ MemoryServed(x)
    BY <1>1, <1>3 DEF Triggers
  <2>2. Trigger(x) \in Globals /\ x[1] \in Nat /\ x[1] > 0
    BY <1>1, <1>3, ProgramFacts
  <2>3. served[x] \in 0 .. 3 /\ rises[Trigger(x)] \in 0 .. 3
    BY <1>1, <2>2 DEF ScheduleTyped
  <2>4. served[x] <= rises[Trigger(x)]
    <3>1. One(Waits(x)) \in {0, 1} /\ One(Unseen(x)) \in {0, 1}
      BY DEF One
    <3>2. QED  BY <2>1, <2>3, <3>1 DEF RisesCover
  <2>5. ASSUME Trigger(x) \in Through(TRUE) PROVE served[x] > 0
    <3>1. resource = 0 /\ elapsed > 0 /\ Trigger(x) \notin moved /\ global[Trigger(x)] = TRUE
      BY <2>5 DEF Through
    <3>2. Memory(x)
      BY <2>1, <3>1 DEF EdgeSeen, Sampled
    <3>3. ~Waits(x)
      BY <2>2, <3>1 DEF Waits, Ahead
    <3>4. QED  BY <2>1, <3>2, <3>3 DEF MemoryServed
  <2>6. QED  BY <2>4, <2>5
<1>4. QED  BY <1>2, <1>3 DEF ReleasedInTime, RisesServed

LEMMA ScheduleKept == ScheduleInv /\ [Next]_vars => ScheduleInv'
<1> SUFFICES ASSUME ScheduleInv, [Next]_vars PROVE ScheduleInv'
  OBVIOUS
<1>1. CASE UNCHANGED schedule
  BY <1>1, StutterKeeps
<1>2. CASE Generate \/ HostTick \/ RunTasks \/ RunProgram \/ SkipProgram
  BY <1>2, GenerateKeeps, HostTickKeeps, RunTasksKeeps, RunProgramKeeps, SkipProgramKeeps
<1>3. UNCHANGED schedule \/ Generate \/ HostTick \/ RunTasks \/ RunProgram \/ SkipProgram
  BY DEF vars, Next, BlockCall, FunctionCall, TaskStep
<1>4. QED  BY <1>1, <1>2, <1>3

(* In every tick exactly the programs run that are due by the INTERVAL of  *)
(* their task; the programs of a SINGLE task have run when its global was  *)
(* FALSE all through a tick and is TRUE all through a later one, and never *)
(* more often than it rose: for every configuration of resources, tasks    *)
(* and programs, all intervals, and whatever the host and the programs     *)
(* write.                                                                  *)
THEOREM ProgramsRunInTime == Spec => []ReleasedInTime
<1>1. Init => ScheduleInv
  BY ScheduleStarts DEF Init
<1>2. ScheduleInv /\ [Next]_vars => ScheduleInv'
  BY ScheduleKept
<1>3. ScheduleInv => ReleasedInTime
  BY InvReleases
<1>4. QED  BY <1>1, <1>2, <1>3, PTL DEF Spec

-----------------------------------------------------------------------------
(* The last call of a kind.                                                *)
IsLast(k, S) == k \in S \cup {0} /\ \A j \in S : j <= k

LEMMA LastExists ==
    ASSUME NEW n \in Nat, NEW S, S \subseteq 1 .. n
    PROVE  IsLast(LastOf(S), S) /\ LastOf(S) \in 0 .. n /\ \A k : IsLast(k, S) => LastOf(S) = k
<1> DEFINE R == {m \in Nat : \A T : T \subseteq 1 .. m => \E k : IsLast(k, T)}
<1>1. 0 \in R
  <2>1. ASSUME NEW T, T \subseteq 1 .. 0 PROVE IsLast(0, T)
    BY <2>1 DEF IsLast
  <2>2. QED  BY <2>1
<1>2. ASSUME NEW m \in Nat, m \in R PROVE m + 1 \in R
  <2>1. SUFFICES ASSUME NEW T, T \subseteq 1 .. m + 1 PROVE \E k : IsLast(k, T)
    OBVIOUS
  <2>2. CASE m + 1 \in T
    BY <2>1, <2>2 DEF IsLast
  <2>3. CASE m + 1 \notin T
    <3>1. T \subseteq 1 .. m
      BY <2>1, <2>3
    <3>2. QED  BY <1>2, <3>1
  <2>4. QED  BY <2>2, <2>3
<1>3. Nat \subseteq R
  <2> HIDE DEF R
  <2> QED  BY <1>1, <1>2, SetInduction
<1>4. PICK k : IsLast(k, S)
  BY <1>3
<1> HIDE DEF R
<1>5. IsLast(LastOf(S), S)
  BY <1>4 DEF IsLast, LastOf
<1>6. \A j : IsLast(j, S) => j \in Nat /\ j \in 0 .. n
  BY DEF IsLast
<1>7. \A j : IsLast(j, S) => LastOf(S) = j
  <2>1. SUFFICES ASSUME NEW j, IsLast(j, S) PROVE LastOf(S) = j
    OBVIOUS
  <2> DEFINE l == LastOf(S)
  <2>2. l \in Nat /\ j \in Nat /\ IsLast(l, S)
    BY <1>5, <1>6, <2>1
  <2> HIDE DEF l
  <2>3. l <= j /\ j <= l
    BY <2>1, <2>2 DEF IsLast
  <2>4. l = j
    BY <2>2, <2>3
  <2>5. QED  BY <2>4 DEF l
<1>8. QED  BY <1>5, <1>6, <1>7

LEMMA LastAdded ==
    ASSUME NEW n \in Nat, NEW S, S \subseteq 1 .. n
    PROVE  LastOf(S \cup {n + 1}) = n + 1 /\ LastOf(S) < n + 1 /\ LastOf(S) \in Nat
<1>1. S \cup {n + 1} \subseteq 1 .. n + 1 /\ n + 1 \in Nat
  OBVIOUS
<1>2. IsLast(n + 1, S \cup {n + 1})
  BY DEF IsLast
<1>3. LastOf(S \cup {n + 1}) = n + 1
  BY <1>1, <1>2, LastExists
<1>4. LastOf(S) \in 0 .. n
  BY LastExists
<1>5. QED  BY <1>3, <1>4

-----------------------------------------------------------------------------
(* HYSTERESIS and SEMA.                                                    *)
Tried(cs) == {k \in 1 .. Len(cs) : "eps" \in DOMAIN cs[k]}
Above(cs) == {k \in Tried(cs) : cs[k].xin1 - cs[k].xin2 > cs[k].eps}
Below(cs) == {k \in Tried(cs) : cs[k].xin2 - cs[k].xin1 > cs[k].eps}
Claimed(cs) == {k \in (1 .. Len(cs)) \ Tried(cs) : cs[k].claim}
LetGo(cs) == {k \in (1 .. Len(cs)) \ Tried(cs) : cs[k].release} \ Claimed(cs)
Compared == [xin1 : Int, xin2 : Int, eps : Int]
Requested == [claim : BOOLEAN, release : BOOLEAN]
SwitchInv ==
    family = "switches" =>
        /\ calls \in Seq(Compared \cup Requested) /\ hysteresis \in BOOLEAN /\ sema \in BOOLEAN
        /\ hysteresis <=> LastOf(Above(calls)) > LastOf(Below(calls))
        /\ sema <=> LastOf(Claimed(calls)) > LastOf(LetGo(calls))

LEMMA InvRemembers == SwitchInv => SwitchesRemember
BY DEF SwitchInv, SwitchesRemember, LastOf, Above, Below, Claimed, LetGo, Tried, N

LEMMA SwitchesStart == ControlInit => SwitchInv
<1> SUFFICES ASSUME ControlInit PROVE SwitchInv
  OBVIOUS
<1>1. calls = <<>> /\ hysteresis = FALSE /\ sema = FALSE
  BY DEF ControlInit, HYSTERESIS_init, SEMA_init
<1>2. Above(calls) = {} /\ Below(calls) = {} /\ Claimed(calls) = {} /\ LetGo(calls) = {}
  BY <1>1 DEF Above, Below, Claimed, LetGo, Tried
<1>3. LastOf({}) = 0
  BY LastExists DEF IsLast
<1>4. calls \in Seq(Compared \cup Requested)
  BY <1>1
<1>5. ~(LastOf(Above(calls)) > LastOf(Below(calls))) /\ ~(LastOf(Claimed(calls)) > LastOf(LetGo(calls)))
  BY <1>2, <1>3
<1>6. QED  BY <1>1, <1>4, <1>5 DEF SwitchInv

(* What one more call adds.                                                *)
LEMMA CallAdded ==
    ASSUME NEW cs \in Seq(Compared \cup Requested), NEW c \in Compared \cup Requested
    PROVE  LET n == Len(cs)
               ds == Append(cs, c)
           IN  /\ n \in Nat /\ ds \in Seq(Compared \cup Requested)
               /\ Above(cs) \subseteq 1 .. n /\ Below(cs) \subseteq 1 .. n
               /\ Claimed(cs) \subseteq 1 .. n /\ LetGo(cs) \subseteq 1 .. n
               /\ c \in Compared =>
                     /\ Above(ds) = IF c.xin1 - c.xin2 > c.eps THEN Above(cs) \cup {n + 1} ELSE Above(cs)
                     /\ Below(ds) = IF c.xin2 - c.xin1 > c.eps THEN Below(cs) \cup {n + 1} ELSE Below(cs)
                     /\ Claimed(ds) = Claimed(cs) /\ LetGo(ds) = LetGo(cs)
               /\ c \in Requested =>
                     /\ Above(ds) = Above(cs) /\ Below(ds) = Below(cs)
                     /\ Claimed(ds) = IF c.claim THEN Claimed(cs) \cup {n + 1} ELSE Claimed(cs)
                     /\ LetGo(ds) = IF c.release /\ ~c.claim THEN LetGo(cs) \cup {n + 1} ELSE LetGo(cs)
<1> DEFINE n == Len(cs)
           ds == Append(cs, c)
<1>1. /\ n \in Nat /\ ds \in Seq(Compared \cup Requested) /\ Len(ds) = n + 1 /\ ds[n + 1] = c
      /\ \A k \in 1 .. n : ds[k] = cs[k]
  OBVIOUS
<1>2. 1 .. n + 1 = (1 .. n) \cup {n + 1} /\ n + 1 \notin 1 .. n
  BY <1>1
<1>3. Tried(cs) \subseteq 1 .. n
  BY DEF Tried
<1>4. Above(cs) \subseteq 1 .. n /\ Below(cs) \subseteq 1 .. n /\ Claimed(cs) \subseteq 1 .. n /\ LetGo(cs) \subseteq 1 .. n
  BY <1>3 DEF Above, Below, Claimed, LetGo
<1> HIDE DEF n, ds
<1>5. CASE c \in Compared
  <2>1. "eps" \in DOMAIN c
    BY <1>5 DEF Compared
  <2>2. Tried(ds) = Tried(cs) \cup {n + 1}
    BY <1>1, <1>2, <2>1 DEF Tried, n
  <2>3. (1 .. n + 1) \ Tried(ds) = (1 .. n) \ Tried(cs)
    BY <1>2, <1>3, <2>2
  <2>4. Claimed(ds) = Claimed(cs) /\ LetGo(ds) = LetGo(cs)
    BY <1>1, <2>3 DEF Claimed, LetGo, n
  <2>5. Above(ds) = IF c.xin1 - c.xin2 > c.eps THEN Above(cs) \cup {n + 1} ELSE Above(cs)
    BY <1>1, <1>3, <2>2 DEF Above
  <2>6. Below(ds) = IF c.xin2 - c.xin1 > c.eps THEN Below(cs) \cup {n + 1} ELSE Below(cs)
    BY <1>1, <1>3, <2>2 DEF Below
  <2>7. c \notin Requested
    <3>1. \A d \in Requested : "eps" \notin DOMAIN d
      BY DEF Requested
    <3>2. QED  BY <2>1, <3>1
  <2>8. QED  BY <1>1, <1>4, <2>4, <2>5, <2>6, <2>7 DEF n, ds
<1>6. CASE c \in Requested
  <2>1. "eps" \notin DOMAIN c
    BY <1>6 DEF Requested
  <2>2. Tried(ds) = Tried(cs)
    BY <1>1, <1>2, <2>1 DEF Tried, n
  <2>3. (1 .. n + 1) \ Tried(ds) = ((1 .. n) \ Tried(cs)) \cup {n + 1}
    BY <1>2, <1>3, <2>2
  <2>4. Above(ds) = Above(cs) /\ Below(ds) = Below(cs)
    BY <1>1, <1>3, <2>2 DEF Above, Below
  <2>5. Claimed(ds) = IF c.claim THEN Claimed(cs) \cup {n + 1} ELSE Claimed(cs)
    BY <1>1, <2>3 DEF Claimed, n
  <2>6. LetGo(ds) = IF c.release /\ ~c.claim THEN LetGo(cs) \cup {n + 1} ELSE LetGo(cs)
    BY <1>1, <1>2, <1>4, <2>3, <2>5 DEF LetGo, n
  <2>7. c \notin Compared
    <3>1. \A d \in Compared : "eps" \in DOMAIN d
      BY DEF Compared
    <3>2. QED  BY <2>1, <3>1
  <2>8. QED  BY <1>1, <1>4, <2>4, <2>5, <2>6, <2>7 DEF n, ds
<1>7. QED  BY <1>5, <1>6

LEMMA SwitchesKept == SwitchInv /\ [Next]_vars => SwitchInv'
<1> SUFFICES ASSUME SwitchInv, [Next]_vars, family' = "switches" PROVE SwitchInv'
  BY DEF SwitchInv
<1>1. family = "switches"
  BY DEF Next, vars
<1>2. /\ calls \in Seq(Compared \cup Requested) /\ hysteresis \in BOOLEAN /\ sema \in BOOLEAN
      /\ hysteresis <=> LastOf(Above(calls)) > LastOf(Below(calls))
      /\ sema <=> LastOf(Claimed(calls)) > LastOf(LetGo(calls))
  BY <1>1 DEF SwitchInv
<1>3. \/ UNCHANGED controls
      \/ \E xin1 \in Levels, eps \in Bands : HYSTERESIS_body(xin1, 0, eps)
      \/ \E claim, release \in BOOLEAN : SEMA_body(claim, release)
  <2>1. CASE UNCHANGED vars
    BY <2>1 DEF vars
  <2>2. CASE BlockCall
    <3>1. \E en \in Enables : UNCHANGED controls \/ SwitchNext(en)
      BY <1>1, <2>2 DEF BlockCall
    <3>2. QED  BY <3>1 DEF SwitchNext, HYSTERESIS, SEMA
  <2>3. CASE FunctionCall \/ TaskStep
    BY <2>3 DEF FunctionCall, TaskStep
  <2>4. QED  BY <2>1, <2>2, <2>3 DEF Next
<1>4. CASE UNCHANGED controls
  BY <1>1, <1>2, <1>4 DEF controls, SwitchInv
<1>5. ASSUME NEW xin1 \in Levels, NEW eps \in Bands, HYSTERESIS_body(xin1, 0, eps)
      PROVE  SwitchInv'
  <2> DEFINE c == [xin1 |-> xin1, xin2 |-> 0, eps |-> eps]
             n == Len(calls)
  <2>1. /\ calls' = Append(calls, c) /\ sema' = sema
        /\ hysteresis' = IF hysteresis THEN ~(xin1 < 0 - eps) ELSE xin1 > 0 + eps
    BY <1>5 DEF HYSTERESIS_body, Record
  <2>2. xin1 \in Int /\ eps \in Nat
    BY ControlAssumption
  <2>3. c \in Compared /\ c.xin1 = xin1 /\ c.xin2 = 0 /\ c.eps = eps
    BY <2>2 DEF Compared
  <2> HIDE DEF c
  <2>4. /\ n \in Nat /\ calls' \in Seq(Compared \cup Requested)
        /\ Above(calls) \subseteq 1 .. n /\ Below(calls) \subseteq 1 .. n
        /\ Above(calls') = IF xin1 - 0 > eps THEN Above(calls) \cup {n + 1} ELSE Above(calls)
        /\ Below(calls') = IF 0 - xin1 > eps THEN Below(calls) \cup {n + 1} ELSE Below(calls)
        /\ Claimed(calls') = Claimed(calls) /\ LetGo(calls') = LetGo(calls)
    BY <1>2, <2>1, <2>3, CallAdded
  <2>5. /\ LastOf(Above(calls) \cup {n + 1}) = n + 1 /\ LastOf(Above(calls)) < n + 1
        /\ LastOf(Below(calls) \cup {n + 1}) = n + 1 /\ LastOf(Below(calls)) < n + 1
        /\ LastOf(Above(calls)) \in Nat /\ LastOf(Below(calls)) \in Nat
    BY <2>4, LastAdded
  <2> HIDE DEF n
  <2>6. /\ hysteresis' \in BOOLEAN
        /\ hysteresis => (hysteresis' <=> ~(xin1 < 0 - eps))
        /\ ~hysteresis => (hysteresis' <=> xin1 > eps)
    <3> DEFINE low == xin1 < 0 - eps
               high == xin1 > 0 + eps
    <3>1. high \in BOOLEAN /\ low \in BOOLEAN /\ (high <=> xin1 > eps)
      BY <2>2
    <3>2. hysteresis' = IF hysteresis THEN ~low ELSE high
      BY <2>1
    <3> HIDE DEF low, high
    <3>3. /\ hysteresis' \in BOOLEAN
          /\ hysteresis => (hysteresis' <=> ~low)
          /\ ~hysteresis => (hysteresis' <=> high)
      BY <3>1, <3>2, Zenon
    <3>4. QED  BY <3>1, <3>3 DEF low
  <2>7. hysteresis' <=> LastOf(Above(calls')) > LastOf(Below(calls'))
    <3>1. CASE xin1 > eps
      BY <2>2, <2>4, <2>5, <2>6, <3>1
    <3>2. CASE xin1 < 0 - eps
      BY <2>2, <2>4, <2>5, <2>6, <3>2
    <3>3. CASE ~(xin1 > eps) /\ ~(xin1 < 0 - eps)
      <4>1. Above(calls') = Above(calls) /\ Below(calls') = Below(calls)
        BY <2>2, <2>4, <3>3
      <4>2. hysteresis' <=> hysteresis
        BY <2>6, <3>3
      <4>3. QED  BY <1>2, <4>1, <4>2
    <3>4. QED  BY <3>1, <3>2, <3>3
  <2>8. QED  BY <1>2, <2>1, <2>4, <2>6, <2>7 DEF SwitchInv, Above, Below, Claimed, LetGo
<1>6. ASSUME NEW claim \in BOOLEAN, NEW release \in BOOLEAN, SEMA_body(claim, release)
      PROVE  SwitchInv'
  <2> DEFINE c == [claim |-> claim, release |-> release]
             n == Len(calls)
  <2>1. calls' = Append(calls, c) /\ hysteresis' = hysteresis /\ sema' = (claim \/ (sema /\ ~release))
    BY <1>6 DEF SEMA_body, Record
  <2>2. c \in Requested /\ c.claim = claim /\ c.release = release
    BY DEF Requested
  <2> HIDE DEF c
  <2>3. /\ n \in Nat /\ calls' \in Seq(Compared \cup Requested)
        /\ Claimed(calls) \subseteq 1 .. n /\ LetGo(calls) \subseteq 1 .. n
        /\ Above(calls') = Above(calls) /\ Below(calls') = Below(calls)
        /\ Claimed(calls') = IF claim THEN Claimed(calls) \cup {n + 1} ELSE Claimed(calls)
        /\ LetGo(calls') = IF release /\ ~claim THEN LetGo(calls) \cup {n + 1} ELSE LetGo(calls)
    BY <1>2, <2>1, <2>2, CallAdded
  <2>4. /\ LastOf(Claimed(calls) \cup {n + 1}) = n + 1 /\ LastOf(Claimed(calls)) < n + 1
        /\ LastOf(LetGo(calls) \cup {n + 1}) = n + 1 /\ LastOf(LetGo(calls)) < n + 1
        /\ LastOf(Claimed(calls)) \in Nat /\ LastOf(LetGo(calls)) \in Nat
    BY <2>3, LastAdded
  <2> HIDE DEF n
  <2>5. sema' <=> LastOf(Claimed(calls')) > LastOf(LetGo(calls'))
    <3>1. CASE claim
      BY <2>1, <2>3, <2>4, <3>1
    <3>2. CASE ~claim /\ release
      BY <2>1, <2>3, <2>4, <3>2
    <3>3. CASE ~claim /\ ~release
      BY <1>2, <2>1, <2>3, <3>3
    <3>4. QED  BY <3>1, <3>2, <3>3
  <2>6. sema' \in BOOLEAN
    BY <1>2, <2>1
  <2>7. QED  BY <1>2, <2>1, <2>3, <2>5, <2>6 DEF SwitchInv, Above, Below, Claimed, LetGo
<1>7. QED  BY <1>3, <1>4, <1>5, <1>6

(* HYSTERESIS answers by the last input that lay outside its band, and     *)
(* SEMA is busy from a claim until a release that comes without one, for   *)
(* any inputs, any bands and calls in any order.                           *)
THEOREM SwitchesAlwaysRemember == Spec => []SwitchesRemember
<1>1. Init => SwitchInv
  BY SwitchesStart DEF Init
<1>2. SwitchInv /\ [Next]_vars => SwitchInv'
  BY SwitchesKept
<1>3. SwitchInv => SwitchesRemember
  BY InvRemembers
<1>4. QED  BY <1>1, <1>2, <1>3, PTL DEF Spec

-----------------------------------------------------------------------------
(* Exact fractions.                                                        *)
LEMMA Smallest ==
    ASSUME NEW S, S \subseteq Nat, NEW m \in S
    PROVE  \E k \in S : \A j \in S : k <= j
<1> DEFINE R == OpToRel(<, Nat)
<1>1. IsWellFoundedOn(R, Nat)
  BY NatLessThanWellFounded
<1>2. \A x, y \in Nat : x < y => <<x, y>> \in R
  BY DEF OpToRel
<1> HIDE DEF R
<1>3. PICK k \in S : \A j \in S : ~(<<j, k>> \in R)
  BY <1>1, WFMin
<1>4. ASSUME NEW j \in S PROVE k <= j
  <2>1. j \in Nat /\ k \in Nat /\ ~(j < k)
    BY <1>2, <1>3
  <2>2. QED  BY <2>1
<1>5. QED  BY <1>4

LEMMA NoMultipleBelow ==
    ASSUME NEW d \in Nat \ {0}, NEW t \in Int, NEW r \in Nat, r < d, d * t = r
    PROVE  t = 0 /\ r = 0
<1>1. CASE t >= 1
  <2>1. d * t >= d
    BY <1>1
  <2>2. QED  BY <2>1
<1>2. CASE t <= -1
  <2>1. d * (-t) >= d /\ d * (-t) = -(d * t)
    BY <1>2
  <2>2. QED  BY <2>1
<1>3. QED  BY <1>1, <1>2

LEMMA DivisionInt ==
    ASSUME NEW n \in Int, NEW d \in Nat \ {0}
    PROVE  n \div d \in Int /\ n % d \in Nat /\ n % d < d /\ n = d * (n \div d) + (n % d)
OBVIOUS

LEMMA MultipleInt ==
    ASSUME NEW d \in Nat \ {0}, NEW q \in Int
    PROVE  (d * q) % d = 0 /\ (d * q) \div d = q
<1> DEFINE n == d * q
           p == n \div d
           r == n % d
<1>1. n \in Int
  OBVIOUS
<1>2. p \in Int /\ r \in Nat /\ r < d /\ n = d * p + r
  <2> HIDE DEF n
  <2> QED  BY <1>1, DivisionInt
<1>3. d * (q - p) = r
  <2> n = d * q
    OBVIOUS
  <2> HIDE DEF n, p, r
  <2> QED  BY <1>2
<1> HIDE DEF p, r
<1>4. q - p = 0 /\ r = 0
  BY <1>2, <1>3, NoMultipleBelow
<1>5. QED  BY <1>2, <1>4 DEF p, r

LEMMA WholeMeans ==
    ASSUME NEW n \in Int, NEW d \in Nat \ {0}, NEW k \in Int
    PROVE  /\ WholeOf(n, d, k) <=> \E q \in Int : k * n = d * q
           /\ WholeOf(n, d, k) => (k * n) \div d \in Int /\ k * n = d * ((k * n) \div d)
<1> DEFINE m == k * n
<1>1. m \in Int
  OBVIOUS
<1>2. WholeOf(n, d, k) <=> m % d = 0
  BY DEF WholeOf
<1> HIDE DEF m
<1>3. m \div d \in Int /\ m % d \in Nat /\ m = d * (m \div d) + (m % d)
  BY <1>1, DivisionInt
<1>4. m % d = 0 => m = d * (m \div d)
  BY <1>1, <1>3
<1>5. ASSUME NEW q \in Int, m = d * q PROVE m % d = 0
  BY <1>5, MultipleInt
<1>6. QED  BY <1>2, <1>3, <1>4, <1>5 DEF m

LEMMA WholeIf ==
    ASSUME NEW n \in Int, NEW d \in Nat \ {0}, NEW k \in Int, NEW q \in Int, k * n = d * q
    PROVE  WholeOf(n, d, k)
BY WholeMeans

LEMMA WholeThen ==
    ASSUME NEW n \in Int, NEW d \in Nat \ {0}, NEW k \in Int, WholeOf(n, d, k)
    PROVE  (k * n) \div d \in Int /\ k * n = d * ((k * n) \div d)
BY WholeMeans

IsLeast(n, d, k) ==
    k \in Pos /\ WholeOf(n, d, k) /\ \A j \in Pos : j < k => ~WholeOf(n, d, j)

LEMMA LeastFrom ==
    ASSUME NEW n \in Int, NEW d \in Pos, NEW k \in Pos
    PROVE  \E j \in Pos : /\ j >= k /\ WholeOf(n, d, j)
                          /\ \A i \in Pos : i >= k /\ WholeOf(n, d, i) => j <= i
<1> DEFINE S == {j \in Pos : j >= k /\ WholeOf(n, d, j)}
<1>1. d * k \in Pos /\ d * k >= k
  BY DEF Pos
<1>2. WholeOf(n, d, d * k)
  <2> DEFINE q == k * n
             m == d * k
  <2>1. m * n = d * q /\ q \in Int /\ m \in Int /\ d \in Nat \ {0}
    BY DEF Pos
  <2> HIDE DEF q, m
  <2>2. WholeOf(n, d, m)
    BY <2>1, WholeMeans
  <2>3. QED  BY <2>2 DEF m
<1>3. d * k \in S /\ S \subseteq Nat
  BY <1>1, <1>2 DEF Pos
<1>4. PICK j \in S : \A i \in S : j <= i
  <2> HIDE DEF S
  <2> QED  BY <1>3, Smallest
<1>5. QED  BY <1>4

LEMMA DenominatorLeast ==
    ASSUME NEW n \in Int, NEW d \in Pos
    PROVE  IsLeast(n, d, Denominator(n, d))
<1> DEFINE W(k) == WholeOf(n, d, k)
           F(f) == [k \in Pos |-> IF W(k) THEN k ELSE f[k + 1]]
           Next1(k, j) == j \in Pos /\ j >= k /\ W(j) /\ \A i \in Pos : i >= k /\ W(i) => j <= i
           g == [k \in Pos |-> CHOOSE j : Next1(k, j)]
           from == CHOOSE f : f = F(f)
<1>1. \A k \in Pos : Next1(k, g[k])
  <2>1. ASSUME NEW k \in Pos PROVE Next1(k, CHOOSE j : Next1(k, j))
    <3>1. \E j : Next1(k, j)
      BY LeastFrom
    <3> HIDE DEF Next1
    <3>2. QED  BY <3>1
  <2>2. QED  BY <2>1
<1>2. \A k \in Pos : g[k] = IF W(k) THEN k ELSE g[k + 1]
  <2> SUFFICES ASSUME NEW k \in Pos PROVE g[k] = IF W(k) THEN k ELSE g[k + 1]
    OBVIOUS
  <2> HIDE DEF g, W
  <2>1. k \in Nat /\ k + 1 \in Pos /\ Next1(k, g[k]) /\ Next1(k + 1, g[k + 1])
    <3>1. k \in Nat /\ k + 1 \in Pos
      BY DEF Pos
    <3> HIDE DEF Next1
    <3>2. QED  BY <1>1, <3>1
  <2>2. g[k] \in Nat /\ g[k + 1] \in Nat
    BY <2>1 DEF Pos
  <2>3. CASE W(k)
    <3>1. g[k] <= k /\ g[k] >= k
      BY <2>1, <2>3
    <3>2. QED  BY <2>1, <2>2, <2>3, <3>1
  <2>4. CASE ~W(k)
    <3>1. g[k] # k /\ g[k] >= k
      BY <2>1, <2>4
    <3>2. g[k] >= k + 1
      BY <2>1, <2>2, <3>1
    <3>3. g[k + 1] <= g[k] /\ g[k] <= g[k + 1]
      BY <2>1, <2>2, <3>2
    <3>4. QED  BY <2>2, <2>4, <3>3
  <2>5. QED  BY <2>3, <2>4
<1>3. g = F(g)
  <2>1. g = [k \in Pos |-> g[k]]
    OBVIOUS
  <2> HIDE DEF g, W
  <2>2. QED  BY <1>2, <2>1
<1>4. from = F(from)
  <2> HIDE DEF g, F
  <2> QED  BY <1>3
<1>5. Denominator(n, d) = from[1]
  BY DEF Denominator, Pos
<1>6. \A k \in Pos : from[k] = IF W(k) THEN k ELSE from[k + 1]
  <2> HIDE DEF from, W
  <2> QED  BY <1>4
<1>7. PICK l \in Pos : Next1(1, l)
  <2>1. 1 \in Pos
    BY DEF Pos
  <2>2. QED  BY <2>1, LeastFrom
<1>8. IsLeast(n, d, l)
  BY <1>7 DEF IsLeast, Pos
<1>9. from[1] = l
  <2> HIDE DEF from
  <2> DEFINE S == {m \in Nat : m < l => from[l - m] = l}
  <2>1. 0 \in S
    BY <1>6, <1>7 DEF Pos
  <2>2. ASSUME NEW m \in Nat, m \in S PROVE m + 1 \in S
    <3>1. SUFFICES ASSUME m + 1 < l PROVE from[l - (m + 1)] = l
      OBVIOUS
    <3>2. l - (m + 1) \in Pos /\ (l - (m + 1)) + 1 = l - m /\ l - (m + 1) < l /\ m < l
      BY <3>1 DEF Pos
    <3>3. ~W(l - (m + 1))
      BY <1>8, <3>2 DEF IsLeast
    <3>4. from[l - m] = l
      BY <2>2, <3>2
    <3> HIDE DEF W
    <3>5. QED  BY <1>6, <3>2, <3>3, <3>4
  <2>3. Nat \subseteq S
    <3> HIDE DEF S
    <3> QED  BY <2>1, <2>2, SetInduction
  <2>4. l - 1 \in Nat /\ l - 1 < l /\ l - (l - 1) = 1
    BY DEF Pos
  <2>5. QED  BY <2>3, <2>4
<1>10. QED  BY <1>5, <1>8, <1>9

LEMMA CancelFactor ==
    ASSUME NEW a \in Int, NEW b \in Int, NEW d \in Int \ {0}, a * d = b * d
    PROVE  a = b
<1>1. (a - b) * d = 0
  OBVIOUS
<1> DEFINE c == a - b
<1>2. c \in Int /\ c * d = 0
  BY <1>1
<1> HIDE DEF c
<1>3. c = 0
  BY <1>2
<1>4. QED  BY <1>3 DEF c

LEMMA RealParts == ASSUME NEW x \in Real PROVE x[1] \in Int /\ x[2] \in Pos /\ x = <<x[1], x[2]>>
BY DEF Real, Pos

LEMMA LeastTermsOf ==
    ASSUME NEW n \in Int, NEW d \in Pos
    PROVE  LeastTerms(n, d) \in Real /\ LeastTerms(n, d)[1] * d = n * LeastTerms(n, d)[2]
<1> DEFINE k == Denominator(n, d)
           p == (k * n) \div d
<1>1. k \in Pos /\ WholeOf(n, d, k) /\ \A j \in Pos : j < k => ~WholeOf(n, d, j)
  BY DenominatorLeast DEF IsLeast
<1>2. p \in Int /\ k * n = d * p
  <2>1. d \in Nat \ {0} /\ k \in Int
    BY <1>1 DEF Pos
  <2> HIDE DEF k
  <2>2. QED  BY <1>1, <2>1, WholeThen
<1>3. LeastTerms(n, d) = <<p, k>>
  BY DEF LeastTerms
<1> HIDE DEF k, p
<1>4. ASSUME NEW j \in 1 .. k - 1, WholeOf(p, k, j) PROVE FALSE
  <2>1. j \in Pos /\ j < k
    BY <1>1 DEF Pos
  <2> DEFINE q == (j * p) \div k
  <2>2. q \in Int /\ j * p = k * q
    <3>1. p \in Int /\ k \in Nat \ {0} /\ j \in Int
      BY <1>1, <1>2, <2>1 DEF Pos
    <3>2. QED  BY <1>4, <3>1, WholeThen
  <2> HIDE DEF q
  <2>3. (j * n) * k = (d * q) * k
    <3>1. (j * n) * k = j * (k * n) /\ (d * q) * k = d * (k * q)
      BY <1>1, <2>1, <2>2 DEF Pos
    <3>2. j * (d * p) = d * (j * p)
      BY <1>2, <2>1 DEF Pos
    <3>3. QED  BY <1>2, <2>2, <3>1, <3>2
  <2> DEFINE a == j * n
             b == d * q
  <2>4. a \in Int /\ b \in Int /\ k \in Int \ {0}
    BY <1>1, <2>1, <2>2 DEF Pos
  <2>5. a * k = b * k
    BY <2>3
  <2> HIDE DEF a, b
  <2>6. a = b
    BY <2>4, <2>5, CancelFactor
  <2>7. WholeOf(n, d, j)
    <3>1. j * n = d * q
      BY <2>6 DEF a, b
    <3>2. d \in Nat \ {0} /\ j \in Int
      BY <2>1 DEF Pos
    <3>3. QED  BY <2>2, <3>1, <3>2, WholeIf
  <2>8. QED  BY <1>1, <2>1, <2>7
<1>5. <<p, k>> \in Real
  BY <1>1, <1>2, <1>4 DEF Real, Pos
<1>6. p * d = n * k
  BY <1>1, <1>2 DEF Pos
<1>7. QED  BY <1>3, <1>5, <1>6

(* A fraction has one form.                                                *)
LEMMA NotBelow ==
    ASSUME NEW x \in Real, NEW y \in Real, x[1] * y[2] = y[1] * x[2]
    PROVE  ~(y[2] < x[2])
<1>1. x[1] \in Int /\ x[2] \in Pos /\ y[1] \in Int /\ y[2] \in Pos
  BY RealParts
<1>2. SUFFICES ASSUME y[2] < x[2] PROVE FALSE
  OBVIOUS
<1>3. y[2] * x[1] = x[2] * y[1]
  BY <1>1 DEF Pos
<1>4. WholeOf(x[1], x[2], y[2])
  <2> DEFINE a == x[1]
             b == x[2]
             c == y[1]
             f == y[2]
  <2>1. a \in Int /\ b \in Nat \ {0} /\ c \in Int /\ f \in Int /\ f * a = b * c
    BY <1>1, <1>3 DEF Pos
  <2> HIDE DEF a, b, c, f
  <2>2. WholeOf(a, b, f)
    BY <2>1, WholeIf
  <2>3. QED  BY <2>2 DEF a, b, f
<1>5. y[2] \in 1 .. x[2] - 1
  BY <1>1, <1>2 DEF Pos
<1>6. QED  BY <1>4, <1>5 DEF Real

LEMMA SameReal ==
    ASSUME NEW x \in Real, NEW y \in Real, x[1] * y[2] = y[1] * x[2]
    PROVE  x = y
<1>1. x[1] \in Int /\ x[2] \in Pos /\ y[1] \in Int /\ y[2] \in Pos /\ x = <<x[1], x[2]>> /\ y = <<y[1], y[2]>>
  BY RealParts
<1>2. ~(y[2] < x[2]) /\ ~(x[2] < y[2])
  BY NotBelow
<1>3. x[2] = y[2]
  BY <1>1, <1>2 DEF Pos
<1>4. x[1] = y[1]
  BY <1>1, <1>3, CancelFactor DEF Pos
<1>5. QED  BY <1>1, <1>3, <1>4

(* x is the fraction n / d.                                                *)
Is(x, n, d) == x \in Real /\ n \in Int /\ d \in Int \ {0} /\ x[1] * d = n * x[2]

LEMMA IsFrac == ASSUME NEW n \in Int, NEW d \in Int \ {0} PROVE Is(Frac(n, d), n, d)
<1>1. CASE d > 0
  BY <1>1, LeastTermsOf DEF Is, Frac, Pos
<1>2. CASE d < 0
  <2>1. -n \in Int /\ -d \in Pos
    BY <1>2 DEF Pos
  <2> DEFINE x == LeastTerms(-n, -d)
  <2>2. x \in Real /\ x[1] * (-d) = (-n) * x[2]
    BY <2>1, LeastTermsOf
  <2>3. Frac(n, d) = x
    BY <1>2 DEF Frac
  <2> HIDE DEF x
  <2>4. x[1] * d = n * x[2]
    BY <2>2, RealParts DEF Pos
  <2>5. QED  BY <2>2, <2>3, <2>4 DEF Is
<1>3. QED  BY <1>1, <1>2

LEMMA IsItself == ASSUME NEW x \in Real PROVE Is(x, x[1], x[2])
BY RealParts DEF Is, Pos

LEMMA IsEqual ==
    ASSUME NEW x, NEW y, NEW n, NEW d, NEW m, NEW e, Is(x, n, d), Is(y, m, e), n * e = m * d
    PROVE  x = y
<1> DEFINE a == x[1]
           b == x[2]
           c == y[1]
           f == y[2]
<1>1. /\ x \in Real /\ y \in Real /\ a \in Int /\ b \in Int /\ c \in Int /\ f \in Int
      /\ n \in Int /\ d \in Int \ {0} /\ m \in Int /\ e \in Int \ {0}
      /\ a * d = n * b /\ c * e = m * f
  BY RealParts DEF Is, Pos
<1> HIDE DEF a, b, c, f
<1>2. (a * f) * (d * e) = (c * b) * (d * e)
  <2>1. (a * f) * (d * e) = (a * d) * (f * e)
    BY <1>1
  <2>2. (n * b) * (f * e) = (n * e) * (b * f)
    BY <1>1
  <2>3. (m * d) * (b * f) = (m * f) * (d * b)
    BY <1>1
  <2>4. (c * e) * (d * b) = (c * b) * (d * e)
    BY <1>1
  <2>5. QED  BY <1>1, <2>1, <2>2, <2>3, <2>4
<1>3. a * f \in Int /\ c * b \in Int /\ d * e \in Int \ {0}
  BY <1>1
<1>4. a * f = c * b
  <2> DEFINE g == a * f
             h == c * b
             k == d * e
  <2>1. g \in Int /\ h \in Int /\ k \in Int \ {0} /\ g * k = h * k
    BY <1>2, <1>3
  <2> HIDE DEF g, h, k
  <2>2. g = h
    BY <2>1, CancelFactor
  <2>3. QED  BY <2>2 DEF g, h
<1>5. QED  BY <1>1, <1>4, SameReal DEF a, b, c, f

LEMMA IsAlso ==
    ASSUME NEW x, NEW n, NEW d, NEW m \in Int, NEW e \in Int \ {0}, Is(x, n, d), n * e = m * d
    PROVE  Is(x, m, e)
<1>1. Is(Frac(m, e), m, e)
  BY IsFrac
<1>2. x = Frac(m, e)
  BY <1>1, IsEqual
<1>3. QED  BY <1>1, <1>2

LEMMA IsWhole == ASSUME NEW n \in Int PROVE Is(Whole(n), n, 1) /\ Whole(n) \in Real
<1>1. Whole(n) \in Real /\ Whole(n)[1] = n /\ Whole(n)[2] = 1
  BY DEF Whole, Real
<1>2. QED  BY <1>1 DEF Is

(* What the four operations answer: the fractions of school.               *)
LEMMA Sums ==
    ASSUME NEW x, NEW y, NEW n, NEW d, NEW m, NEW e, Is(x, n, d), Is(y, m, e)
    PROVE  /\ Is(x ++ y, n * e + m * d, d * e) /\ Is(x -- y, n * e - m * d, d * e)
           /\ Is(x ** y, n * m, d * e)
           /\ m # 0 => Is(x // y, n * e, d * m)
<1> DEFINE a == x[1]
           b == x[2]
           c == y[1]
           f == y[2]
<1>1. /\ a \in Int /\ b \in Int \ {0} /\ c \in Int /\ f \in Int \ {0}
      /\ n \in Int /\ d \in Int \ {0} /\ m \in Int /\ e \in Int \ {0}
      /\ a * d = n * b /\ c * e = m * f
  BY RealParts DEF Is, Pos
<1>2. /\ x ++ y = Frac(a * f + c * b, b * f) /\ x -- y = Frac(a * f - c * b, b * f)
      /\ x ** y = Frac(a * c, b * f) /\ x // y = Frac(a * f, b * c)
  BY DEF ++, --, **, //
<1> HIDE DEF a, b, c, f
<1>3. b * f \in Int \ {0} /\ d * e \in Int \ {0} /\ a * f \in Int /\ c * b \in Int /\ a * c \in Int
      /\ n * e \in Int /\ m * d \in Int /\ n * m \in Int
  BY <1>1
<1>4. (a * f) * (d * e) = (n * e) * (b * f)
  <2>1. (a * f) * (d * e) = (a * d) * (f * e) /\ (n * b) * (f * e) = (n * e) * (b * f)
    BY <1>1
  <2>2. QED  BY <1>1, <2>1
<1>5. (c * b) * (d * e) = (m * d) * (b * f)
  <2>1. (c * b) * (d * e) = (c * e) * (b * d) /\ (m * f) * (b * d) = (m * d) * (b * f)
    BY <1>1
  <2>2. QED  BY <1>1, <2>1
<1>6. (a * c) * (d * e) = (n * m) * (b * f)
  <2>1. (a * c) * (d * e) = (a * d) * (c * e) /\ (n * b) * (m * f) = (n * m) * (b * f)
    BY <1>1
  <2>2. QED  BY <1>1, <2>1
<1>7. Is(x ++ y, n * e + m * d, d * e) /\ Is(x -- y, n * e - m * d, d * e)
  <2> DEFINE p == a * f
             q == c * b
             r == n * e
             s == m * d
             u == b * f
             v == d * e
  <2>1. p \in Int /\ q \in Int /\ r \in Int /\ s \in Int /\ u \in Int \ {0} /\ v \in Int \ {0}
        /\ p * v = r * u /\ q * v = s * u
    BY <1>3, <1>4, <1>5
  <2>2. x ++ y = Frac(p + q, u) /\ x -- y = Frac(p - q, u)
    BY <1>2
  <2> HIDE DEF p, q, r, s, u, v
  <2>3. (p + q) * v = (r + s) * u /\ (p - q) * v = (r - s) * u
    BY <2>1
  <2>4. Is(x ++ y, p + q, u) /\ Is(x -- y, p - q, u)
    BY <2>1, <2>2, IsFrac
  <2>5. Is(x ++ y, r + s, v) /\ Is(x -- y, r - s, v)
    BY <2>1, <2>3, <2>4, IsAlso
  <2>6. QED  BY <2>5 DEF r, s, v
<1>8. Is(x ** y, n * m, d * e)
  <2>1. Is(x ** y, a * c, b * f)
    BY <1>2, <1>3, IsFrac
  <2>2. QED  BY <1>3, <1>6, <2>1, IsAlso
<1>9. ASSUME m # 0 PROVE Is(x // y, n * e, d * m)
  <2>1. c # 0
    <3>1. m * f # 0
      BY <1>1, <1>9
    <3>2. QED  BY <1>1, <3>1
  <2>2. b * c \in Int \ {0} /\ d * m \in Int \ {0}
    BY <1>1, <1>9, <2>1
  <2>3. (a * f) * (d * m) = (n * e) * (b * c)
    <3>1. (a * f) * (d * m) = (a * d) * (m * f) /\ (n * b) * (c * e) = (n * e) * (b * c)
      BY <1>1
    <3>2. QED  BY <1>1, <3>1
  <2>4. Is(x // y, a * f, b * c)
    BY <1>2, <1>3, <2>2, IsFrac
  <2>5. QED  BY <1>3, <2>2, <2>3, <2>4, IsAlso
<1>10. QED  BY <1>7, <1>8, <1>9

LEMMA RealClosed ==
    ASSUME NEW x \in Real, NEW y \in Real
    PROVE  x ++ y \in Real /\ x -- y \in Real /\ x ** y \in Real /\ (y[1] # 0 => x // y \in Real)
<1> DEFINE a == x[1]
           b == x[2]
           c == y[1]
           d == y[2]
<1>1. Is(x, a, b) /\ Is(y, c, d)
  BY IsItself
<1> HIDE DEF a, b, c, d
<1>2. /\ Is(x ++ y, a * d + c * b, b * d) /\ Is(x -- y, a * d - c * b, b * d) /\ Is(x ** y, a * c, b * d)
      /\ c # 0 => Is(x // y, a * d, b * c)
  BY <1>1, Sums
<1>3. \A z, n, e : Is(z, n, e) => z \in Real
  BY DEF Is
<1> HIDE DEF Is
<1>4. x ++ y \in Real /\ x -- y \in Real /\ x ** y \in Real /\ (c # 0 => x // y \in Real)
  BY <1>2, <1>3
<1>5. QED  BY <1>4 DEF c

LEMMA WholeSums ==
    ASSUME NEW a \in Int, NEW b \in Int
    PROVE  Whole(a) ++ Whole(b) = Whole(a + b) /\ Whole(a) -- Whole(b) = Whole(a - b)
           /\ Whole(a) ** Whole(b) = Whole(a * b)
<1>1. Is(Whole(a), a, 1) /\ Is(Whole(b), b, 1)
  BY IsWhole
<1>2. /\ Is(Whole(a) ++ Whole(b), a * 1 + b * 1, 1 * 1) /\ Is(Whole(a) -- Whole(b), a * 1 - b * 1, 1 * 1)
      /\ Is(Whole(a) ** Whole(b), a * b, 1 * 1)
  BY <1>1, Sums
<1> DEFINE c == a * b
<1>3. a * 1 + b * 1 = a + b /\ a * 1 - b * 1 = a - b /\ 1 * 1 = 1 /\ a + b \in Int /\ a - b \in Int /\ c \in Int
  OBVIOUS
<1>4. Is(Whole(a) ++ Whole(b), a + b, 1) /\ Is(Whole(a) -- Whole(b), a - b, 1) /\ Is(Whole(a) ** Whole(b), c, 1)
  BY <1>2, <1>3
<1> HIDE DEF c
<1>5. Is(Whole(a + b), a + b, 1) /\ Is(Whole(a - b), a - b, 1) /\ Is(Whole(c), c, 1)
  BY <1>3, IsWhole
<1>6. /\ Whole(a) ++ Whole(b) = Whole(a + b) /\ Whole(a) -- Whole(b) = Whole(a - b)
      /\ Whole(a) ** Whole(b) = Whole(c)
  BY <1>4, <1>5, IsEqual
<1>7. QED  BY <1>6 DEF c

LEMMA SumCommutes == ASSUME NEW x \in Real, NEW y \in Real PROVE x ++ y = y ++ x /\ x ** y = y ** x
<1>1. /\ x[1] * y[2] + y[1] * x[2] = y[1] * x[2] + x[1] * y[2]
      /\ x[2] * y[2] = y[2] * x[2] /\ x[1] * y[1] = y[1] * x[1]
  BY RealParts DEF Pos
<1>2. QED  BY <1>1 DEF ++, **

LEMMA SumAssociates ==
    ASSUME NEW x \in Real, NEW y \in Real, NEW z \in Real
    PROVE  (x ++ y) ++ z = x ++ (y ++ z)
<1> DEFINE a == x[1]
           b == x[2]
           c == y[1]
           d == y[2]
           e == z[1]
           f == z[2]
<1>1. /\ a \in Int /\ b \in Int /\ c \in Int /\ d \in Int /\ e \in Int /\ f \in Int
      /\ Is(x, a, b) /\ Is(y, c, d) /\ Is(z, e, f)
  BY RealParts, IsItself DEF Pos
<1> HIDE DEF a, b, c, d, e, f
<1>2. Is(x ++ y, a * d + c * b, b * d) /\ Is(y ++ z, c * f + e * d, d * f)
  BY <1>1, Sums
<1>3. /\ Is((x ++ y) ++ z, (a * d + c * b) * f + e * (b * d), (b * d) * f)
      /\ Is(x ++ (y ++ z), a * (d * f) + (c * f + e * d) * b, b * (d * f))
  BY <1>1, <1>2, Sums
<1>4. (b * d) * f = b * (d * f) /\ (a * d + c * b) * f + e * (b * d) = a * (d * f) + (c * f + e * d) * b
  BY <1>1
<1>5. QED  BY <1>3, <1>4, IsEqual

LEMMA ProductOfSum ==
    ASSUME NEW x \in Real, NEW y \in Real, NEW z \in Real
    PROVE  x ** (y ++ z) = (x ** y) ++ (x ** z)
<1> DEFINE a == x[1]
           b == x[2]
           c == y[1]
           d == y[2]
           e == z[1]
           f == z[2]
<1>1. /\ a \in Int /\ b \in Int /\ c \in Int /\ d \in Int /\ e \in Int /\ f \in Int
      /\ Is(x, a, b) /\ Is(y, c, d) /\ Is(z, e, f)
  BY RealParts, IsItself DEF Pos
<1> HIDE DEF a, b, c, d, e, f
<1>2. Is(y ++ z, c * f + e * d, d * f) /\ Is(x ** y, a * c, b * d) /\ Is(x ** z, a * e, b * f)
  BY <1>1, Sums
<1>3. /\ Is(x ** (y ++ z), a * (c * f + e * d), b * (d * f))
      /\ Is((x ** y) ++ (x ** z), (a * c) * (b * f) + (a * e) * (b * d), (b * d) * (b * f))
  BY <1>1, <1>2, Sums
<1>4. (a * (c * f + e * d)) * ((b * d) * (b * f)) = ((a * c) * (b * f) + (a * e) * (b * d)) * (b * (d * f))
  <2> DEFINE n == c * f + e * d
             u == d * f
  <2>1. (a * c) * (b * f) + (a * e) * (b * d) = (a * b) * n /\ (b * d) * (b * f) = (b * b) * u
    BY <1>1
  <2>2. n \in Int /\ u \in Int
    BY <1>1
  <2> HIDE DEF n, u
  <2>3. (a * n) * ((b * b) * u) = ((a * b) * n) * (b * u)
    BY <1>1, <2>2
  <2>4. QED  BY <2>1, <2>3 DEF n, u
<1>5. QED  BY <1>3, <1>4, IsEqual

LEMMA QuotientOfSum ==
    ASSUME NEW x \in Real, NEW y \in Real, NEW z \in Real, z[1] # 0
    PROVE  (x ++ y) // z = (x // z) ++ (y // z)
<1> DEFINE a == x[1]
           b == x[2]
           c == y[1]
           d == y[2]
           e == z[1]
           f == z[2]
<1>1. /\ a \in Int /\ b \in Int /\ c \in Int /\ d \in Int /\ e \in Int /\ e # 0 /\ f \in Int
      /\ Is(x, a, b) /\ Is(y, c, d) /\ Is(z, e, f)
  BY RealParts, IsItself DEF Pos
<1> HIDE DEF a, b, c, d, e, f
<1>2. Is(x ++ y, a * d + c * b, b * d) /\ Is(x // z, a * f, b * e) /\ Is(y // z, c * f, d * e)
  BY <1>1, Sums
<1>3. /\ Is((x ++ y) // z, (a * d + c * b) * f, (b * d) * e)
      /\ Is((x // z) ++ (y // z), (a * f) * (d * e) + (c * f) * (b * e), (b * e) * (d * e))
  BY <1>1, <1>2, Sums
<1>4. ((a * d + c * b) * f) * ((b * e) * (d * e)) = ((a * f) * (d * e) + (c * f) * (b * e)) * ((b * d) * e)
  <2> DEFINE n == a * d + c * b
             u == b * d
  <2>1. (a * f) * (d * e) + (c * f) * (b * e) = (f * e) * n /\ (b * e) * (d * e) = (e * e) * u
    BY <1>1
  <2>2. n \in Int /\ u \in Int
    BY <1>1
  <2> HIDE DEF n, u
  <2>3. (n * f) * ((e * e) * u) = ((f * e) * n) * (u * e)
    BY <1>1, <2>2
  <2>4. QED  BY <2>1, <2>3 DEF n, u
<1>5. QED  BY <1>3, <1>4, IsEqual

LEMMA QuotientOfProduct ==
    ASSUME NEW x \in Real, NEW y \in Real, NEW z \in Real, z[1] # 0
    PROVE  (x ** y) // z = x ** (y // z) /\ (x ** z) // z = x /\ (z ** x) // z = x
<1> DEFINE a == x[1]
           b == x[2]
           c == y[1]
           d == y[2]
           e == z[1]
           f == z[2]
<1>1. /\ a \in Int /\ b \in Int /\ c \in Int /\ d \in Int /\ e \in Int /\ e # 0 /\ f \in Int
      /\ Is(x, a, b) /\ Is(y, c, d) /\ Is(z, e, f)
  BY RealParts, IsItself DEF Pos
<1> HIDE DEF a, b, c, d, e, f
<1>2. Is(x ** y, a * c, b * d) /\ Is(y // z, c * f, d * e) /\ Is(x ** z, a * e, b * f)
  BY <1>1, Sums
<1>3. /\ Is((x ** y) // z, (a * c) * f, (b * d) * e) /\ Is(x ** (y // z), a * (c * f), b * (d * e))
      /\ Is((x ** z) // z, (a * e) * f, (b * f) * e)
  BY <1>1, <1>2, Sums
<1>4. /\ (a * c) * f = a * (c * f) /\ (b * d) * e = b * (d * e)
      /\ ((a * e) * f) * b = a * ((b * f) * e)
  BY <1>1
<1>5. (x ** y) // z = x ** (y // z) /\ (x ** z) // z = x
  BY <1>1, <1>3, <1>4, IsEqual
<1>6. QED  BY <1>5, SumCommutes

-----------------------------------------------------------------------------
(* Times as REALs.                                                         *)
LEMMA IsTime ==
    ASSUME NEW t, t.sec \in Int, t.nsec \in Int
    PROVE  Is(time_to_real(t), NS(t), Second) /\ time_to_real(t) \in Real /\ NS(t) \in Int
<1>1. Second \in Int \ {0} /\ NS(t) = Second * t.sec + t.nsec /\ NS(t) \in Int
  BY SecondPositive DEF NS
<1>2. Is(Whole(t.sec), t.sec, 1) /\ Is(Frac(t.nsec, Second), t.nsec, Second)
  BY <1>1, IsWhole, IsFrac
<1>3. Is(time_to_real(t), t.sec * Second + t.nsec * 1, 1 * Second)
  BY <1>2, Sums DEF time_to_real
<1>4. t.sec * Second + t.nsec * 1 = NS(t) /\ 1 * Second = Second
  BY <1>1
<1>5. Is(time_to_real(t), NS(t), Second)
  BY <1>3, <1>4
<1>6. QED  BY <1>1, <1>5 DEF Is

LEMMA IsSmaller ==
    ASSUME NEW x, NEW y, NEW n, NEW m, NEW d, Is(x, n, d), Is(y, m, d), d > 0
    PROVE  Smaller(x, y) <=> n < m
<1> DEFINE a == x[1]
           b == x[2]
           c == y[1]
           f == y[2]
<1>1. /\ a \in Int /\ b \in Pos /\ c \in Int /\ f \in Pos
      /\ n \in Int /\ d \in Pos /\ m \in Int
      /\ a * d = n * b /\ c * d = m * f
  BY RealParts DEF Is, Pos
<1>2. Smaller(x, y) <=> a * f < c * b
  BY DEF Smaller
<1> HIDE DEF a, b, c, f
<1>3. (a * f) * d = n * (b * f) /\ (c * b) * d = m * (b * f)
  <2>1. (a * f) * d = (a * d) * f /\ (n * b) * f = n * (b * f) /\ (c * b) * d = (c * d) * b /\ (m * f) * b = m * (b * f)
    BY <1>1 DEF Pos
  <2>2. QED  BY <1>1, <2>1
<1> DEFINE p == a * f
           q == c * b
           u == b * f
<1>4. p \in Int /\ q \in Int /\ u \in Pos /\ p * d = n * u /\ q * d = m * u
  BY <1>1, <1>3 DEF Pos
<1> HIDE DEF p, q, u
<1>5. p < q <=> p * d < q * d
  BY <1>1, <1>4 DEF Pos
<1>6. n < m <=> n * u < m * u
  BY <1>1, <1>4 DEF Pos
<1>7. QED  BY <1>2, <1>4, <1>5, <1>6 DEF p, q

-----------------------------------------------------------------------------
(* RAMP                                                                    *)
OnRamp(t) == t \in [sec : Nat, nsec : 0 .. Second]
Cycle == time_to_real(CYCLE)

LEMMA Cycles == CYCLE \in [sec : Nat, nsec : 0 .. Second] /\ CYCLE.nsec < Second /\ NS(CYCLE) \in Pos
<1>1. CYCLE \in [sec : Nat, nsec : 0 .. Second - 1] /\ CYCLE # Zero
  BY ControlAssumption DEF Durations_type
<1>2. CYCLE.sec \in Nat /\ CYCLE.nsec \in Nat /\ CYCLE.nsec < Second
  BY <1>1, SecondPositive
<1>3. CYCLE = [sec |-> CYCLE.sec, nsec |-> CYCLE.nsec]
  BY <1>1
<1>4. ~(CYCLE.sec = 0 /\ CYCLE.nsec = 0)
  BY <1>1, <1>3 DEF Zero, Time
<1>5. NS(CYCLE) \in Pos
  BY <1>2, <1>4, SMT DEF NS, Pos, Second
<1>6. QED  BY <1>1, <1>2, <1>5, SecondPositive

LEMMA RampTime ==
    ASSUME NEW t, OnRamp(t)
    PROVE  /\ NS(t) \in Nat /\ NS(TR) \in Int /\ TR.sec \in Int /\ TR.nsec \in Int
           /\ GE_TIME(t, TR) => NS(t) >= NS(TR)
           /\ ~GE_TIME(t, TR) => NS(t) <= NS(TR) /\ NS(TR) > 0
<1> DEFINE s == t.sec
           n == t.nsec
           u == TR.sec
           v == TR.nsec
<1>1. s \in Nat /\ n \in Nat /\ n <= Second
  BY SecondPositive DEF OnRamp
<1>2. /\ u \in Int /\ v \in Int /\ v < Second
      /\ (u >= 0 /\ v >= 0) \/ (u <= 0 /\ v <= 0)
  <2>1. CASE TR \in Durations_type
    BY <2>1, SecondPositive DEF Durations_type
  <2>2. CASE Time(-TR.sec, -TR.nsec) \in Durations_type
    <3> DEFINE a == -TR.sec
               b == -TR.nsec
    <3>1. a \in Nat /\ b \in 0 .. Second - 1
      BY <2>2 DEF Durations_type, Time
    <3>2. u \in Int /\ v \in Int
      BY ControlAssumption
    <3>3. QED  BY <3>1, <3>2, SecondPositive
  <2>3. QED  BY <2>1, <2>2, ControlAssumption
<1>3. GE_TIME(t, TR) <=> (u = s /\ n - v >= 0) \/ (u # s /\ s - u >= 0)
  BY DEF GE_TIME, time_cmp
<1>4. NS(t) = Second * s + n /\ NS(TR) = Second * u + v
  BY DEF NS
<1> HIDE DEF s, n, u, v
<1>5. NS(t) \in Nat /\ NS(TR) \in Int
  BY <1>1, <1>2, <1>4, SecondPositive
<1>6. ASSUME GE_TIME(t, TR) PROVE NS(t) >= NS(TR)
  <2>1. CASE u = s
    <3>1. n >= v /\ Second * s \in Nat
      BY <1>1, <1>2, <1>3, <1>6, <2>1, SecondPositive
    <3>2. QED  BY <1>1, <1>2, <1>4, <2>1, <3>1
  <2>2. CASE s >= u + 1
    <3>1. Second * s >= Second * u + Second
      BY <1>1, <1>2, <2>2, SecondPositive
    <3>2. QED  BY <1>1, <1>2, <1>4, <3>1, SecondPositive
  <2>3. QED  BY <1>1, <1>2, <1>3, <1>6, <2>1, <2>2
<1>7. ASSUME ~GE_TIME(t, TR) PROVE NS(t) <= NS(TR) /\ NS(TR) > 0
  <2>1. CASE u = s
    <3>1. n < v /\ Second * s \in Nat
      BY <1>1, <1>2, <1>3, <1>7, <2>1, SecondPositive
    <3>2. QED  BY <1>1, <1>2, <1>4, <2>1, <3>1
  <2>2. CASE u >= s + 1
    <3>1. Second * u >= Second * s + Second /\ Second * s \in Nat /\ v >= 0
      BY <1>1, <1>2, <2>2, SecondPositive
    <3>2. QED  BY <1>1, <1>2, <1>4, <3>1, SecondPositive
  <2>3. QED  BY <1>1, <1>2, <1>3, <1>7, <2>1, <2>2
<1>8. QED  BY <1>2, <1>5, <1>6, <1>7 DEF u, v

LEMMA RampTick ==
    ASSUME NEW t, OnRamp(t)
    PROVE  OnRamp(time_add(t, CYCLE)) /\ NS(time_add(t, CYCLE)) = NS(t) + NS(CYCLE)
<1> DEFINE s == t.sec + CYCLE.sec
           n == t.nsec + CYCLE.nsec
<1>1. s \in Nat /\ n \in Nat /\ n < 2 * Second /\ NS(t) + NS(CYCLE) = Second * s + n
  BY Cycles, SecondPositive DEF OnRamp, NS
<1>2. time_add(t, CYCLE) = normalize_timespec(Time(s, n))
  BY DEF time_add
<1> HIDE DEF s, n
<1>3. Time(s, n).sec = s /\ Time(s, n).nsec = n
  BY DEF Time
<1>4. Borrow(Time(s, n)) = Time(s, n)
  BY <1>1, <1>3, SecondPositive DEF Borrow
<1>5. time_add(t, CYCLE) = IF n > Second THEN Time(s + 1, n - Second) ELSE Time(s, n)
  <2>1. ~(s < 0)
    BY <1>1
  <2>2. QED  BY <1>2, <1>3, <1>4, <2>1 DEF normalize_timespec, Carry
<1>6. CASE n > Second
  <2>1. time_add(t, CYCLE) = [sec |-> s + 1, nsec |-> n - Second]
    BY <1>5, <1>6 DEF Time
  <2>2. n - Second \in 0 .. Second /\ s + 1 \in Nat
    BY <1>1, <1>6, SecondPositive
  <2>3. Second * (s + 1) + (n - Second) = Second * s + n
    BY <1>1, SecondPositive
  <2>4. QED  BY <1>1, <2>1, <2>2, <2>3 DEF OnRamp, NS
<1>7. CASE ~(n > Second)
  <2>1. time_add(t, CYCLE) = [sec |-> s, nsec |-> n]
    BY <1>5, <1>7 DEF Time
  <2>2. n \in 0 .. Second
    BY <1>1, <1>7, SecondPositive
  <2>3. QED  BY <1>1, <2>1, <2>2 DEF OnRamp, NS
<1>8. QED  BY <1>6, <1>7

(* The time of a ramp after j calls.                                       *)
LEMMA RampReal ==
    ASSUME NEW t, t.sec \in Int, t.nsec \in Int, NEW j \in Nat, NS(t) = j * NS(CYCLE)
    PROVE  time_to_real(t) = Whole(j) ** Cycle
<1> DEFINE c == NS(CYCLE)
           u == Whole(j) ** Cycle
<1>1. Is(time_to_real(t), NS(t), Second) /\ Is(Cycle, c, Second) /\ Is(Whole(j), j, 1)
  BY IsTime, IsWhole, Cycles DEF Cycle
<1>2. Is(u, j * c, 1 * Second)
  BY <1>1, Sums
<1>3. 1 * Second = Second /\ j * c = NS(t)
  BY SecondPositive
<1>4. Is(u, NS(t), Second)
  BY <1>2, <1>3
<1> HIDE DEF u, c
<1>5. time_to_real(t) = u
  BY <1>1, <1>4, IsEqual
<1>6. QED  BY <1>5 DEF u

RampSoFar(r, f, m) ==
    /\ r \in RAMP_data /\ OnRamp(r.t) /\ r.xi = Whole(f)
    /\ \E j \in 0 .. m : NS(r.t) = j * NS(CYCLE) /\ (j = m \/ RampOver(r))

RampAnswers(r, f, m, x) ==
    LET gone == Whole(m) ** Cycle
        tr == time_to_real(TR)
    IN  /\ r.xout = IF Smaller(gone, tr) THEN Whole(f) ++ ((Whole(x) -- Whole(f)) ** (gone // tr)) ELSE Whole(x)
        /\ Smaller(gone, tr) => r.busy
        /\ r.busy => Smaller(gone, tr ++ Cycle)

LEMMA RampRuns ==
    ASSUME NEW r, NEW f \in Int, NEW m \in Nat, RampSoFar(r, f, m), NEW x \in Int
    PROVE  RampSoFar(RAMP_run(r, Whole(x)), f, m + 1) /\ RampAnswers(RAMP_run(r, Whole(x)), f, m, x)
<1> DEFINE q == RAMP_run(r, Whole(x))
           gone == Whole(m) ** Cycle
           tr == time_to_real(TR)
           C == NS(CYCLE)
           T == NS(TR)
<1>1. PICK j \in 0 .. m : NS(r.t) = j * C /\ (j = m \/ RampOver(r))
  BY DEF RampSoFar
<1>2. r \in RAMP_data /\ OnRamp(r.t) /\ r.xi = Whole(f) /\ Whole(f) \in Real /\ Whole(x) \in Real /\ Whole(m) \in Real
  BY IsWhole DEF RampSoFar
<1>3. C \in Pos /\ T \in Int /\ Is(tr, T, Second) /\ tr \in Real /\ Is(Cycle, C, Second) /\ Cycle \in Real
  BY <1>2, Cycles, RampTime, IsTime DEF Cycle
<1>4. Is(gone, m * C, Second) /\ gone \in Real
  <2>1. Is(Whole(m), m, 1)
    BY IsWhole
  <2>2. Is(gone, m * C, 1 * Second)
    BY <1>3, <2>1, Sums
  <2>3. 1 * Second = Second
    BY SecondPositive
  <2>4. QED  BY <1>2, <1>3, <2>2, <2>3, RealClosed
<1>5. m * C \in Nat /\ j * C <= m * C
  <2>1. m * C = j * C + (m - j) * C /\ (m - j) * C \in Nat /\ j * C \in Nat
    BY <1>1, <1>3 DEF Pos
  <2>2. QED  BY <2>1
<1>6. Smaller(gone, tr) <=> m * C < T
  <2> DEFINE mc == m * C
  <2>1. Is(gone, mc, Second)
    BY <1>4
  <2> HIDE DEF mc, gone, tr, T
  <2>2. Smaller(gone, tr) <=> mc < T
    BY <1>3, <2>1, IsSmaller, SecondPositive
  <2>3. QED  BY <2>2 DEF mc
<1>7. Smaller(gone, tr ++ Cycle) <=> m * C < T + C
  <2> DEFINE mc == m * C
             e == tr ++ Cycle
  <2>1. Is(e, T * Second + C * Second, Second * Second)
    BY <1>3, Sums
  <2>2. T + C \in Int /\ Second \in Int \ {0} /\ (T * Second + C * Second) * Second = (T + C) * (Second * Second)
    BY <1>3, SecondPositive DEF Pos
  <2>3. Is(e, T + C, Second)
    BY <2>1, <2>2, IsAlso
  <2>4. Is(gone, mc, Second)
    BY <1>4
  <2> HIDE DEF mc, gone, e, T, C
  <2>5. Smaller(gone, e) <=> mc < T + C
    BY <2>3, <2>4, IsSmaller, SecondPositive
  <2>6. QED  BY <2>5 DEF mc, e
<1>8. CASE RampOver(r)
  <2>1. q = [r EXCEPT !.busy = FALSE, !.xout = Whole(x)]
    BY <1>8 DEF RAMP_run
  <2>2. q \in RAMP_data /\ q.t = r.t /\ q.xi = r.xi /\ q.xout = Whole(x) /\ q.busy = FALSE
    BY <1>2, <2>1 DEF RAMP_data
  <2>3. RampOver(q)
    BY <1>8, <2>2 DEF RampOver
  <2>4. j \in 0 .. m + 1
    BY <1>1
  <2>5. RampSoFar(q, f, m + 1)
    BY <1>1, <1>2, <2>2, <2>3, <2>4 DEF RampSoFar
  <2>6. NS(r.t) >= T
    BY <1>2, <1>8, RampTime DEF RampOver
  <2>7. ~Smaller(gone, tr)
    <3> DEFINE mc == m * C
               jc == j * C
    <3>1. mc \in Nat /\ jc <= mc /\ jc >= T /\ (Smaller(gone, tr) <=> mc < T) /\ jc \in Int
      BY <1>1, <1>3, <1>5, <1>6, <2>6 DEF Pos
    <3> HIDE DEF mc, jc, gone, tr, T
    <3>2. QED  BY <1>3, <3>1
  <2>8. RampAnswers(q, f, m, x)
    BY <2>2, <2>7 DEF RampAnswers
  <2>9. QED  BY <2>5, <2>8
<1>9. CASE ~RampOver(r)
  <2>1. j = m /\ NS(r.t) = m * C
    BY <1>1, <1>9
  <2>2. NS(r.t) <= T /\ T > 0
    BY <1>2, <1>9, RampTime DEF RampOver
  <2>3. time_to_real(r.t) = gone
    <3>1. r.t.sec \in Int /\ r.t.nsec \in Int
      BY <1>2, SecondPositive DEF OnRamp
    <3>2. QED  BY <2>1, <3>1, RampReal
  <2> DEFINE value == Whole(f) ++ (((Whole(x) -- Whole(f)) ** gone) // tr)
             later == time_add(r.t, CYCLE)
  <2>4. q = [r EXCEPT !.busy = TRUE, !.t = later, !.xout = value]
    BY <1>2, <1>9, <2>3 DEF RAMP_run
  <2>5. Whole(x) -- Whole(f) \in Real /\ tr[1] # 0
    <3>1. Whole(x) -- Whole(f) \in Real
      BY <1>2, RealClosed
    <3>2. tr[1] * Second = T * tr[2] /\ tr[2] \in Pos
      BY <1>3, RealParts DEF Is
    <3> HIDE DEF tr, T
    <3>3. T * tr[2] # 0
      BY <1>3, <2>2, <3>2 DEF Pos
    <3>4. QED  BY <3>1, <3>2, <3>3, SecondPositive
  <2>6. value = Whole(f) ++ ((Whole(x) -- Whole(f)) ** (gone // tr)) /\ value \in Real
    <3> DEFINE w == Whole(x) -- Whole(f)
    <3> HIDE DEF gone, tr, w
    <3>1. w \in Real
      BY <2>5 DEF w
    <3>2. (w ** gone) // tr = w ** (gone // tr)
      BY <1>3, <1>4, <2>5, <3>1, QuotientOfProduct
    <3>3. gone // tr \in Real
      BY <1>3, <1>4, <2>5, RealClosed
    <3>4. w ** (gone // tr) \in Real
      BY <3>1, <3>3, RealClosed
    <3>5. Whole(f) ++ (w ** (gone // tr)) \in Real
      BY <1>2, <3>4, RealClosed
    <3>6. QED  BY <3>2, <3>5 DEF w
  <2>7. OnRamp(later) /\ NS(later) = m * C + C /\ later \in [sec : Int, nsec : Int]
    <3>1. OnRamp(later) /\ NS(later) = m * C + C
      BY <1>2, <2>1, RampTick
    <3>2. QED  BY <3>1, SecondPositive DEF OnRamp
  <2>8. q \in RAMP_data /\ q.t = later /\ q.xi = r.xi /\ q.xout = value /\ q.busy = TRUE
    <3> HIDE DEF value, later, q
    <3> QED  BY <1>2, <2>4, <2>6, <2>7 DEF RAMP_data
  <2>9. RampSoFar(q, f, m + 1)
    <3>1. m + 1 \in 0 .. m + 1 /\ NS(later) = (m + 1) * C
      BY <1>3, <2>7 DEF Pos
    <3> HIDE DEF later, q
    <3>2. QED  BY <1>2, <2>7, <2>8, <3>1 DEF RampSoFar
  <2>10. Smaller(gone, tr ++ Cycle)
    <3> DEFINE mc == m * C
    <3>1. mc <= T /\ mc \in Nat /\ (Smaller(gone, tr ++ Cycle) <=> mc < T + C)
      BY <1>5, <1>7, <2>1, <2>2
    <3> HIDE DEF mc, gone, tr, T, C
    <3>2. QED  BY <1>3, <3>1 DEF Pos
  <2>11. ASSUME Smaller(gone, tr) PROVE RampAnswers(q, f, m, x)
    <3> HIDE DEF value, later, q
    <3> QED  BY <2>6, <2>8, <2>10, <2>11 DEF RampAnswers
  <2>12. ASSUME ~Smaller(gone, tr) PROVE RampAnswers(q, f, m, x)
    <3>1. m * C = T
      <4> DEFINE mc == m * C
      <4>1. mc <= T /\ mc \in Nat /\ ~(mc < T)
        BY <1>5, <1>6, <2>1, <2>2, <2>12
      <4> HIDE DEF mc, T
      <4>2. mc = T
        BY <1>3, <4>1
      <4>3. QED  BY <4>2 DEF mc
    <3>2. gone = tr
      <4>1. Is(gone, T, Second)
        BY <1>4, <3>1
      <4> HIDE DEF gone, tr, T
      <4>2. QED  BY <1>3, <4>1, IsEqual
    <3>3. value = Whole(f) ++ (Whole(x) -- Whole(f))
      <4> DEFINE w == Whole(x) -- Whole(f)
      <4> HIDE DEF tr, w, gone
      <4>1. (w ** tr) // tr = w
        BY <1>3, <2>5, QuotientOfProduct DEF w
      <4>2. QED  BY <3>2, <4>1 DEF w
    <3>4. Whole(f) ++ (Whole(x) -- Whole(f)) = Whole(x)
      <4> DEFINE w == x - f
      <4>1. w \in Int /\ f + w = x
        OBVIOUS
      <4>2. Whole(x) -- Whole(f) = Whole(w)
        BY WholeSums
      <4> HIDE DEF w
      <4>3. Whole(f) ++ Whole(w) = Whole(f + w)
        BY <4>1, WholeSums
      <4>4. QED  BY <4>1, <4>2, <4>3
    <3> HIDE DEF value, later, q
    <3>5. QED  BY <2>8, <2>10, <2>12, <3>3, <3>4 DEF RampAnswers
  <2>13. QED  BY <2>9, <2>11, <2>12
<1>10. QED  BY <1>8, <1>9

(* The calls of a ramp.                                                    *)
RampCall == [run : BOOLEAN, x0 : Int, x1 : Int]
Stops(cs) == {k \in 1 .. Len(cs) : ~cs[k].run}
LastStop(cs) == LastOf(Stops(cs))
RampFrom(cs) == IF LastStop(cs) = 0 THEN 0 ELSE cs[LastStop(cs)].x0

LEMMA StopAdded ==
    ASSUME NEW cs \in Seq(RampCall), NEW c \in RampCall
    PROVE  LET n == Len(cs)
               ds == Append(cs, c)
           IN  /\ n \in Nat /\ ds \in Seq(RampCall) /\ Len(ds) = n + 1 /\ ds[n + 1] = c
               /\ LastStop(cs) \in 0 .. n /\ RampFrom(cs) \in Int
               /\ IF c.run THEN LastStop(ds) = LastStop(cs) /\ RampFrom(ds) = RampFrom(cs)
                           ELSE LastStop(ds) = n + 1 /\ RampFrom(ds) = c.x0
<1> DEFINE n == Len(cs)
           ds == Append(cs, c)
           l == LastStop(cs)
<1>1. /\ n \in Nat /\ ds \in Seq(RampCall) /\ Len(ds) = n + 1 /\ ds[n + 1] = c
      /\ \A k \in 1 .. n : ds[k] = cs[k] /\ cs[k] \in RampCall
  OBVIOUS
<1>2. 1 .. n + 1 = (1 .. n) \cup {n + 1} /\ n + 1 \notin 1 .. n
  BY <1>1
<1>3. Stops(cs) \subseteq 1 .. n
  BY DEF Stops
<1> HIDE DEF n, ds
<1>4. Stops(ds) = IF c.run THEN Stops(cs) ELSE Stops(cs) \cup {n + 1}
  BY <1>1, <1>2 DEF Stops, n
<1>5. l \in 0 .. n /\ LastOf(Stops(cs) \cup {n + 1}) = n + 1
  BY <1>1, <1>3, LastExists, LastAdded DEF LastStop
<1>6. RampFrom(cs) \in Int
  <2>1. CASE l = 0
    BY <2>1 DEF RampFrom
  <2>2. CASE l \in 1 .. n
    BY <1>1, <2>2 DEF RampFrom, RampCall
  <2>3. QED  BY <1>1, <1>5, <2>1, <2>2
<1>7. CASE c.run
  <2>1. LastStop(ds) = l
    BY <1>4, <1>7 DEF LastStop
  <2>2. l # 0 => ds[l] = cs[l]
    <3>1. l # 0 => l \in 1 .. n
      BY <1>1, <1>5
    <3>2. QED  BY <1>1, <3>1
  <2>3. RampFrom(ds) = RampFrom(cs)
    BY <2>1, <2>2 DEF RampFrom
  <2>4. QED  BY <1>1, <1>5, <1>6, <1>7, <2>1, <2>3 DEF n, ds
<1>8. CASE ~c.run
  <2>1. LastStop(ds) = n + 1 /\ n + 1 # 0
    BY <1>1, <1>4, <1>5, <1>8 DEF LastStop
  <2>2. RampFrom(ds) = c.x0
    BY <1>1, <2>1 DEF RampFrom
  <2>3. QED  BY <1>1, <1>5, <1>6, <1>8, <2>1, <2>2 DEF n, ds
<1>9. QED  BY <1>7, <1>8

RampInv ==
    family = "ramp" =>
        /\ calls \in Seq(RampCall)
        /\ RampSoFar(ramp, RampFrom(calls), Len(calls) - LastStop(calls))
        /\ Len(calls) > 0 =>
              LET c == calls[Len(calls)]
              IN  IF c.run THEN RampAnswers(ramp, RampFrom(calls), Len(calls) - LastStop(calls) - 1, c.x1)
                  ELSE ramp.xout = Whole(c.x0) /\ ~ramp.busy

LEMMA InvOnLine == RampInv => RampFollowsLine
<1> SUFFICES ASSUME RampInv, family = "ramp", N > 0 PROVE RampFollowsLine
  BY DEF RampFollowsLine
<1> DEFINE c == calls[N]
           last == LastOf({k \in 1 .. N : ~calls[k].run})
           from == IF last = 0 THEN Whole(0) ELSE Whole(calls[last].x0)
<1>1. last = LastStop(calls) /\ from = Whole(RampFrom(calls))
  BY DEF LastStop, Stops, RampFrom, N
<1>2. IF c.run THEN RampAnswers(ramp, RampFrom(calls), N - last - 1, c.x1)
      ELSE ramp.xout = Whole(c.x0) /\ ~ramp.busy
  BY <1>1 DEF RampInv, N
<1> HIDE DEF c, last, from
<1>3. QED  BY <1>1, <1>2 DEF RampFollowsLine, RampAnswers, Cycle, c, last, from

LEMMA RampStarts == ControlInit => RampInv
<1> SUFFICES ASSUME ControlInit PROVE RampInv
  OBVIOUS
<1>1. calls = <<>> /\ ramp = [busy |-> FALSE, xout |-> Whole(0), xi |-> Whole(0), t |-> Zero]
  BY DEF ControlInit, RAMP_init
<1>2. Stops(calls) = {} /\ LastOf({}) = 0
  BY <1>1, LastExists DEF IsLast, Stops
<1>3. LastStop(calls) = 0 /\ RampFrom(calls) = 0 /\ Len(calls) = 0 /\ calls \in Seq(RampCall)
  <2>1. LastStop(calls) = 0
    BY <1>2 DEF LastStop
  <2>2. RampFrom(calls) = 0
    BY <2>1 DEF RampFrom
  <2>3. QED  BY <1>1, <2>1, <2>2
<1>4. RampSoFar(ramp, 0, 0)
  <2>1. ramp.t = Zero /\ ramp.xi = Whole(0) /\ Whole(0) \in Real
    BY <1>1, IsWhole
  <2>2. OnRamp(ramp.t) /\ NS(ramp.t) = 0 * NS(CYCLE) /\ Zero \in [sec : Int, nsec : Int]
    BY <2>1, Cycles, SecondPositive DEF OnRamp, NS, Zero, Time, Pos
  <2>3. ramp \in RAMP_data
    BY <1>1, <2>1, <2>2 DEF RAMP_data
  <2>4. 0 \in 0 .. 0
    OBVIOUS
  <2>5. QED  BY <2>1, <2>2, <2>3, <2>4 DEF RampSoFar
<1>5. QED  BY <1>3, <1>4 DEF RampInv

LEMMA RampKept == RampInv /\ [Next]_vars => RampInv'
<1> SUFFICES ASSUME RampInv, [Next]_vars, family' = "ramp" PROVE RampInv'
  BY DEF RampInv
<1>1. family = "ramp"
  BY DEF Next, vars
<1>2. calls \in Seq(RampCall) /\ RampSoFar(ramp, RampFrom(calls), Len(calls) - LastStop(calls))
  BY <1>1 DEF RampInv
<1>3. UNCHANGED controls \/ \E run \in BOOLEAN, x0, x1 \in Levels : RAMP_body(run, x0, x1)
  <2>1. CASE UNCHANGED vars
    BY <2>1 DEF vars
  <2>2. CASE BlockCall
    <3>1. \E en \in Enables : UNCHANGED controls \/ RampNext(en)
      BY <1>1, <2>2 DEF BlockCall
    <3>2. QED  BY <3>1 DEF RampNext, RAMP
  <2>3. CASE FunctionCall \/ TaskStep
    BY <2>3 DEF FunctionCall, TaskStep
  <2>4. QED  BY <2>1, <2>2, <2>3 DEF Next
<1>4. CASE UNCHANGED controls
  BY <1>1, <1>4 DEF controls, RampInv, RampSoFar, RampAnswers, RampFrom, LastStop, Stops
<1>5. ASSUME NEW run \in BOOLEAN, NEW x0 \in Levels, NEW x1 \in Levels, RAMP_body(run, x0, x1)
      PROVE  RampInv'
  <2> DEFINE c == [run |-> run, x0 |-> x0, x1 |-> x1]
             n == Len(calls)
             l == LastStop(calls)
             f == RampFrom(calls)
             m == n - l
  <2>1. /\ calls' = Append(calls, c)
        /\ ramp' = IF run THEN RAMP_run(ramp, Whole(x1))
                   ELSE [busy |-> FALSE, xout |-> Whole(x0), xi |-> Whole(x0), t |-> Zero]
    BY <1>5 DEF RAMP_body, Record
  <2>2. x0 \in Int /\ x1 \in Int
    BY ControlAssumption
  <2>3. c \in RampCall /\ c.run = run /\ c.x0 = x0 /\ c.x1 = x1
    BY <2>2 DEF RampCall
  <2> HIDE DEF c
  <2>4. /\ n \in Nat /\ calls' \in Seq(RampCall) /\ Len(calls') = n + 1 /\ calls'[n + 1] = c
        /\ l \in 0 .. n /\ f \in Int
        /\ IF run THEN LastStop(calls') = l /\ RampFrom(calls') = f
                  ELSE LastStop(calls') = n + 1 /\ RampFrom(calls') = x0
    BY <1>2, <2>1, <2>3, StopAdded
  <2> DEFINE Kept ==
        /\ calls' \in Seq(RampCall)
        /\ RampSoFar(ramp', RampFrom(calls'), Len(calls') - LastStop(calls'))
        /\ Len(calls') > 0 =>
              LET d == calls'[Len(calls')]
              IN  IF d.run THEN RampAnswers(ramp', RampFrom(calls'), Len(calls') - LastStop(calls') - 1, d.x1)
                  ELSE ramp'.xout = Whole(d.x0) /\ ~ramp'.busy
  <2>5a. Kept => RampInv'
    BY DEF RampInv, RampSoFar, RampAnswers, RampFrom, LastStop, Stops
  <2> HIDE DEF n, l, f
  <2>5. m \in Nat /\ RampSoFar(ramp, f, m)
    BY <1>2, <2>4 DEF n, l, f
  <2>6. CASE run
    <3>1. RampSoFar(ramp', f, m + 1) /\ RampAnswers(ramp', f, m, x1)
      BY <2>1, <2>2, <2>4, <2>5, <2>6, RampRuns
    <3>2. (n + 1) - l = m + 1 /\ (n + 1) - l - 1 = m
      BY <2>4
    <3> HIDE DEF m
    <3>3. QED  BY <2>3, <2>4, <2>5a, <2>6, <3>1, <3>2
  <2>7. CASE ~run
    <3>1. ramp' = [busy |-> FALSE, xout |-> Whole(x0), xi |-> Whole(x0), t |-> Zero]
      BY <2>1, <2>7
    <3>2. ramp'.t = Zero /\ ramp'.xi = Whole(x0) /\ Whole(x0) \in Real
      BY <2>2, <3>1, IsWhole
    <3>3. OnRamp(ramp'.t) /\ NS(ramp'.t) = 0 * NS(CYCLE) /\ Zero \in [sec : Int, nsec : Int]
      BY <3>2, Cycles, SecondPositive DEF OnRamp, NS, Zero, Time, Pos
    <3>4. ramp' \in RAMP_data
      BY <3>1, <3>2, <3>3 DEF RAMP_data
    <3>5. 0 \in 0 .. 0 /\ (n + 1) - (n + 1) = 0
      BY <2>4
    <3>6. RampSoFar(ramp', x0, 0)
      BY <3>2, <3>3, <3>4, <3>5 DEF RampSoFar
    <3>7. ramp'.xout = Whole(x0) /\ ~ramp'.busy
      BY <3>1
    <3>8. QED  BY <2>3, <2>4, <2>5a, <2>7, <3>5, <3>6, <3>7
  <2>8. QED  BY <2>6, <2>7
<1>6. QED  BY <1>3, <1>4, <1>5

-----------------------------------------------------------------------------
(* PID                                                                     *)
LEMMA NothingAdded ==
    ASSUME NEW x \in Real
    PROVE  x ** Whole(0) = Whole(0) /\ x ++ Whole(0) = x
<1> DEFINE a == x[1]
           b == x[2]
           p == x ** Whole(0)
           s == x ++ Whole(0)
<1>1. a \in Int /\ b \in Pos /\ Is(x, a, b) /\ Is(Whole(0), 0, 1)
  BY RealParts, IsItself, IsWhole
<1>2. Is(p, a * 0, b * 1) /\ Is(s, a * 1 + 0 * b, b * 1)
  BY <1>1, Sums
<1>3. a * 0 = 0 /\ b * 1 = b /\ 0 * 1 = 0 * b /\ a * 1 + 0 * b = a
  BY <1>1 DEF Pos
<1>4. Is(p, 0, b) /\ Is(s, a, b)
  BY <1>2, <1>3
<1> HIDE DEF p, s, a, b
<1>5. p = Whole(0)
  BY <1>1, <1>3, <1>4, IsEqual
<1>6. s = x
  BY <1>1, <1>4, IsEqual
<1>7. QED  BY <1>5, <1>6 DEF p, s

LEMMA CycleReal == Cycle \in Real /\ Is(Cycle, NS(CYCLE), Second) /\ (Whole(10) ** Cycle) \in Real /\ (Whole(10) ** Cycle)[1] # 0
<1> DEFINE c == NS(CYCLE)
           t == Whole(10) ** Cycle
<1>1. Cycle \in Real /\ Is(Cycle, c, Second) /\ c \in Pos
  BY Cycles, IsTime DEF Cycle
<1>2. t \in Real
  BY <1>1, IsWhole, RealClosed
<1>3. Is(t, 10 * c, 1 * Second)
  BY <1>1, IsWhole, Sums
<1> HIDE DEF c, t
<1>4. t[1] * (1 * Second) = (10 * c) * t[2] /\ t[1] \in Int /\ t[2] \in Pos
  BY <1>2, <1>3, RealParts DEF Is
<1>5. (10 * c) * t[2] # 0
  BY <1>1, <1>4 DEF Pos
<1>6. t[1] # 0
  BY <1>4, <1>5, SecondPositive
<1>7. QED  BY <1>1, <1>2, <1>6 DEF t, c

(* The weighted differences, times the rate.                               *)
LEMMA RateOfSlope ==
    ASSUME NEW s \in Int, NEW r \in Int
    PROVE  (Whole(s) // (Whole(10) ** Cycle)) ** Whole(r) = Frac(s * r, 10) // Cycle
<1> DEFINE c == NS(CYCLE)
           t == Whole(10) ** Cycle
           q == Whole(s) // t
           f == Frac(s * r, 10)
           x == q ** Whole(r)
           y == f // Cycle
<1>1. Is(Cycle, c, Second) /\ c \in Int \ {0} /\ Is(Whole(10), 10, 1) /\ Is(Whole(s), s, 1) /\ Is(Whole(r), r, 1)
  BY CycleReal, Cycles, IsWhole DEF Pos
<1>2. Is(t, 10 * c, 1 * Second) /\ 10 * c # 0 /\ s * r \in Int
  BY <1>1, Sums
<1>3. Is(q, s * (1 * Second), 1 * (10 * c))
  <2> HIDE DEF t
  <2> QED  BY <1>1, <1>2, Sums
<1>4. Is(x, (s * (1 * Second)) * r, (1 * (10 * c)) * 1)
  <2> HIDE DEF q
  <2> QED  BY <1>1, <1>3, Sums
<1>5. Is(f, s * r, 10)
  BY <1>2, IsFrac
<1>6. Is(y, (s * r) * Second, 10 * c)
  <2> HIDE DEF f
  <2> QED  BY <1>1, <1>5, Sums
<1>7. (s * (1 * Second)) * r = (s * r) * Second /\ (1 * (10 * c)) * 1 = 10 * c
  BY <1>1, SecondPositive
<1>8. Is(x, (s * r) * Second, 10 * c)
  BY <1>4, <1>7
<1> HIDE DEF x, y
<1>9. x = y
  BY <1>6, <1>8, IsEqual
<1>10. QED  BY <1>9 DEF x, y

-----------------------------------------------------------------------------
(* The calls of a PID.                                                     *)
PidCall == [auto : BOOLEAN, e : Int, x0 : Int]
Manuals(cs) == {k \in 1 .. Len(cs) : ~cs[k].auto}
PidBase(cs) == IF ManualCall(cs) = 0 THEN 0 ELSE cs[ManualCall(cs)].x0 - cs[ManualCall(cs)].e
Sums1(cs, l, n, f) == f = [k \in 0 .. n |-> IF k <= l THEN 0 ELSE f[k - 1] + cs[k].e]

LEMMA SumExists ==
    ASSUME NEW cs, NEW l \in Nat, NEW n \in Nat, \A k \in 1 .. n : cs[k].e \in Int
    PROVE  \E f : Sums1(cs, l, n, f)
<1> DEFINE S == {m \in Nat : m <= n => \E f : Sums1(cs, l, m, f)}
<1>1. 0 \in S
  <2> DEFINE f == [k \in 0 .. 0 |-> 0]
  <2>1. \A k \in 0 .. 0 : k <= l
    OBVIOUS
  <2>2. Sums1(cs, l, 0, f)
    BY <2>1 DEF Sums1
  <2>3. QED  BY <2>2
<1>2. ASSUME NEW m \in Nat, m \in S PROVE m + 1 \in S
  <2>1. SUFFICES ASSUME m + 1 <= n PROVE \E f : Sums1(cs, l, m + 1, f)
    OBVIOUS
  <2>2. PICK f : Sums1(cs, l, m, f)
    BY <1>2, <2>1
  <2> DEFINE v(k) == IF k <= l THEN 0 ELSE f[k - 1] + cs[k].e
             g == [k \in 0 .. m + 1 |-> v(k)]
  <2>3. \A k \in 0 .. m : f[k] = v(k)
    BY <2>2 DEF Sums1
  <2>4. \A k \in 0 .. m + 1 : ~(k <= l) => k - 1 \in 0 .. m /\ k - 1 \in 0 .. m + 1
    OBVIOUS
  <2>5. \A k \in 0 .. m : g[k] = f[k]
    BY <2>3
  <2>6. \A k \in 0 .. m + 1 : g[k] = IF k <= l THEN 0 ELSE g[k - 1] + cs[k].e
    <3> SUFFICES ASSUME NEW k \in 0 .. m + 1 PROVE g[k] = IF k <= l THEN 0 ELSE g[k - 1] + cs[k].e
      OBVIOUS
    <3>1. g[k] = v(k)
      OBVIOUS
    <3> HIDE DEF g
    <3>2. QED  BY <2>4, <2>5, <3>1
  <2>7. g = [k \in 0 .. m + 1 |-> g[k]]
    OBVIOUS
  <2> HIDE DEF g
  <2>8. Sums1(cs, l, m + 1, g)
    BY <2>6, <2>7 DEF Sums1
  <2>9. QED  BY <2>8
<1>3. Nat \subseteq S
  <2> HIDE DEF S
  <2> QED  BY <1>1, <1>2, SetInduction
<1>4. QED  BY <1>3

LEMMA SumPrefix ==
    ASSUME NEW cs, NEW ds, NEW l \in Nat, NEW n \in Nat, NEW m \in Nat, n <= m,
           \A k \in 1 .. n : cs[k].e \in Int /\ ds[k] = cs[k],
           NEW f, Sums1(cs, l, n, f), NEW g, Sums1(ds, l, m, g)
    PROVE  f[n] = g[n] /\ f[n] \in Int
<1> DEFINE S == {i \in Nat : i <= n => f[i] = g[i] /\ f[i] \in Int}
<1>1. /\ \A k \in 0 .. n : f[k] = IF k <= l THEN 0 ELSE f[k - 1] + cs[k].e
      /\ \A k \in 0 .. m : g[k] = IF k <= l THEN 0 ELSE g[k - 1] + ds[k].e
  BY DEF Sums1
<1>2. 0 \in S
  BY <1>1
<1>3. ASSUME NEW i \in Nat, i \in S PROVE i + 1 \in S
  <2>1. SUFFICES ASSUME i + 1 <= n PROVE f[i + 1] = g[i + 1] /\ f[i + 1] \in Int
    OBVIOUS
  <2>2. i + 1 \in 0 .. n /\ i + 1 \in 0 .. m /\ i + 1 \in 1 .. n /\ (i + 1) - 1 = i /\ f[i] = g[i] /\ f[i] \in Int
    BY <1>3, <2>1
  <2>3. /\ f[i + 1] = IF i + 1 <= l THEN 0 ELSE f[i] + cs[i + 1].e
        /\ g[i + 1] = IF i + 1 <= l THEN 0 ELSE g[i] + cs[i + 1].e
        /\ cs[i + 1].e \in Int
    BY <1>1, <2>2
  <2>4. QED  BY <2>2, <2>3
<1>4. Nat \subseteq S
  <2> HIDE DEF S
  <2> QED  BY <1>2, <1>3, SetInduction
<1>5. QED  BY <1>4

LEMMA SumIs ==
    ASSUME NEW cs \in Seq(PidCall), ManualCall(cs) \in Nat
    PROVE  \E f : /\ Sums1(cs, ManualCall(cs), Len(cs), f)
                  /\ SumOfErrors(cs) = f[Len(cs)] /\ SumOfErrors(cs) \in Int
<1> DEFINE n == Len(cs)
           l == ManualCall(cs)
           sum == CHOOSE f : f = [k \in 0 .. n |-> IF k <= l THEN 0 ELSE f[k - 1] + cs[k].e]
<1>1. n \in Nat /\ \A k \in 1 .. n : cs[k].e \in Int
  <2> HIDE DEF sum, l
  <2>1. \A k \in 1 .. n : cs[k] \in PidCall
    OBVIOUS
  <2>2. n \in Nat
    OBVIOUS
  <2> HIDE DEF n
  <2>3. QED  BY <2>1, <2>2 DEF PidCall
<1>2. Sums1(cs, l, n, sum)
  <2>1. \E f : Sums1(cs, l, n, f)
    BY <1>1, SumExists
  <2> HIDE DEF n, l
  <2>2. QED  BY <2>1 DEF Sums1
<1>3. SumOfErrors(cs) = sum[n]
  BY DEF SumOfErrors
<1> HIDE DEF sum, n, l
<1>4. sum[n] \in Int
  BY <1>1, <1>2, SumPrefix, SMTT(30) DEF l
<1>5. QED  BY <1>2, <1>3, <1>4 DEF n, l

LEMMA ManualIs ==
    ASSUME NEW cs \in Seq(PidCall)
    PROVE  ManualCall(cs) \in 0 .. Len(cs) /\ PidBase(cs) \in Int /\ SumOfErrors(cs) \in Int
           /\ \A k \in Int : k <= Len(cs) => ErrorAt(cs, k) \in Int
<1> DEFINE n == Len(cs)
           l == ManualCall(cs)
<1>1. n \in Nat /\ \A k \in 1 .. n : cs[k] \in PidCall
  OBVIOUS
<1>2. l \in 0 .. n
  BY <1>1, LastExists DEF ManualCall
<1> HIDE DEF n, l
<1>3. \A k \in 1 .. n : cs[k].e \in Int /\ cs[k].x0 \in Int
  BY <1>1 DEF PidCall
<1>4. l # 0 => l \in 1 .. n
  BY <1>1, <1>2
<1>5. PidBase(cs) \in Int
  BY <1>3, <1>4 DEF PidBase, l
<1>6. ASSUME NEW k \in Int, k <= n PROVE ErrorAt(cs, k) \in Int
  <2>1. k >= 1 /\ k >= l => k \in 1 .. n
    BY <1>1, <1>6
  <2>2. ErrorAt(cs, k) = IF k >= 1 /\ k >= l THEN cs[k].e ELSE IF l = 0 THEN 0 ELSE cs[l].e
    BY DEF ErrorAt, l
  <2>3. QED  BY <1>3, <1>4, <2>1, <2>2
<1>7. SumOfErrors(cs) \in Int
  <2>1. ManualCall(cs) \in Nat
    BY <1>1, <1>2 DEF l
  <2>2. QED  BY <2>1, SumIs
<1>8. QED  BY <1>2, <1>5, <1>6, <1>7 DEF n, l

(* What one more call adds.                                                *)
LEMMA PidCallAdded ==
    ASSUME NEW cs \in Seq(PidCall), NEW c \in PidCall
    PROVE  LET n == Len(cs)
               ds == Append(cs, c)
           IN  /\ n \in Nat /\ ds \in Seq(PidCall) /\ Len(ds) = n + 1
               /\ c.auto =>
                     /\ ManualCall(ds) = ManualCall(cs) /\ ManualCall(ds) # n + 1
                     /\ PidBase(ds) = PidBase(cs)
                     /\ SumOfErrors(ds) = SumOfErrors(cs) + c.e
                     /\ ErrorAt(ds, n + 1) = c.e
                     /\ \A k \in Int : k <= n => ErrorAt(ds, k) = ErrorAt(cs, k)
               /\ ~c.auto =>
                     /\ ManualCall(ds) = n + 1 /\ PidBase(ds) = c.x0 - c.e /\ SumOfErrors(ds) = 0
                     /\ \A k \in Int : k <= n + 1 => ErrorAt(ds, k) = c.e
<1> DEFINE n == Len(cs)
           ds == Append(cs, c)
           l == ManualCall(cs)
<1>1. /\ n \in Nat /\ ds \in Seq(PidCall) /\ Len(ds) = n + 1 /\ ds[n + 1] = c
      /\ \A k \in 1 .. n : ds[k] = cs[k] /\ cs[k] \in PidCall
  OBVIOUS
<1>2. 1 .. n + 1 = (1 .. n) \cup {n + 1} /\ n + 1 \notin 1 .. n
  BY <1>1
<1>3. Manuals(cs) \subseteq 1 .. n
  BY DEF Manuals
<1> HIDE DEF n, ds
<1>4. Manuals(ds) = IF c.auto THEN Manuals(cs) ELSE Manuals(cs) \cup {n + 1}
  BY <1>1, <1>2 DEF Manuals, n
<1>5. ManualCall(ds) = LastOf(Manuals(ds)) /\ l = LastOf(Manuals(cs))
  BY DEF ManualCall, Manuals
<1>6. l \in 0 .. n /\ LastOf(Manuals(cs) \cup {n + 1}) = n + 1
  BY <1>1, <1>3, <1>5, LastExists, LastAdded
<1> HIDE DEF l
<1>7. l # 0 => l \in 1 .. n
  BY <1>1, <1>6
<1>8. ASSUME c.auto
      PROVE  /\ ManualCall(ds) = l /\ l # n + 1 /\ PidBase(ds) = PidBase(cs)
             /\ SumOfErrors(ds) = SumOfErrors(cs) + c.e
             /\ ErrorAt(ds, n + 1) = c.e
             /\ \A k \in Int : k <= n => ErrorAt(ds, k) = ErrorAt(cs, k)
  <2>1. ManualCall(ds) = l /\ l # n + 1
    BY <1>1, <1>4, <1>5, <1>6, <1>8
  <2>2. PidBase(ds) = PidBase(cs)
    BY <1>1, <1>7, <2>1 DEF PidBase, l
  <2>3. \A k \in Int : ErrorAt(ds, k) = IF k >= 1 /\ k >= l THEN ds[k].e ELSE IF l = 0 THEN 0 ELSE ds[l].e
    BY <2>1 DEF ErrorAt
  <2>4. \A k \in Int : ErrorAt(cs, k) = IF k >= 1 /\ k >= l THEN cs[k].e ELSE IF l = 0 THEN 0 ELSE cs[l].e
    BY DEF ErrorAt, l
  <2>5. ErrorAt(ds, n + 1) = c.e
    <3>1. n + 1 >= 1 /\ n + 1 >= l /\ n + 1 \in Int
      BY <1>1, <1>6
    <3>2. QED  BY <1>1, <2>3, <3>1
  <2>6. ASSUME NEW k \in Int, k <= n PROVE ErrorAt(ds, k) = ErrorAt(cs, k)
    <3>1. k >= 1 => k \in 1 .. n
      BY <1>1, <2>6
    <3>2. /\ ErrorAt(ds, k) = IF k >= 1 /\ k >= l THEN ds[k].e ELSE IF l = 0 THEN 0 ELSE ds[l].e
          /\ ErrorAt(cs, k) = IF k >= 1 /\ k >= l THEN cs[k].e ELSE IF l = 0 THEN 0 ELSE cs[l].e
      BY <2>3, <2>4, <2>6
    <3>3. (k >= 1 => ds[k].e = cs[k].e) /\ (l # 0 => ds[l].e = cs[l].e)
      BY <1>1, <1>7, <3>1
    <3>4. QED  BY <3>2, <3>3
  <2>7. SumOfErrors(ds) = SumOfErrors(cs) + c.e
    <3>1. l \in Nat /\ c.e \in Int /\ \A k \in 1 .. n : cs[k].e \in Int /\ ds[k] = cs[k]
      BY <1>1, <1>6 DEF PidCall
    <3>2. PICK f : Sums1(cs, l, n, f) /\ SumOfErrors(cs) = f[n]
      BY <3>1, SumIs DEF l, n
    <3>3. PICK g : Sums1(ds, l, n + 1, g) /\ SumOfErrors(ds) = g[n + 1]
      BY <1>1, <2>1, <3>1, SumIs
    <3>4. f[n] = g[n] /\ f[n] \in Int
      <4>1. n + 1 \in Nat /\ n <= n + 1 /\ n \in Nat
        BY <1>1
      <4>2. Sums1(cs, l, n, f) /\ Sums1(ds, l, n + 1, g)
        BY <3>2, <3>3
      <4> HIDE DEF l
      <4>3. QED  BY <3>1, <4>1, <4>2, SumPrefix
    <3>5. g[n + 1] = IF n + 1 <= l THEN 0 ELSE g[(n + 1) - 1] + ds[n + 1].e
      BY <1>1, <3>3 DEF Sums1
    <3>6. ~(n + 1 <= l) /\ (n + 1) - 1 = n
      BY <1>1, <1>6
    <3>7. QED  BY <1>1, <3>2, <3>3, <3>4, <3>5, <3>6
  <2>8. QED  BY <2>1, <2>2, <2>5, <2>6, <2>7
<1>9. ASSUME ~c.auto
      PROVE  /\ ManualCall(ds) = n + 1 /\ PidBase(ds) = c.x0 - c.e /\ SumOfErrors(ds) = 0
             /\ \A k \in Int : k <= n + 1 => ErrorAt(ds, k) = c.e
  <2>1. ManualCall(ds) = n + 1 /\ n + 1 # 0
    BY <1>1, <1>4, <1>5, <1>6, <1>9
  <2>2. PidBase(ds) = c.x0 - c.e
    BY <1>1, <2>1 DEF PidBase
  <2>3. ASSUME NEW k \in Int, k <= n + 1 PROVE ErrorAt(ds, k) = c.e
    <3>1. k >= n + 1 => k = n + 1
      BY <1>1, <2>3
    <3>2. QED  BY <1>1, <2>1, <3>1 DEF ErrorAt
  <2>4. SumOfErrors(ds) = 0
    <3>1. PICK f : Sums1(ds, n + 1, n + 1, f) /\ SumOfErrors(ds) = f[n + 1]
      BY <1>1, <2>1, SumIs
    <3>2. QED  BY <1>1, <3>1 DEF Sums1
  <2>5. QED  BY <2>1, <2>2, <2>3, <2>4
<1>10. QED  BY <1>1, <1>8, <1>9 DEF n, ds, l

(* The output of a PID, from its integral and its last differences.        *)
PidOut(e, b, i, s) ==
    Whole(Gain) ** ((Whole(e + b) ++ ((Cycle ** Whole(i)) // Whole(ResetSeconds))) ++ (Frac(s * RateSeconds, 10) // Cycle))
Course(b, i) == (Whole(ResetSeconds) ** Whole(b)) ++ (Cycle ** Whole(i))

LEMMA PidOutput ==
    ASSUME NEW e \in Int, NEW b \in Int, NEW i \in Int, NEW s \in Int
    PROVE  /\ Course(b, i) \in Real
           /\ Whole(Gain) ** ((Whole(e) ++ (Course(b, i) // Whole(ResetSeconds)))
                                ++ ((Whole(s) // (Whole(10) ** Cycle)) ** Whole(RateSeconds))) = PidOut(e, b, i, s)
           /\ PidOut(e, b, i, s) \in Real
<1> DEFINE R == Whole(ResetSeconds)
           I == Cycle ** Whole(i)
           D == (Whole(s) // (Whole(10) ** Cycle)) ** Whole(RateSeconds)
           B == Whole(b)
           E == Whole(e)
           G == Whole(Gain)
           F == Frac(s * RateSeconds, 10) // Cycle
<1>1. ResetSeconds \in Int /\ RateSeconds \in Int /\ Gain \in Int /\ ResetSeconds # 0
  BY ControlAssumption
<1>2. R \in Real /\ B \in Real /\ E \in Real /\ G \in Real /\ I \in Real
  BY <1>1, IsWhole, CycleReal, RealClosed
<1>3. R[1] # 0
  BY <1>1 DEF Whole
<1>4. D = F
  BY <1>1, RateOfSlope
<1>5. D \in Real
  <2>1. Whole(s) \in Real /\ Whole(RateSeconds) \in Real
    BY <1>1, IsWhole
  <2>2. Whole(s) // (Whole(10) ** Cycle) \in Real
    BY <2>1, CycleReal, RealClosed
  <2>3. QED  BY <2>1, <2>2, RealClosed
<1>6. E ++ B = Whole(e + b)
  BY WholeSums
<1>7. Course(b, i) = (R ** B) ++ I /\ PidOut(e, b, i, s) = G ** ((Whole(e + b) ++ (I // R)) ++ F)
  BY DEF Course, PidOut
<1> HIDE DEF R, I, D, B, E, G, F
<1>8. R ** B \in Real /\ I // R \in Real
  BY <1>2, <1>3, RealClosed
<1>9. Course(b, i) \in Real
  BY <1>2, <1>7, <1>8, RealClosed
<1>10. Course(b, i) // R = B ++ (I // R)
  <2>1. ((R ** B) ++ I) // R = ((R ** B) // R) ++ (I // R)
    BY <1>2, <1>3, <1>8, QuotientOfSum
  <2>2. (R ** B) // R = B
    BY <1>2, <1>3, QuotientOfProduct
  <2>3. QED  BY <1>7, <2>1, <2>2
<1>11. E ++ (B ++ (I // R)) = (E ++ B) ++ (I // R)
  BY <1>2, <1>8, SumAssociates
<1>12. E ++ B \in Real
  BY <1>2, RealClosed
<1>13. (E ++ B) ++ (I // R) \in Real
  BY <1>8, <1>12, RealClosed
<1>14. ((E ++ B) ++ (I // R)) ++ D \in Real
  BY <1>5, <1>13, RealClosed
<1>15. G ** (((E ++ B) ++ (I // R)) ++ D) \in Real
  BY <1>2, <1>14, RealClosed
<1>16. G ** ((E ++ (Course(b, i) // R)) ++ D) = PidOut(e, b, i, s)
  BY <1>4, <1>6, <1>7, <1>10, <1>11
<1>17. PidOut(e, b, i, s) \in Real
  BY <1>4, <1>6, <1>7, <1>15
<1>18. QED  BY <1>9, <1>16, <1>17 DEF E, R, D, G

(* The integral grows by the error, and starts at what a manual call sets. *)
LEMMA CourseGrows ==
    ASSUME NEW b \in Int, NEW i \in Int, NEW e \in Int
    PROVE  /\ Course(b, i) ++ (Whole(e) ** Cycle) = Course(b, i + e)
           /\ Course(b, 0) = Whole(ResetSeconds) ** Whole(b)
<1> DEFINE P == Whole(ResetSeconds) ** Whole(b)
           I == Whole(i)
           E == Whole(e)
<1>1. ResetSeconds \in Int
  BY ControlAssumption
<1>2. P \in Real /\ I \in Real /\ E \in Real /\ Cycle \in Real
  BY <1>1, IsWhole, CycleReal, RealClosed
<1>3. I ++ E = Whole(i + e)
  BY WholeSums
<1>4. Course(b, i) = P ++ (Cycle ** I) /\ Course(b, i + e) = P ++ (Cycle ** Whole(i + e)) /\ Course(b, 0) = P ++ (Cycle ** Whole(0))
  BY DEF Course
<1> HIDE DEF P, I, E
<1>5. Cycle ** I \in Real /\ Cycle ** E \in Real /\ E ** Cycle = Cycle ** E
  BY <1>2, RealClosed, SumCommutes
<1>6. (P ++ (Cycle ** I)) ++ (Cycle ** E) = P ++ ((Cycle ** I) ++ (Cycle ** E))
  BY <1>2, <1>5, SumAssociates
<1>7. (Cycle ** I) ++ (Cycle ** E) = Cycle ** (I ++ E)
  BY <1>2, ProductOfSum
<1>8. Course(b, i) ++ (E ** Cycle) = Course(b, i + e)
  BY <1>3, <1>4, <1>5, <1>6, <1>7
<1>9. Course(b, 0) = P
  BY <1>2, <1>4, NothingAdded
<1>10. QED  BY <1>8, <1>9 DEF E, P

(* The derivative of four errors.                                          *)
LEMMA SlopeOf ==
    ASSUME NEW a \in Int, NEW b \in Int, NEW c \in Int, NEW d \in Int
    PROVE  ((Whole(3) ** (Whole(a) -- Whole(d))) ++ Whole(b)) -- Whole(c) = Whole(3 * (a - d) + b - c)
<1> DEFINE u == a - d
           v == 3 * u
           w == v + b
<1>1. u \in Int
  OBVIOUS
<1>2. Whole(a) -- Whole(d) = Whole(u)
  BY WholeSums
<1> HIDE DEF u
<1>3. Whole(3) ** Whole(u) = Whole(v) /\ v \in Int
  BY <1>1, WholeSums
<1> HIDE DEF v
<1>4. Whole(v) ++ Whole(b) = Whole(w) /\ w \in Int
  BY <1>3, WholeSums
<1> HIDE DEF w
<1>5. Whole(w) -- Whole(c) = Whole(w - c)
  BY <1>4, WholeSums
<1>6. QED  BY <1>2, <1>3, <1>4, <1>5 DEF u, v, w

-----------------------------------------------------------------------------
PidInv ==
    family = "pid" =>
        /\ calls \in Seq(PidCall)
        /\ pid.iterm = Course(PidBase(calls), SumOfErrors(calls))
        /\ pid.dterm \in DERIVATIVE_data
        /\ pid.dterm.x1 = Whole(ErrorAt(calls, Len(calls)))
        /\ pid.dterm.x2 = Whole(ErrorAt(calls, Len(calls) - 1))
        /\ pid.dterm.x3 = Whole(ErrorAt(calls, Len(calls) - 2))
        /\ pid.xout \in Real /\ pid.error \in Real
        /\ Len(calls) > 0 =>
              LET e(back) == ErrorAt(calls, Len(calls) - back)
                  slope == IF ManualCall(calls) = Len(calls) THEN 0 ELSE 3 * (e(0) - e(3)) + e(1) - e(2)
              IN  pid.xout = PidOut(e(0), PidBase(calls), SumOfErrors(calls), slope)

LEMMA InvOnCourse == PidInv => PidWithoutBump
<1> SUFFICES ASSUME PidInv, family = "pid", N > 0 PROVE PidWithoutBump
  BY DEF PidWithoutBump
<1> DEFINE e(back) == ErrorAt(calls, Len(calls) - back)
           slope == IF ManualCall(calls) = Len(calls) THEN 0 ELSE 3 * (e(0) - e(3)) + e(1) - e(2)
<1>1. pid.xout = PidOut(e(0), PidBase(calls), SumOfErrors(calls), slope)
  BY DEF PidInv, N
<1>2. QED  BY <1>1 DEF PidWithoutBump, PidOut, PidBase, Cycle, N

LEMMA PidStarts == ControlInit => PidInv
<1> SUFFICES ASSUME ControlInit PROVE PidInv
  OBVIOUS
<1>1. calls = <<>> /\ pid = [xout |-> Whole(0), error |-> Whole(0), iterm |-> Whole(0),
                             dterm |-> [xout |-> Whole(0), x1 |-> Whole(0), x2 |-> Whole(0), x3 |-> Whole(0)]]
  BY DEF ControlInit, PID_init, INTEGRAL_init, DERIVATIVE_init
<1>2. Manuals(calls) = {} /\ LastOf({}) = 0 /\ Len(calls) = 0 /\ calls \in Seq(PidCall) /\ Whole(0) \in Real
  BY <1>1, LastExists, IsWhole DEF IsLast, Manuals
<1>3. ManualCall(calls) = 0
  BY <1>2 DEF ManualCall, Manuals
<1>4. PidBase(calls) = 0 /\ \A k \in Int : k < 1 => ErrorAt(calls, k) = 0
  BY <1>3 DEF PidBase, ErrorAt
<1>5. SumOfErrors(calls) = 0
  <2>1. ManualCall(calls) \in Nat /\ calls \in Seq(PidCall)
    BY <1>2, <1>3
  <2>2. \E f : Sums1(calls, ManualCall(calls), Len(calls), f) /\ SumOfErrors(calls) = f[Len(calls)]
    BY <2>1, SumIs
  <2>3. PICK f : Sums1(calls, 0, 0, f) /\ SumOfErrors(calls) = f[0]
    BY <1>2, <1>3, <2>2
  <2>4. QED  BY <2>3 DEF Sums1
<1>6. Course(0, 0) = Whole(0)
  <2>1. ResetSeconds \in Int
    BY ControlAssumption
  <2>2. Whole(ResetSeconds) ** Whole(0) = Whole(0)
    BY <2>1, IsWhole, NothingAdded
  <2>3. QED  BY <2>2, CourseGrows
<1>7. pid.dterm \in DERIVATIVE_data
  BY <1>1, <1>2 DEF DERIVATIVE_data
<1>8. ErrorAt(calls, Len(calls)) = 0 /\ ErrorAt(calls, Len(calls) - 1) = 0 /\ ErrorAt(calls, Len(calls) - 2) = 0
  BY <1>2, <1>4
<1>9. QED  BY <1>1, <1>2, <1>4, <1>5, <1>6, <1>7, <1>8 DEF PidInv

LEMMA PidKept == PidInv /\ [Next]_vars => PidInv'
<1> SUFFICES ASSUME PidInv, [Next]_vars, family' = "pid" PROVE PidInv'
  BY DEF PidInv
<1>1. family = "pid"
  BY DEF Next, vars
<1>2. UNCHANGED controls \/ \E auto \in BOOLEAN, pv, x0 \in Levels : PID_body(auto, pv, 0, x0)
  <2>1. CASE UNCHANGED vars
    BY <2>1 DEF vars
  <2>2. CASE BlockCall
    <3>1. \E en \in Enables : UNCHANGED controls \/ PidNext(en)
      BY <1>1, <2>2 DEF BlockCall
    <3>2. QED  BY <3>1 DEF PidNext, PID
  <2>3. CASE FunctionCall \/ TaskStep
    BY <2>3 DEF FunctionCall, TaskStep
  <2>4. QED  BY <2>1, <2>2, <2>3 DEF Next
<1>3. CASE UNCHANGED controls
  <2>1. calls' = calls /\ pid' = pid
    BY <1>3 DEF controls
  <2>2. QED  BY <1>1, <2>1 DEF PidInv
<1>4. ASSUME NEW auto \in BOOLEAN, NEW pv \in Levels, NEW x0 \in Levels, PID_body(auto, pv, 0, x0)
      PROVE  PidInv'
  <2> DEFINE c == [auto |-> auto, e |-> pv - 0, x0 |-> x0]
             n == Len(calls)
             error == Whole(pv) -- Whole(0)
             R == Whole(ResetSeconds)
             iterm == IF auto THEN pid.iterm ++ (error ** Cycle) ELSE R ** (Whole(x0) -- error)
             d == pid.dterm
             dterm == DERIVATIVE_body(d, auto, error)
             xout == Whole(Gain) ** ((error ++ (iterm // R)) ++ (dterm.xout ** Whole(RateSeconds)))
             b == PidBase(calls)
             i == SumOfErrors(calls)
             e(k) == ErrorAt(calls, k)
             Kept == /\ calls' \in Seq(PidCall)
                     /\ pid'.iterm = Course(PidBase(calls'), SumOfErrors(calls'))
                     /\ pid'.dterm \in DERIVATIVE_data
                     /\ pid'.dterm.x1 = Whole(ErrorAt(calls', Len(calls')))
                     /\ pid'.dterm.x2 = Whole(ErrorAt(calls', Len(calls') - 1))
                     /\ pid'.dterm.x3 = Whole(ErrorAt(calls', Len(calls') - 2))
                     /\ pid'.xout \in Real /\ pid'.error \in Real
                     /\ Len(calls') > 0 =>
                           LET f(back) == ErrorAt(calls', Len(calls') - back)
                               slope == IF ManualCall(calls') = Len(calls') THEN 0 ELSE 3 * (f(0) - f(3)) + f(1) - f(2)
                           IN  pid'.xout = PidOut(f(0), PidBase(calls'), SumOfErrors(calls'), slope)
  <2>1. Kept => PidInv'
    BY DEF PidInv, PidBase, SumOfErrors, ErrorAt, ManualCall
  <2>2. /\ calls' = Append(calls, c)
        /\ pid' = [xout |-> xout, error |-> error, iterm |-> iterm, dterm |-> dterm]
    BY <1>4 DEF PID_body, Record, INTEGRAL, INTEGRAL_body, DERIVATIVE, Cycle
  <2>3. x0 \in Int /\ pv \in Int /\ pv - 0 = pv /\ ResetSeconds \in Int /\ Gain \in Int /\ RateSeconds \in Int
    BY ControlAssumption
  <2>4. c \in PidCall /\ c.auto = auto /\ c.e = pv /\ c.x0 = x0
    BY <2>3 DEF PidCall
  <2>5. error = Whole(pv) /\ Whole(pv) \in Real
    BY <2>3, WholeSums, IsWhole
  <2>6. /\ calls \in Seq(PidCall) /\ pid.iterm = Course(b, i) /\ d \in DERIVATIVE_data
        /\ d.x1 = Whole(e(n)) /\ d.x2 = Whole(e(n - 1)) /\ d.x3 = Whole(e(n - 2))
    BY <1>1 DEF PidInv
  <2> HIDE DEF c, n, error, xout, iterm, d, dterm, e, Kept
  <2>7. /\ n \in Nat /\ calls' \in Seq(PidCall) /\ Len(calls') = n + 1
        /\ auto =>
              /\ ManualCall(calls') # n + 1 /\ PidBase(calls') = b /\ SumOfErrors(calls') = i + pv
              /\ ErrorAt(calls', n + 1) = pv
              /\ \A k \in Int : k <= n => ErrorAt(calls', k) = e(k)
        /\ ~auto =>
              /\ ManualCall(calls') = n + 1 /\ PidBase(calls') = x0 - pv /\ SumOfErrors(calls') = 0
              /\ \A k \in Int : k <= n + 1 => ErrorAt(calls', k) = pv
    BY <2>2, <2>4, <2>6, PidCallAdded DEF n, e
  <2>8. b \in Int /\ i \in Int /\ \A k \in Int : k <= n => e(k) \in Int
    BY <2>6, ManualIs DEF n, e
  <2> HIDE DEF b, i
  <2>9. /\ n + 1 - 1 \in Int /\ n + 1 - 2 \in Int /\ n + 1 - 3 \in Int /\ n + 1 - 0 = n + 1 /\ n + 1 \in Int /\ n + 1 > 0
        /\ n + 1 - 1 = n /\ n + 1 - 2 = n - 1 /\ n + 1 - 3 = n - 2 /\ n - 1 <= n /\ n - 2 <= n /\ n <= n
        /\ n - 1 <= n + 1 /\ n <= n + 1 /\ n - 2 <= n + 1 /\ n + 1 <= n + 1 /\ n \in Int /\ n - 1 \in Int /\ n - 2 \in Int
    BY <2>7
  <2>10. pid'.iterm = iterm /\ pid'.dterm = dterm /\ pid'.xout = xout /\ pid'.error = error
    BY <2>2
  <2>11. CASE auto
    <3> DEFINE s == 3 * (pv - e(n - 2)) + e(n) - e(n - 1)
    <3>1. e(n) \in Int /\ e(n - 1) \in Int /\ e(n - 2) \in Int /\ s \in Int
      BY <2>3, <2>8, <2>9
    <3>2. iterm = Course(b, i + pv) /\ i + pv \in Int
      <4>1. iterm = Course(b, i) ++ (Whole(pv) ** Cycle)
        BY <2>5, <2>6, <2>11 DEF iterm
      <4>2. QED  BY <2>3, <2>8, <4>1, CourseGrows
    <3>3. dterm = [xout |-> Whole(s) // (Whole(10) ** Cycle), x1 |-> Whole(pv), x2 |-> Whole(e(n)), x3 |-> Whole(e(n - 1))]
      <4>1. ((Whole(3) ** (Whole(pv) -- Whole(e(n - 2)))) ++ Whole(e(n))) -- Whole(e(n - 1)) = Whole(s)
        <5> DEFINE u == e(n)
                   v == e(n - 1)
                   w == e(n - 2)
        <5>1. pv \in Int /\ u \in Int /\ v \in Int /\ w \in Int
          BY <2>3, <3>1
        <5>2. Whole(s) = Whole(3 * (pv - w) + u - v)
          OBVIOUS
        <5> HIDE DEF u, v, w, s
        <5>3. ((Whole(3) ** (Whole(pv) -- Whole(w))) ++ Whole(u)) -- Whole(v) = Whole(s)
          BY <5>1, <5>2, SlopeOf
        <5>4. QED  BY <5>3 DEF u, v, w
      <4>2. dterm = [xout |-> (((Whole(3) ** (error -- d.x3)) ++ d.x1) -- d.x2) // (Whole(10) ** Cycle),
                     x1 |-> error, x2 |-> d.x1, x3 |-> d.x2]
        BY <2>11 DEF dterm, DERIVATIVE_body, Cycle
      <4> HIDE DEF s
      <4>3. QED  BY <2>5, <2>6, <4>1, <4>2
    <3> HIDE DEF s
    <3>4. Whole(s) // (Whole(10) ** Cycle) \in Real
      BY <3>1, IsWhole, CycleReal, RealClosed
    <3>5. dterm \in DERIVATIVE_data
      BY <2>5, <3>1, <3>3, <3>4, IsWhole DEF DERIVATIVE_data
    <3>6. xout = PidOut(pv, b, i + pv, s) /\ xout \in Real
      <4>1. dterm.xout = Whole(s) // (Whole(10) ** Cycle)
        BY <3>3
      <4>2. xout = Whole(Gain) ** ((Whole(pv) ++ (Course(b, i + pv) // Whole(ResetSeconds)))
                                ++ ((Whole(s) // (Whole(10) ** Cycle)) ** Whole(RateSeconds)))
        BY <2>5, <3>2, <4>1 DEF xout
      <4>3. QED  BY <2>3, <2>8, <3>1, <3>2, <4>2, PidOutput
    <3>7. /\ ErrorAt(calls', n + 1) = pv /\ ErrorAt(calls', n) = e(n)
          /\ ErrorAt(calls', n - 1) = e(n - 1) /\ ErrorAt(calls', n - 2) = e(n - 2)
      BY <2>7, <2>9, <2>11
    <3>8. dterm.x1 = Whole(pv) /\ dterm.x2 = Whole(e(n)) /\ dterm.x3 = Whole(e(n - 1))
      BY <3>3
    <3>9. QED  BY <2>1, <2>5, <2>7, <2>9, <2>10, <2>11, <3>2, <3>5, <3>6, <3>7, <3>8 DEF Kept, s
  <2>12. CASE ~auto
    <3> DEFINE a == x0 - pv
    <3>1. a \in Int /\ 0 \in Int
      BY <2>3
    <3>2. iterm = Course(a, 0)
      <4>1. Whole(x0) -- error = Whole(a)
        BY <2>3, <2>5, WholeSums
      <4>2. iterm = Whole(ResetSeconds) ** Whole(a)
        BY <2>12, <4>1 DEF iterm
      <4> HIDE DEF a
      <4>3. QED  BY <3>1, <4>2, CourseGrows
    <3>3. dterm = [xout |-> Whole(0), x1 |-> Whole(pv), x2 |-> Whole(pv), x3 |-> Whole(pv)]
      BY <2>5, <2>12 DEF dterm, DERIVATIVE_body
    <3>4. dterm \in DERIVATIVE_data
      BY <2>5, <3>3, IsWhole DEF DERIVATIVE_data
    <3>5. Whole(0) = Whole(0) // (Whole(10) ** Cycle)
      <4> DEFINE t == Whole(10) ** Cycle
      <4>1. t \in Real /\ t[1] # 0 /\ Whole(0) \in Real
        BY CycleReal, IsWhole
      <4> HIDE DEF t
      <4>2. t ** Whole(0) = Whole(0) /\ (t ** Whole(0)) // t = Whole(0)
        BY <4>1, NothingAdded, QuotientOfProduct
      <4>3. QED  BY <4>2 DEF t
    <3>6. xout = PidOut(pv, a, 0, 0) /\ xout \in Real
      <4>1. dterm.xout = Whole(0) // (Whole(10) ** Cycle)
        BY <3>3, <3>5
      <4> HIDE DEF a
      <4>2. xout = Whole(Gain) ** ((Whole(pv) ++ (Course(a, 0) // Whole(ResetSeconds)))
                                ++ ((Whole(0) // (Whole(10) ** Cycle)) ** Whole(RateSeconds)))
        BY <2>5, <3>2, <4>1 DEF xout
      <4>3. QED  BY <2>3, <3>1, <4>2, PidOutput
    <3>7. /\ ErrorAt(calls', n + 1) = pv /\ ErrorAt(calls', n) = pv
          /\ ErrorAt(calls', n - 1) = pv /\ ErrorAt(calls', n - 2) = pv
      BY <2>7, <2>9, <2>12
    <3>8. dterm.x1 = Whole(pv) /\ dterm.x2 = Whole(pv) /\ dterm.x3 = Whole(pv)
      BY <3>3
    <3>9. QED  BY <2>1, <2>5, <2>7, <2>9, <2>10, <2>12, <3>2, <3>4, <3>6, <3>7, <3>8 DEF Kept
  <2>13. QED  BY <2>11, <2>12
<1>5. QED  BY <1>2, <1>3, <1>4

(* What RAMP, PID, HYSTERESIS and SEMA answer is said by the calls so far: *)
(* a ramp is on its line at the time it has run, a PID goes on from its    *)
(* manual output without a bump, and the switches remember.  So it is for  *)
(* every time between calls, length of a ramp, gain, time constant, input  *)
(* and band, and any order of calls.                                       *)
THEOREM RegulatorsAlwaysKeepCourse == Spec => []RegulatorsKeepCourse
<1> DEFINE Inv == RampInv /\ PidInv /\ SwitchInv
<1>1. Init => Inv
  BY RampStarts, PidStarts, SwitchesStart DEF Init
<1>2. Inv /\ [Next]_vars => Inv'
  BY RampKept, PidKept, SwitchesKept
<1>3. Inv => RegulatorsKeepCourse
  BY InvOnLine, InvOnCourse, InvRemembers DEF RegulatorsKeepCourse
<1>4. QED  BY <1>1, <1>2, <1>3, PTL DEF Spec

-----------------------------------------------------------------------------
(* The calendar: the days before a year.                                   *)
YearStart(y) == (y - 1970) * 365 + leap_days(y) - leap_days(1970)

LEMMA YearLength == \A y \in Int : YearLen(y) \in 365 .. 366
BY DEF YearLen

LEMMA LeapDays ==
    ASSUME NEW y \in Int
    PROVE  leap_days(y) \in Int /\ leap_days(y + 1) = leap_days(y) + (IF isleap(y) THEN 1 ELSE 0)
<1>1. leap_days(y) \in Int
  BY SMT DEF leap_days
<1>2. leap_days(y + 1) = leap_days(y) + (IF isleap(y) THEN 1 ELSE 0)
  BY SMT DEF leap_days, isleap
<1>3. QED  BY <1>1, <1>2

LEMMA NextYear ==
    ASSUME NEW y \in Int
    PROVE  YearStart(y) \in Int /\ YearStart(y + 1) = YearStart(y) + YearLen(y) /\ YearStart(1970) = 0
<1> DEFINE l == leap_days(y)
           e == leap_days(1970)
           n == leap_days(y + 1)
<1>1. l \in Int /\ e \in Int /\ n = l + (IF isleap(y) THEN 1 ELSE 0)
  BY LeapDays
<1>2. YearStart(y) = (y - 1970) * 365 + l - e /\ YearStart(y + 1) = ((y + 1) - 1970) * 365 + n - e
      /\ YearStart(1970) = (1970 - 1970) * 365 + e - e
  BY DEF YearStart
<1> HIDE DEF l, e, n
<1>3. QED  BY <1>1, <1>2 DEF YearLen

LEMMA YearsGrow ==
    ASSUME NEW y \in Int, NEW z \in Int, y <= z
    PROVE  YearStart(y) <= YearStart(z)
<1> DEFINE S == {k \in Nat : YearStart(y) <= YearStart(y + k)}
<1>1. 0 \in S
  BY NextYear
<1>2. ASSUME NEW k \in Nat, k \in S PROVE k + 1 \in S
  <2>1. y + k \in Int /\ (y + k) + 1 = y + (k + 1) /\ YearLen(y + k) \in 365 .. 366
    BY YearLength
  <2>2. YearStart(y) \in Int /\ YearStart(y + k) \in Int /\ YearStart(y + (k + 1)) = YearStart(y + k) + YearLen(y + k)
    BY <2>1, NextYear
  <2>3. QED  BY <1>2, <2>1, <2>2
<1>3. Nat \subseteq S
  <2> HIDE DEF S
  <2> QED  BY <1>1, <1>2, SetInduction
<1>4. z - y \in Nat /\ y + (z - y) = z
  OBVIOUS
<1>5. QED  BY <1>3, <1>4

(* Day r of year y is day n from 1970 on.                                  *)
InYear(n, y, r) == y \in Int /\ r \in Nat /\ r < YearLen(y) /\ YearStart(y) + r = n

LEMMA DayInYear ==
    ASSUME NEW n \in Int
    PROVE  \E y, r : InYear(n, y, r)
<1> DEFINE S == {k \in Nat : (\E y, r : InYear(k, y, r)) /\ (\E y, r : InYear(0 - k, y, r))}
<1>1. 0 \in S
  <2>1. InYear(0, 1970, 0)
    BY NextYear, YearLength DEF InYear
  <2>2. 0 - 0 = 0
    OBVIOUS
  <2>3. QED  BY <2>1, <2>2
<1>2. ASSUME NEW k \in Nat, k \in S PROVE k + 1 \in S
  <2>1. \E y, r : InYear(k + 1, y, r)
    <3>1. PICK y, r : InYear(k, y, r)
      BY <1>2
    <3>2. y \in Int /\ r \in Nat /\ YearStart(y) + r = k /\ r < YearLen(y) /\ YearLen(y) \in 365 .. 366 /\ YearStart(y) \in Int
      BY <3>1, YearLength, NextYear DEF InYear
    <3>3. CASE r + 1 < YearLen(y)
      <4>1. InYear(k + 1, y, r + 1)
        BY <3>2, <3>3 DEF InYear
      <4>2. QED  BY <4>1
    <3>4. CASE r + 1 = YearLen(y)
      <4>1. y + 1 \in Int /\ YearLen(y + 1) \in 365 .. 366 /\ YearStart(y + 1) = YearStart(y) + YearLen(y)
        BY <3>2, YearLength, NextYear
      <4>2. InYear(k + 1, y + 1, 0)
        BY <3>2, <3>4, <4>1 DEF InYear
      <4>3. QED  BY <4>2
    <3>5. QED  BY <3>2, <3>3, <3>4
  <2>2. \E y, r : InYear(0 - (k + 1), y, r)
    <3>1. PICK y, r : InYear(0 - k, y, r)
      BY <1>2
    <3>2. y \in Int /\ r \in Nat /\ YearStart(y) + r = 0 - k /\ r < YearLen(y) /\ YearLen(y) \in 365 .. 366 /\ YearStart(y) \in Int
      BY <3>1, YearLength, NextYear DEF InYear
    <3>3. CASE r > 0
      <4>1. InYear(0 - (k + 1), y, r - 1)
        BY <3>2, <3>3 DEF InYear
      <4>2. QED  BY <4>1
    <3>4. CASE r = 0
      <4> DEFINE z == y - 1
                 q == YearLen(z) - 1
      <4>1. z \in Int /\ z + 1 = y
        BY <3>2
      <4> HIDE DEF z
      <4>2. YearLen(z) \in 365 .. 366 /\ YearStart(z) \in Int /\ YearStart(y) = YearStart(z) + YearLen(z)
        BY <4>1, YearLength, NextYear
      <4>3. q \in Nat /\ q < YearLen(z) /\ YearStart(z) + q = 0 - (k + 1)
        <5> DEFINE w == YearLen(z)
                   u == YearStart(z)
                   v == YearStart(y)
        <5>1. w \in 365 .. 366 /\ u \in Int /\ v = u + w /\ v = 0 - k
          BY <3>2, <3>4, <4>2
        <5> HIDE DEF u, v, w
        <5>2. w - 1 \in Nat /\ w - 1 < w /\ u + (w - 1) = 0 - (k + 1)
          BY <5>1
        <5>3. QED  BY <5>2 DEF u, w
      <4> HIDE DEF q
      <4>4. InYear(0 - (k + 1), z, q)
        BY <4>1, <4>3 DEF InYear
      <4>5. QED  BY <4>4
    <3>5. QED  BY <3>2, <3>3, <3>4
  <2>3. QED  BY <2>1, <2>2
<1>3. Nat \subseteq S
  <2> HIDE DEF S
  <2> QED  BY <1>1, <1>2, SetInduction
<1>4. CASE n >= 0
  BY <1>3, <1>4
<1>5. CASE n < 0
  <2> DEFINE k == -n
  <2>1. k \in Nat /\ n = 0 - k
    BY <1>5
  <2>2. \E y, r : InYear(0 - k, y, r)
    BY <1>3, <2>1
  <2>3. QED  BY <2>1, <2>2
<1>6. QED  BY <1>4, <1>5

LEMMA OneYear ==
    ASSUME NEW n, NEW y, NEW r, NEW z, NEW q, InYear(n, y, r), InYear(n, z, q)
    PROVE  y = z /\ r = q
<1>1. ASSUME NEW a, NEW s, NEW b, NEW t, InYear(n, a, s), InYear(n, b, t), a < b PROVE FALSE
  <2>1. a \in Int /\ b \in Int /\ s \in Nat /\ t \in Nat /\ s < YearLen(a) /\ YearStart(a) + s = YearStart(b) + t
    BY <1>1 DEF InYear
  <2>2. a + 1 \in Int /\ a + 1 <= b
    BY <1>1, <2>1
  <2>3. YearStart(a) \in Int /\ YearStart(b) \in Int /\ YearLen(a) \in 365 .. 366
        /\ YearStart(a + 1) = YearStart(a) + YearLen(a) /\ YearStart(a + 1) <= YearStart(b)
    BY <2>1, <2>2, NextYear, YearsGrow, YearLength
  <2>4. QED  BY <2>1, <2>3
<1>2. y \in Int /\ z \in Int /\ ~(y < z) /\ ~(z < y)
  BY <1>1 DEF InYear
<1>3. y = z
  BY <1>2
<1>4. r = q
  BY <1>2, <1>3, NextYear DEF InYear
<1>5. QED  BY <1>3, <1>4

-----------------------------------------------------------------------------
(* year_of is defined, and counts the years.                               *)
LEMMA YearReads ==
    ASSUME NEW y \in Int, NEW d \in Int
    PROVE  year_of[y][d] = IF d < 0 THEN year_of[y - 1][d + YearLen(y - 1)]
                           ELSE IF d >= YearLen(y) THEN year_of[y + 1][d - YearLen(y)]
                           ELSE <<y, d>>
<1> DEFINE E(f, a, b) == IF b < 0 THEN f[a - 1][b + YearLen(a - 1)]
                         ELSE IF b >= YearLen(a) THEN f[a + 1][b - YearLen(a)]
                         ELSE <<a, b>>
           F(f) == [a \in Int |-> [b \in Int |-> E(f, a, b)]]
           H(n) == CHOOSE p : \E z, r : p = <<z, r>> /\ InYear(n, z, r)
           g == [a \in Int |-> [b \in Int |-> H(YearStart(a) + b)]]
<1>1. year_of = CHOOSE f : f = F(f)
  BY DEF year_of
<1>2. \A n : \A z, r : InYear(n, z, r) => H(n) = <<z, r>>
  <2> SUFFICES ASSUME NEW n, NEW z, NEW r, InYear(n, z, r) PROVE H(n) = <<z, r>>
    OBVIOUS
  <2>1. \A p : (\E v, s : p = <<v, s>> /\ InYear(n, v, s)) <=> p = <<z, r>>
    <3>1. \A v, s : InYear(n, v, s) => v = z /\ s = r
      BY OneYear
    <3>2. QED  BY <3>1
  <2>2. QED  BY <2>1
<1>3. ASSUME NEW a \in Int, NEW b \in Int PROVE H(YearStart(a) + b) = E(g, a, b)
  <2>1. CASE b < 0
    <3>1. a - 1 \in Int /\ (a - 1) + 1 = a
      OBVIOUS
    <3>2. YearStart(a - 1) \in Int /\ YearLen(a - 1) \in 365 .. 366 /\ YearStart(a) = YearStart(a - 1) + YearLen(a - 1)
      BY <3>1, NextYear, YearLength
    <3>3. b + YearLen(a - 1) \in Int /\ YearStart(a - 1) + (b + YearLen(a - 1)) = YearStart(a) + b
      BY <3>2
    <3> HIDE DEF H
    <3>4. g[a - 1][b + YearLen(a - 1)] = H(YearStart(a - 1) + (b + YearLen(a - 1)))
      BY <3>1, <3>3
    <3> HIDE DEF g
    <3>5. QED  BY <2>1, <3>3, <3>4
  <2>2. CASE b >= YearLen(a)
    <3>1. a + 1 \in Int /\ YearLen(a) \in 365 .. 366 /\ YearStart(a) \in Int /\ YearStart(a + 1) = YearStart(a) + YearLen(a)
      BY NextYear, YearLength
    <3>2. b - YearLen(a) \in Int /\ YearStart(a + 1) + (b - YearLen(a)) = YearStart(a) + b /\ ~(b < 0)
      BY <2>2, <3>1
    <3> HIDE DEF H
    <3>3. g[a + 1][b - YearLen(a)] = H(YearStart(a + 1) + (b - YearLen(a)))
      BY <3>1, <3>2
    <3> HIDE DEF g
    <3>4. QED  BY <2>2, <3>2, <3>3
  <2>3. CASE ~(b < 0) /\ ~(b >= YearLen(a))
    <3>1. InYear(YearStart(a) + b, a, b)
      BY <2>3, YearLength DEF InYear
    <3> HIDE DEF H, g
    <3>2. QED  BY <1>2, <2>3, <3>1
  <2>4. QED  BY <2>1, <2>2, <2>3
<1>4. g = F(g)
  <2> HIDE DEF H, E
  <2> DEFINE h == g
  <2>1. \A a, b \in Int : H(YearStart(a) + b) = E(h, a, b)
    BY <1>3
  <2> HIDE DEF h
  <2>2. g = [a \in Int |-> [b \in Int |-> E(h, a, b)]]
    BY <2>1
  <2>3. QED  BY <2>2 DEF h
<1>5. year_of = F(year_of)
  <2> HIDE DEF F, g
  <2> QED  BY <1>1, <1>4
<1>6. \A a, b \in Int : year_of[a][b] = E(year_of, a, b)
  <2> HIDE DEF E
  <2> QED  BY <1>5
<1>7. QED  BY <1>6

LEMMA YearCounted ==
    ASSUME NEW n \in Int, NEW y, NEW r, InYear(n, y, r)
    PROVE  year_of[1970][n] = <<y, r>>
<1>1. y \in Int /\ r \in Nat /\ r < YearLen(y) /\ YearStart(y) + r = n /\ YearStart(y) \in Int /\ YearStart(1970) = 0
  BY NextYear DEF InYear
<1>2. year_of[y][n - YearStart(y)] = <<y, r>>
  <2>1. n - YearStart(y) = r /\ r \in Int /\ ~(r < 0) /\ YearLen(y) \in 365 .. 366
    BY <1>1, YearLength
  <2>2. ~(r >= YearLen(y))
    BY <1>1, <2>1
  <2>3. year_of[y][r] = IF r < 0 THEN year_of[y - 1][r + YearLen(y - 1)]
                        ELSE IF r >= YearLen(y) THEN year_of[y + 1][r - YearLen(y)]
                        ELSE <<y, r>>
    BY <1>1, <2>1, YearReads
  <2>3a. year_of[y][r] = <<y, r>>
    BY <2>1, <2>2, <2>3
  <2>4. QED  BY <2>1, <2>3a
<1>3. CASE y >= 1970
  <2> DEFINE S == {k \in Nat : year_of[y - k][n - YearStart(y - k)] = <<y, r>>}
  <2>1. 0 \in S
    <3>1. y - 0 = y
      BY <1>1
    <3>2. QED  BY <1>2, <3>1
  <2>2. ASSUME NEW k \in Nat, k \in S PROVE k + 1 \in S
    <3> DEFINE z == y - (k + 1)
    <3>1. z \in Int /\ z + 1 = y - k /\ z + 1 \in Int /\ z + 1 <= y
      BY <1>1
    <3> HIDE DEF z
    <3>2. YearStart(z) \in Int /\ YearLen(z) \in 365 .. 366 /\ YearStart(z + 1) = YearStart(z) + YearLen(z) /\ YearStart(z + 1) <= YearStart(y)
      <4>1. YearStart(z) \in Int /\ YearLen(z) \in 365 .. 366 /\ YearStart(z + 1) = YearStart(z) + YearLen(z)
        BY <3>1, NextYear, YearLength
      <4>2. YearStart(z + 1) <= YearStart(y)
        BY <1>1, <3>1, YearsGrow
      <4>3. QED  BY <4>1, <4>2
    <3> DEFINE d == n - YearStart(z)
    <3>3. d \in Int /\ d >= YearLen(z) /\ ~(d < 0) /\ d - YearLen(z) = n - YearStart(z + 1)
      BY <1>1, <3>2
    <3> HIDE DEF d
    <3>4. year_of[z][d] = year_of[z + 1][d - YearLen(z)]
      BY <3>1, <3>3, YearReads
    <3>5. year_of[z][d] = <<y, r>>
      BY <2>2, <3>1, <3>3, <3>4
    <3>6. QED  BY <3>5 DEF z, d
  <2>3. Nat \subseteq S
    <3> HIDE DEF S
    <3> QED  BY <2>1, <2>2, SetInduction
  <2> DEFINE m == y - 1970
  <2>4. m \in Nat /\ y - m = 1970 /\ n - 0 = n
    BY <1>1, <1>3
  <2> HIDE DEF m
  <2>5. year_of[y - m][n - YearStart(y - m)] = <<y, r>>
    BY <2>3, <2>4
  <2>6. QED  BY <1>1, <2>4, <2>5
<1>4. CASE y < 1970
  <2> DEFINE S == {k \in Nat : year_of[y + k][n - YearStart(y + k)] = <<y, r>>}
  <2>1. 0 \in S
    <3>1. y + 0 = y
      BY <1>1
    <3>2. QED  BY <1>2, <3>1
  <2>2. ASSUME NEW k \in Nat, k \in S PROVE k + 1 \in S
    <3> DEFINE z == y + (k + 1)
               x == y + k
    <3>1. z \in Int /\ z - 1 = x /\ x \in Int /\ y + 1 <= z /\ x + 1 = z /\ y + 1 \in Int
      BY <1>1
    <3> HIDE DEF z, x
    <3>2. /\ YearStart(x) \in Int /\ YearLen(x) \in 365 .. 366 /\ YearStart(z) = YearStart(x) + YearLen(x)
          /\ YearStart(z) \in Int /\ YearStart(y + 1) = YearStart(y) + YearLen(y) /\ YearStart(y + 1) <= YearStart(z) /\ YearLen(y) \in 365 .. 366
      <4>1. YearStart(x) \in Int /\ YearLen(x) \in 365 .. 366 /\ YearStart(x + 1) = YearStart(x) + YearLen(x)
        BY <3>1, NextYear, YearLength
      <4>2. YearStart(y + 1) = YearStart(y) + YearLen(y) /\ YearLen(y) \in 365 .. 366 /\ YearStart(z) \in Int
        BY <1>1, <3>1, NextYear, YearLength
      <4>3. YearStart(y + 1) <= YearStart(z)
        BY <3>1, YearsGrow
      <4>4. QED  BY <3>1, <4>1, <4>2, <4>3
    <3> DEFINE d == n - YearStart(z)
    <3>3. d \in Int /\ d < 0 /\ d + YearLen(x) = n - YearStart(x)
      BY <1>1, <3>2
    <3> HIDE DEF d
    <3>4. year_of[z][d] = year_of[x][d + YearLen(x)]
      BY <3>1, <3>3, YearReads
    <3>5. year_of[z][d] = <<y, r>>
      BY <2>2, <3>3, <3>4 DEF x
    <3>6. QED  BY <3>5 DEF z, d
  <2>3. Nat \subseteq S
    <3> HIDE DEF S
    <3> QED  BY <2>1, <2>2, SetInduction
  <2> DEFINE m == 1970 - y
  <2>4. m \in Nat /\ y + m = 1970 /\ n - 0 = n
    BY <1>1, <1>4
  <2> HIDE DEF m
  <2>5. year_of[y + m][n - YearStart(y + m)] = <<y, r>>
    BY <2>3, <2>4
  <2>6. QED  BY <1>1, <2>4, <2>5
<1>5. QED  BY <1>1, <1>3, <1>4

-----------------------------------------------------------------------------
(* The months of a year.                                                   *)
Leap(y) == IF isleap(y) THEN 1 ELSE 0

LEMMA MonthStarts ==
    ASSUME NEW y \in Int
    PROVE  /\ mon_yday(y, 0) = 0 /\ mon_yday(y, 1) = 31 /\ mon_yday(y, 2) = 59 + Leap(y) /\ mon_yday(y, 3) = 90 + Leap(y)
           /\ mon_yday(y, 4) = 120 + Leap(y) /\ mon_yday(y, 5) = 151 + Leap(y) /\ mon_yday(y, 6) = 181 + Leap(y)
           /\ mon_yday(y, 7) = 212 + Leap(y) /\ mon_yday(y, 8) = 243 + Leap(y) /\ mon_yday(y, 9) = 273 + Leap(y)
           /\ mon_yday(y, 10) = 304 + Leap(y) /\ mon_yday(y, 11) = 334 + Leap(y) /\ mon_yday(y, 12) = 365 + Leap(y)
           /\ Leap(y) \in 0 .. 1 /\ YearLen(y) = 365 + Leap(y)
<1>1. Leap(y) \in 0 .. 1 /\ YearLen(y) = 365 + Leap(y)
  BY DEF Leap, YearLen
<1>2. mon_yday(y, 0) = 0 /\ mon_yday(y, 1) = 31
  BY DEF mon_yday
<1> DEFINE normal == <<31, 59, 90, 120, 151, 181, 212, 243, 273, 304, 334, 365>>
<1>3. \A m \in 2 .. 12 : mon_yday(y, m) = normal[m] + Leap(y)
  <2> SUFFICES ASSUME NEW m \in 2 .. 12 PROVE mon_yday(y, m) = normal[m] + Leap(y)
    OBVIOUS
  <2>1. m > 1 /\ m # 0
    OBVIOUS
  <2>2. mon_yday(y, m) = IF m = 0 THEN 0 ELSE normal[m] + IF m > 1 /\ isleap(y) THEN 1 ELSE 0
    BY DEF mon_yday
  <2> HIDE DEF normal
  <2>3. QED  BY <2>1, <2>2 DEF Leap
<1>4. /\ normal[2] = 59 /\ normal[3] = 90 /\ normal[4] = 120 /\ normal[5] = 151 /\ normal[6] = 181 /\ normal[7] = 212
      /\ normal[8] = 243 /\ normal[9] = 273 /\ normal[10] = 304 /\ normal[11] = 334 /\ normal[12] = 365
  OBVIOUS
<1> HIDE DEF normal
<1>5. QED  BY <1>1, <1>2, <1>3, <1>4

LEMMA EachMonth == \A m \in 1 .. 12 : m = 1 \/ m = 2 \/ m = 3 \/ m = 4 \/ m = 5 \/ m = 6 \/ m = 7 \/ m = 8 \/ m = 9
                                      \/ m = 10 \/ m = 11 \/ m = 12
OBVIOUS

LEMMA MonthLengths ==
    ASSUME NEW y \in Int, NEW m \in 1 .. 12
    PROVE  /\ mon_yday(y, m - 1) \in Nat /\ mon_yday(y, m) = mon_yday(y, m - 1) + MonthLen(y, m)
           /\ MonthLen(y, m) \in 28 .. 31 /\ mon_yday(y, m) \in Nat
<1>1. /\ MonthLen(y, 1) = 31 /\ MonthLen(y, 2) = 28 + Leap(y) /\ MonthLen(y, 3) = 31 /\ MonthLen(y, 4) = 30
      /\ MonthLen(y, 5) = 31 /\ MonthLen(y, 6) = 30 /\ MonthLen(y, 7) = 31 /\ MonthLen(y, 8) = 31
      /\ MonthLen(y, 9) = 30 /\ MonthLen(y, 10) = 31 /\ MonthLen(y, 11) = 30 /\ MonthLen(y, 12) = 31
  BY DEF MonthLen, Leap
<1>2. /\ 1 - 1 = 0 /\ 2 - 1 = 1 /\ 3 - 1 = 2 /\ 4 - 1 = 3 /\ 5 - 1 = 4 /\ 6 - 1 = 5 /\ 7 - 1 = 6 /\ 8 - 1 = 7
      /\ 9 - 1 = 8 /\ 10 - 1 = 9 /\ 11 - 1 = 10 /\ 12 - 1 = 11
  OBVIOUS
<1>3. CASE m = 1   BY <1>1, <1>2, <1>3, MonthStarts
<1>4. CASE m = 2   BY <1>1, <1>2, <1>4, MonthStarts
<1>5. CASE m = 3   BY <1>1, <1>2, <1>5, MonthStarts
<1>6. CASE m = 4   BY <1>1, <1>2, <1>6, MonthStarts
<1>7. CASE m = 5   BY <1>1, <1>2, <1>7, MonthStarts
<1>8. CASE m = 6   BY <1>1, <1>2, <1>8, MonthStarts
<1>9. CASE m = 7   BY <1>1, <1>2, <1>9, MonthStarts
<1>10. CASE m = 8  BY <1>1, <1>2, <1>10, MonthStarts
<1>11. CASE m = 9  BY <1>1, <1>2, <1>11, MonthStarts
<1>12. CASE m = 10 BY <1>1, <1>2, <1>12, MonthStarts
<1>13. CASE m = 11 BY <1>1, <1>2, <1>13, MonthStarts
<1>14. CASE m = 12 BY <1>1, <1>2, <1>14, MonthStarts
<1>15. QED
  BY <1>3, <1>4, <1>5, <1>6, <1>7, <1>8, <1>9, <1>10, <1>11, <1>12, <1>13, <1>14, EachMonth

(* Day r of a year, counted from 0, is day e of month m.                   *)
InMonth(y, r, m) == m \in 1 .. 12 /\ mon_yday(y, m - 1) <= r /\ r < mon_yday(y, m)

LEMMA MonthsGrow ==
    ASSUME NEW y \in Int, NEW m \in 1 .. 12, NEW k \in 1 .. 12, m < k
    PROVE  mon_yday(y, m) <= mon_yday(y, k - 1)
<1> DEFINE S == {j \in Nat : m + j <= 12 => mon_yday(y, m) <= mon_yday(y, m + j)}
<1>1. mon_yday(y, m) \in Nat
  BY MonthLengths
<1>2. 0 \in S
  BY <1>1
<1>3. ASSUME NEW j \in Nat, j \in S PROVE j + 1 \in S
  <2>1. SUFFICES ASSUME m + (j + 1) <= 12 PROVE mon_yday(y, m) <= mon_yday(y, m + (j + 1))
    OBVIOUS
  <2> DEFINE n == m + (j + 1)
  <2>2. n \in 1 .. 12 /\ n - 1 = m + j /\ m + j <= 12
    BY <2>1
  <2> HIDE DEF n
  <2>3. mon_yday(y, n - 1) \in Nat /\ mon_yday(y, n) = mon_yday(y, n - 1) + MonthLen(y, n) /\ MonthLen(y, n) \in 28 .. 31
    BY <2>2, MonthLengths
  <2>4. mon_yday(y, m) <= mon_yday(y, n - 1)
    BY <1>3, <2>2
  <2> DEFINE a == mon_yday(y, m)
             b == mon_yday(y, n - 1)
             c == mon_yday(y, n)
             l == MonthLen(y, n)
  <2>5. a \in Nat /\ b \in Nat /\ c = b + l /\ l \in 28 .. 31 /\ a <= b
    BY <1>1, <2>3, <2>4
  <2> HIDE DEF a, b, c, l
  <2>6. a <= c
    BY <2>5
  <2>7. QED  BY <2>6 DEF a, c, n
<1>4. Nat \subseteq S
  <2> HIDE DEF S
  <2> QED  BY <1>2, <1>3, SetInduction
<1> DEFINE i == (k - 1) - m
<1>5. i \in Nat /\ m + i = k - 1 /\ m + i <= 12
  OBVIOUS
<1> HIDE DEF i
<1>6. QED  BY <1>4, <1>5

LEMMA MonthFound ==
    ASSUME NEW y \in Int, NEW r \in Nat, r < YearLen(y)
    PROVE  /\ \E m : InMonth(y, r, m)
           /\ \A m, k : InMonth(y, r, m) /\ InMonth(y, r, k) => m = k
<1>1. \E m : InMonth(y, r, m)
  <2> SUFFICES ASSUME \A m : ~InMonth(y, r, m) PROVE FALSE
    OBVIOUS
  <2> DEFINE S == {j \in Nat : j <= 12 => r >= mon_yday(y, j)}
  <2>1. 0 \in S
    BY MonthStarts
  <2>2. ASSUME NEW j \in Nat, j \in S PROVE j + 1 \in S
    <3>1. SUFFICES ASSUME j + 1 <= 12 PROVE r >= mon_yday(y, j + 1)
      OBVIOUS
    <3>2. j + 1 \in 1 .. 12 /\ (j + 1) - 1 = j /\ j <= 12
      BY <3>1
    <3>3. ~InMonth(y, r, j + 1) /\ r >= mon_yday(y, j)
      BY <2>2, <3>2
    <3>4. mon_yday(y, j) \in Nat /\ mon_yday(y, j + 1) \in Nat
      <4>1. mon_yday(y, (j + 1) - 1) \in Nat /\ MonthLen(y, j + 1) \in 28 .. 31
            /\ mon_yday(y, j + 1) = mon_yday(y, (j + 1) - 1) + MonthLen(y, j + 1)
        BY <3>2, MonthLengths
      <4>2. QED  BY <3>2, <4>1
    <3>5. QED  BY <3>2, <3>3, <3>4 DEF InMonth
  <2>3. Nat \subseteq S
    <3> HIDE DEF S
    <3> QED  BY <2>1, <2>2, SetInduction
  <2>4. r >= mon_yday(y, 12)
    BY <2>3
  <2>5. mon_yday(y, 12) = YearLen(y) /\ YearLen(y) \in Nat
    BY MonthStarts
  <2>6. QED  BY <2>4, <2>5
<1>2. ASSUME NEW m, NEW k, InMonth(y, r, m), InMonth(y, r, k), m < k PROVE FALSE
  <2>1. m \in 1 .. 12 /\ k \in 1 .. 12 /\ r < mon_yday(y, m) /\ mon_yday(y, k - 1) <= r
    BY <1>2 DEF InMonth
  <2>2. mon_yday(y, m) <= mon_yday(y, k - 1)
    BY <1>2, <2>1, MonthsGrow
  <2>3. mon_yday(y, m) \in Nat /\ mon_yday(y, k - 1) \in Nat
    BY <2>1, MonthLengths
  <2>4. QED  BY <2>1, <2>2, <2>3
<1>3. ASSUME NEW m, NEW k, InMonth(y, r, m), InMonth(y, r, k) PROVE m = k
  <2>1. ~(m < k) /\ ~(k < m)
    BY <1>2, <1>3
  <2>2. m \in 1 .. 12 /\ k \in 1 .. 12
    BY <1>3 DEF InMonth
  <2>3. QED  BY <2>1, <2>2
<1>4. QED  BY <1>1, <1>3

-----------------------------------------------------------------------------
(* Dates, and the days from 1970 to them.                                  *)
DayOf(d) == days_since_1970(d.day, d.mon, d.year)

LEMMA DayLong == Day \in Nat \ {0}
BY SMT DEF Day

LEMMA DayIs ==
    ASSUME NEW d, OnCalendar(d)
    PROVE  LET r == mon_yday(d.year, d.mon - 1) + d.day - 1
           IN  /\ d.year \in Int /\ d.mon \in 1 .. 12 /\ d.day \in Nat /\ d.day >= 1 /\ d.tod \in Nat /\ d.tod < Day
               /\ d = [year |-> d.year, mon |-> d.mon, day |-> d.day, tod |-> d.tod]
               /\ r \in Nat /\ DayOf(d) = YearStart(d.year) + r /\ DayOf(d) \in Int
               /\ InYear(DayOf(d), d.year, r) /\ InMonth(d.year, r, d.mon)
<1> DEFINE y == d.year
           m == d.mon
           e == d.day
           a == mon_yday(y, m - 1)
           b == mon_yday(y, m)
           l == MonthLen(y, m)
           r == a + e - 1
<1>1. /\ y \in Int /\ m \in 1 .. 12 /\ e \in 1 .. 31 /\ d.tod \in 0 .. Day - 1 /\ e <= l
      /\ d = [year |-> y, mon |-> m, day |-> e, tod |-> d.tod]
  BY DEF OnCalendar
<1>2. d.tod \in Nat /\ d.tod < Day
  BY <1>1, DayLong
<1>3. DayOf(d) = (y - 1970) * 365 + leap_days(y) - leap_days(1970) + (a + e) - 1
  BY DEF DayOf, days_since_1970
<1>4. YearStart(y) = (y - 1970) * 365 + leap_days(y) - leap_days(1970) /\ YearStart(y) \in Int
  BY <1>1, NextYear DEF YearStart
<1>5. a \in Nat /\ b = a + l /\ l \in 28 .. 31 /\ b \in Nat
  BY <1>1, MonthLengths
<1>6. mon_yday(y, 12) = YearLen(y) /\ (m < 12 => b <= mon_yday(y, 12 - 1)) /\ YearLen(y) \in 365 .. 366
      /\ mon_yday(y, 12 - 1) <= YearLen(y)
  <2>1. mon_yday(y, 12) = YearLen(y) /\ YearLen(y) \in 365 .. 366
    BY <1>1, MonthStarts, YearLength
  <2>2. m < 12 => b <= mon_yday(y, 12 - 1)
    BY <1>1, MonthsGrow
  <2>3. mon_yday(y, 12 - 1) \in Nat /\ mon_yday(y, 12) = mon_yday(y, 12 - 1) + MonthLen(y, 12) /\ MonthLen(y, 12) \in 28 .. 31
    BY <1>1, MonthLengths
  <2>4. QED  BY <2>1, <2>2, <2>3
<1>7. b <= YearLen(y)
  <2>1. CASE m = 12
    BY <1>6, <2>1
  <2>2. CASE m < 12
    <3>1. mon_yday(y, 12 - 1) \in Nat
      BY <1>1, MonthLengths
    <3> HIDE DEF b
    <3>2. QED  BY <1>5, <1>6, <2>2, <3>1
  <2>3. QED  BY <1>1, <2>1, <2>2
<1> DEFINE s == YearStart(y)
           n == DayOf(d)
           t == leap_days(y) - leap_days(1970)
<1>8. n = s + r /\ s \in Int
  <2>1. leap_days(y) \in Int /\ leap_days(1970) \in Int
    BY <1>1, LeapDays
  <2> HIDE DEF a, b, l
  <2>2. QED  BY <1>1, <1>3, <1>4, <1>5, <2>1
<1> HIDE DEF a, b, l, y, m, e, s, n
<1>9. r \in Nat /\ a <= r /\ r < b /\ r < YearLen(y) /\ n \in Int
  BY <1>1, <1>5, <1>6, <1>7, <1>8
<1>10. InYear(n, y, r) /\ InMonth(y, r, m)
  <2> HIDE DEF r
  <2> QED  BY <1>1, <1>8, <1>9 DEF InYear, InMonth, s, a, b
<1>11. e \in Nat /\ e >= 1
  BY <1>1
<1>12. QED  BY <1>1, <1>2, <1>8, <1>9, <1>10, <1>11 DEF y, m, e, a, s, n

(* A date is known by its day and the time of day.                         *)
LEMMA OneDate ==
    ASSUME NEW c, NEW d, OnCalendar(c), OnCalendar(d), DayOf(c) = DayOf(d), c.tod = d.tod
    PROVE  c = d
<1> DEFINE r == mon_yday(c.year, c.mon - 1) + c.day - 1
           q == mon_yday(d.year, d.mon - 1) + d.day - 1
           n == DayOf(c)
<1>1. /\ InYear(n, c.year, r) /\ InMonth(c.year, r, c.mon) /\ c.day \in Nat /\ c.mon \in 1 .. 12 /\ c.year \in Int
      /\ c = [year |-> c.year, mon |-> c.mon, day |-> c.day, tod |-> c.tod]
  BY DayIs
<1>2. /\ InYear(n, d.year, q) /\ InMonth(d.year, q, d.mon) /\ d.day \in Nat
      /\ d = [year |-> d.year, mon |-> d.mon, day |-> d.day, tod |-> d.tod]
  BY DayIs
<1>3. c.year = d.year /\ r = q
  <2> HIDE DEF r, q, n
  <2> QED  BY <1>1, <1>2, OneYear
<1>4. c.mon = d.mon
  <2> HIDE DEF r, q, n
  <2>1. r \in Nat /\ r < YearLen(c.year) /\ c.year \in Int
    BY <1>1 DEF InYear
  <2>2. InMonth(c.year, r, c.mon) /\ InMonth(c.year, r, d.mon)
    BY <1>1, <1>2, <1>3
  <2>3. QED  BY <2>1, <2>2, MonthFound
<1>5. c.day = d.day
  <2>1. mon_yday(c.year, c.mon - 1) \in Nat
    BY <1>1, MonthLengths
  <2>2. QED  BY <1>1, <1>2, <1>3, <1>4, <2>1
<1>6. QED  BY <1>1, <1>2, <1>3, <1>4, <1>5

(* convert_seconds_to_date_and_time finds the date of a second.            *)
LEMMA SecondsFound ==
    ASSUME NEW s \in Int
    PROVE  LET d == convert_seconds_to_date_and_time(s)
           IN  OnCalendar(d) /\ DayOf(d) = s \div Day /\ d.tod = s % Day
<1> DEFINE n == s \div Day
           t == s % Day
<1>1. n \in Int /\ t \in Nat /\ t < Day
  BY DayLong, DivisionInt
<1> HIDE DEF n, t
<1>2. PICK y, r : InYear(n, y, r)
  BY <1>1, DayInYear
<1>3. y \in Int /\ r \in Nat /\ r < YearLen(y) /\ YearStart(y) + r = n
  BY <1>2 DEF InYear
<1>4. year_of[1970][n] = <<y, r>>
  BY <1>1, <1>2, YearCounted
<1> DEFINE m == CHOOSE k \in 1 .. 12 : mon_yday(y, k - 1) <= r /\ r < mon_yday(y, k)
           e == r - mon_yday(y, m - 1) + 1
           d == [year |-> y, mon |-> m, day |-> e, tod |-> t]
<1>5. InMonth(y, r, m)
  <2>1. \E k : InMonth(y, r, k)
    BY <1>3, MonthFound
  <2>2. QED  BY <2>1 DEF InMonth
<1>6. convert_seconds_to_date_and_time(s) = d
  BY <1>4 DEF convert_seconds_to_date_and_time, Date, n, t
<1> HIDE DEF m
<1>7. m \in 1 .. 12 /\ mon_yday(y, m - 1) <= r /\ r < mon_yday(y, m)
  BY <1>5 DEF InMonth
<1>8. mon_yday(y, m - 1) \in Nat /\ mon_yday(y, m) = mon_yday(y, m - 1) + MonthLen(y, m) /\ MonthLen(y, m) \in 28 .. 31
  BY <1>3, <1>7, MonthLengths
<1>9. e \in 1 .. 31 /\ e <= MonthLen(y, m) /\ mon_yday(y, m - 1) + e = r + 1
  BY <1>3, <1>7, <1>8
<1> HIDE DEF e
<1>10. OnCalendar(d)
  <2>1. t \in 0 .. Day - 1
    BY <1>1, DayLong
  <2>2. QED  BY <1>3, <1>7, <1>9, <2>1 DEF OnCalendar
<1>11. DayOf(d) = n
  <2>1. DayOf(d) = YearStart(y) + (mon_yday(y, m - 1) + e - 1)
    BY <1>10, DayIs
  <2>2. YearStart(y) \in Int
    BY <1>3, NextYear
  <2>2a. mon_yday(y, m - 1) + e - 1 = r
    <3> DEFINE a == mon_yday(y, m - 1)
    <3>1. a \in Nat /\ a + e = r + 1 /\ e \in 1 .. 31
      BY <1>8, <1>9
    <3> HIDE DEF a
    <3>2. a + e - 1 = r
      BY <1>3, <3>1
    <3>3. QED  BY <3>2 DEF a
  <2>3. QED  BY <1>3, <2>1, <2>2, <2>2a
<1>12. QED  BY <1>6, <1>10, <1>11 DEF n, t

LEMMA OneRemainder ==
    ASSUME NEW d \in Nat \ {0}, NEW k \in Int, NEW j \in Int, NEW s \in Nat, NEW r \in Nat,
           s < d, r < d, d * k + s = d * j + r
    PROVE  k = j /\ s = r
<1>1. d * (j - k) = s - r /\ d * (k - j) = r - s /\ j - k \in Int /\ k - j \in Int
  OBVIOUS
<1>2. CASE s >= r
  <2> DEFINE t == j - k
             q == s - r
  <2>1. q \in Nat /\ q < d /\ t \in Int /\ d * t = q
    BY <1>1, <1>2
  <2> HIDE DEF t, q
  <2>2. t = 0 /\ q = 0
    BY <2>1, NoMultipleBelow
  <2>3. QED  BY <2>2 DEF t, q
<1>3. CASE r >= s
  <2> DEFINE t == k - j
             q == r - s
  <2>1. q \in Nat /\ q < d /\ t \in Int /\ d * t = q
    BY <1>1, <1>3
  <2> HIDE DEF t, q
  <2>2. t = 0 /\ q = 0
    BY <2>1, NoMultipleBelow
  <2>3. QED  BY <2>2 DEF t, q
<1>4. QED  BY <1>2, <1>3

LEMMA DaysAdded ==
    ASSUME NEW d \in Nat \ {0}, NEW k \in Int, NEW n \in Nat
    PROVE  (d * k + n) \div d = k + (n \div d) /\ (d * k + n) % d = n % d
<1> DEFINE m == d * k + n
           a == n \div d
           b == n % d
           p == m \div d
           q == m % d
           l == k + a
<1>1. a \in Int /\ b \in Nat /\ b < d /\ n = d * a + b
  BY DivisionInt
<1>2. m \in Int
  OBVIOUS
<1>3. p \in Int /\ q \in Nat /\ q < d /\ m = d * p + q
  <2> HIDE DEF m
  <2> QED  BY <1>2, DivisionInt
<1>4. l \in Int /\ d * p + q = d * l + b
  <2> HIDE DEF a, b, p, q
  <2>1. d * (k + a) + b = d * k + (d * a + b)
    BY <1>1
  <2>2. QED  BY <1>1, <1>3, <2>1
<1> HIDE DEF p, q, l, b
<1>5. p = l /\ q = b
  BY <1>1, <1>3, <1>4, OneRemainder
<1>6. QED  BY <1>5 DEF p, q, l, b

(* One day after another.                                                  *)
LEMMA NextDayIs ==
    ASSUME NEW d, OnCalendar(d)
    PROVE  OnCalendar(NextDay(d)) /\ DayOf(NextDay(d)) = DayOf(d) + 1 /\ NextDay(d).tod = d.tod
<1> DEFINE y == d.year
           m == d.mon
           e == d.day
           a == mon_yday(y, m - 1)
           l == MonthLen(y, m)
           s == YearStart(y)
           r == a + e - 1
           c == NextDay(d)
<1>1. /\ y \in Int /\ m \in 1 .. 12 /\ e \in Nat /\ e >= 1 /\ e <= l /\ d.tod \in 0 .. Day - 1
      /\ d = [year |-> y, mon |-> m, day |-> e, tod |-> d.tod]
      /\ r \in Nat /\ r < YearLen(y) /\ DayOf(d) = s + r /\ s \in Int
  BY DayIs, NextYear DEF OnCalendar, InYear
<1>2. a \in Nat /\ mon_yday(y, m) = a + l /\ l \in 28 .. 31
  BY <1>1, MonthLengths
<1>3. CASE e < l
  <2>1. c = [year |-> y, mon |-> m, day |-> e + 1, tod |-> d.tod]
    BY <1>1, <1>3 DEF NextDay
  <2>2. e + 1 \in 1 .. 31 /\ e + 1 <= l
    BY <1>1, <1>2, <1>3
  <2>3. OnCalendar(c)
    <3> HIDE DEF c, y, m, e
    <3>1. l = MonthLen(c.year, c.mon) /\ c.day = e + 1
      BY <2>1
    <3>2. c \in [year : Int, mon : 1 .. 12, day : 1 .. 31, tod : 0 .. Day - 1]
      BY <1>1, <2>1, <2>2
    <3> HIDE DEF l
    <3>3. QED  BY <2>2, <3>1, <3>2 DEF OnCalendar
  <2>4. DayOf(c) = s + (a + (e + 1) - 1)
    <3>1. c.year = y /\ c.mon = m /\ c.day = e + 1
      BY <2>1
    <3>2. QED  BY <2>3, <3>1, DayIs
  <2>5. a + (e + 1) - 1 = r + 1 /\ c.tod = d.tod
    <3> HIDE DEF a, e, c
    <3> QED  BY <1>1, <1>2, <2>1
  <2> HIDE DEF r, s, a, e, c
  <2>6. QED  BY <1>1, <2>3, <2>4, <2>5 DEF c
<1>4. CASE ~(e < l) /\ m < 12
  <2>1. c = [year |-> y, mon |-> m + 1, day |-> 1, tod |-> d.tod]
    BY <1>1, <1>4 DEF NextDay
  <2>2. m + 1 \in 1 .. 12 /\ (m + 1) - 1 = m /\ e = l
    BY <1>1, <1>2, <1>4
  <2>3. OnCalendar(c)
    <3>1. MonthLen(y, m + 1) \in 28 .. 31
      BY <1>1, <2>2, MonthLengths
    <3>2. c.year = y /\ c.mon = m + 1 /\ c.day = 1
      BY <2>1
    <3>3. 1 <= MonthLen(c.year, c.mon)
      BY <3>1, <3>2
    <3> HIDE DEF c, y, m, e
    <3>4. c \in [year : Int, mon : 1 .. 12, day : 1 .. 31, tod : 0 .. Day - 1]
      BY <1>1, <2>1, <2>2
    <3>5. QED  BY <3>2, <3>3, <3>4 DEF OnCalendar
  <2>4. DayOf(c) = s + (mon_yday(y, m) + 1 - 1)
    <3>1. c.year = y /\ c.mon = m + 1 /\ c.day = 1
      BY <2>1
    <3>2. DayOf(c) = s + (mon_yday(y, (m + 1) - 1) + 1 - 1)
      BY <2>3, <3>1, DayIs
    <3>3. QED  BY <2>2, <3>2
  <2>5. mon_yday(y, m) + 1 - 1 = r + 1 /\ c.tod = d.tod
    <3>1. c.tod = d.tod
      BY <2>1
    <3> DEFINE b == mon_yday(y, m)
    <3>2. b = a + l /\ e = l
      BY <1>2, <2>2
    <3> HIDE DEF a, e, l, c, b
    <3>3. b + 1 - 1 = r + 1
      BY <1>1, <1>2, <3>2
    <3>4. QED  BY <3>1, <3>3 DEF b
  <2> HIDE DEF r, s, c
  <2>6. QED  BY <1>1, <2>3, <2>4, <2>5 DEF c
<1>5. CASE ~(e < l) /\ ~(m < 12)
  <2>1. c = [year |-> y + 1, mon |-> 1, day |-> 1, tod |-> d.tod]
    BY <1>1, <1>5 DEF NextDay
  <2>2. m = 12 /\ e = l /\ y + 1 \in Int
    BY <1>1, <1>2, <1>5
  <2>3. OnCalendar(c)
    <3>1. 1 \in 1 .. 12
      OBVIOUS
    <3>2. MonthLen(y + 1, 1) \in 28 .. 31
      BY <2>2, <3>1, MonthLengths
    <3>3. c.year = y + 1 /\ c.mon = 1 /\ c.day = 1
      BY <2>1
    <3>4. 1 <= MonthLen(c.year, c.mon)
      BY <3>2, <3>3
    <3> HIDE DEF c, y, m, e
    <3>5. c \in [year : Int, mon : 1 .. 12, day : 1 .. 31, tod : 0 .. Day - 1]
      BY <1>1, <2>1, <2>2
    <3>6. QED  BY <3>3, <3>4, <3>5 DEF OnCalendar
  <2>4. DayOf(c) = YearStart(y + 1) + (mon_yday(y + 1, 0) + 1 - 1)
    <3>1. c.year = y + 1 /\ c.mon = 1 /\ c.day = 1 /\ 1 - 1 = 0
      BY <2>1
    <3>2. DayOf(c) = YearStart(y + 1) + (mon_yday(y + 1, 1 - 1) + 1 - 1)
      BY <2>3, <3>1, DayIs
    <3>3. QED  BY <3>1, <3>2
  <2>5. mon_yday(y + 1, 0) = 0 /\ YearStart(y + 1) = s + YearLen(y) /\ mon_yday(y, 12) = YearLen(y)
    BY <1>1, <2>2, MonthStarts, NextYear
  <2>6. r + 1 = YearLen(y) /\ YearLen(y) \in 365 .. 366
    <3>1. a + l = YearLen(y) /\ e = l /\ YearLen(y) \in 365 .. 366
      BY <1>1, <1>2, <2>2, <2>5, YearLength
    <3> HIDE DEF a, e, l, y
    <3>2. QED  BY <1>1, <1>2, <3>1
  <2>7. c.tod = d.tod
    BY <2>1
  <2>8. DayOf(c) = s + (r + 1)
    <3> DEFINE g == YearLen(y)
               f == DayOf(c)
    <3>1. f = (s + g) + (0 + 1 - 1) /\ r + 1 = g /\ g \in 365 .. 366
      BY <2>4, <2>5, <2>6
    <3> HIDE DEF g, f, s, r
    <3>2. f = s + (r + 1)
      BY <1>1, <3>1
    <3>3. QED  BY <3>2 DEF f
  <2> HIDE DEF r, s, c
  <2>9. QED  BY <1>1, <2>3, <2>7, <2>8 DEF c
<1>6. QED  BY <1>3, <1>4, <1>5

(* The date n days after d.                                                *)
IsLater(d, n, c) == OnCalendar(c) /\ DayOf(c) = DayOf(d) + n /\ c.tod = d.tod

LEMMA SecondsLaterIs ==
    ASSUME NEW d, OnCalendar(d), NEW s \in Nat
    PROVE  LET c == SecondsLater(d, s)
           IN  /\ OnCalendar(c) /\ DayOf(c) = DayOf(d) + (d.tod + s) \div Day
               /\ c.tod = (d.tod + s) % Day
<1> DEFINE H(n) == CHOOSE c : IsLater(d, n, c)
           E(f, n) == IF n = 0 THEN d ELSE NextDay(f[n - 1])
           F(f) == [n \in Nat |-> E(f, n)]
           g == [n \in Nat |-> H(n)]
           later == CHOOSE f : f = F(f)
<1>1. d.tod \in Nat /\ d.tod < Day /\ DayOf(d) \in Int
  BY DayIs
<1>2. \A n \in Nat : IsLater(d, n, H(n))
  <2> SUFFICES ASSUME NEW n \in Nat PROVE \E c : IsLater(d, n, c)
    OBVIOUS
  <2> DEFINE k == DayOf(d) + n
             t == Day * k + d.tod
             c == convert_seconds_to_date_and_time(t)
  <2>1. k \in Int /\ Day \in Nat \ {0}
    BY <1>1, DayLong
  <2> HIDE DEF k
  <2>2. t \in Int /\ d.tod \div Day = 0 /\ d.tod % Day = d.tod
    <3> DEFINE e == d.tod
               a == Day
    <3>1. e \in Nat /\ e < a /\ a \in Nat \ {0}
      BY <1>1, <2>1
    <3>2. t = a * k + e
      OBVIOUS
    <3> HIDE DEF e, a, t
    <3>3. e \div a \in Int /\ e % a \in Nat /\ e % a < a /\ e = a * (e \div a) + (e % a) /\ a * 0 + e = e
      BY <3>1, DivisionInt
    <3> DEFINE q == e \div a
               r == e % a
    <3>4. q \in Int /\ r \in Nat /\ r < a /\ a * q + r = a * 0 + e
      BY <3>1, <3>3
    <3> HIDE DEF q, r
    <3>5. q = 0 /\ r = e
      BY <3>1, <3>4, OneRemainder
    <3>6. t \in Int
      BY <2>1, <3>1, <3>2
    <3>7. QED  BY <3>5, <3>6 DEF q, r, e, a
  <2>3. t \div Day = k + (d.tod \div Day) /\ t % Day = d.tod % Day
    BY <1>1, <2>1, DaysAdded
  <2> HIDE DEF t
  <2>4. OnCalendar(c) /\ DayOf(c) = t \div Day /\ c.tod = t % Day
    BY <2>2, SecondsFound
  <2>5. DayOf(c) = k /\ c.tod = d.tod
    BY <2>1, <2>2, <2>3, <2>4
  <2> HIDE DEF c
  <2>6. IsLater(d, n, c)
    BY <2>4, <2>5 DEF IsLater, k
  <2>7. QED  BY <2>6
<1>3. \A n \in Nat : \A c : IsLater(d, n, c) => c = H(n)
  <2> SUFFICES ASSUME NEW n \in Nat, NEW c, IsLater(d, n, c) PROVE c = H(n)
    OBVIOUS
  <2> DEFINE h == H(n)
  <2>1. IsLater(d, n, h)
    BY <1>2
  <2> HIDE DEF h
  <2>2. c = h
    BY <2>1, OneDate DEF IsLater
  <2>3. QED  BY <2>2 DEF h
<1>4. \A n \in Nat : g[n] = E(g, n)
  <2> SUFFICES ASSUME NEW n \in Nat PROVE g[n] = E(g, n)
    OBVIOUS
  <2>1. \A i \in Nat : g[i] = H(i)
    OBVIOUS
  <2> HIDE DEF g
  <2>2. CASE n = 0
    <3>1. IsLater(d, 0, d)
      BY <1>1 DEF IsLater
    <3>2. QED  BY <1>3, <2>1, <2>2, <3>1
  <2>3. CASE n # 0
    <3> DEFINE c == H(n - 1)
               e == NextDay(c)
    <3>1. n - 1 \in Nat /\ g[n - 1] = c
      BY <2>1, <2>3
    <3>2. IsLater(d, n - 1, c)
      BY <1>2, <3>1
    <3> HIDE DEF c
    <3>3. OnCalendar(e) /\ DayOf(e) = DayOf(c) + 1 /\ e.tod = c.tod /\ DayOf(c) = DayOf(d) + (n - 1) /\ c.tod = d.tod
      BY <3>2, NextDayIs DEF IsLater
    <3> HIDE DEF e
    <3>4. IsLater(d, n, e)
      <4> DEFINE a == DayOf(d)
                 x == DayOf(e)
                 z == DayOf(c)
      <4>1. a \in Int /\ x = z + 1 /\ z = a + (n - 1)
        BY <1>1, <3>3
      <4> HIDE DEF a, x, z
      <4>2. x = a + n
        BY <4>1
      <4>3. QED  BY <3>3, <4>2 DEF IsLater, a, x
    <3>5. e = H(n)
      BY <1>3, <3>4
    <3>6. QED  BY <2>1, <2>3, <3>1, <3>5 DEF e
  <2>4. QED  BY <2>2, <2>3
<1>5. later = F(later)
  <2>1. g = F(g)
    <3> DEFINE h == g
    <3>1. \A n \in Nat : H(n) = E(h, n)
      BY <1>4
    <3> HIDE DEF h, H, E
    <3>2. g = [n \in Nat |-> E(h, n)]
      BY <3>1
    <3>3. QED  BY <3>2 DEF h
  <2> HIDE DEF F, g
  <2>2. QED  BY <2>1
<1>6. \A n \in Nat : later[n] = E(later, n)
  <2> HIDE DEF E, later
  <2> QED  BY <1>5
<1> DEFINE S == {n \in Nat : IsLater(d, n, later[n])}
<1>7. 0 \in S
  <2> HIDE DEF later
  <2>1. later[0] = d /\ IsLater(d, 0, d)
    BY <1>1, <1>6 DEF IsLater
  <2>2. QED  BY <2>1
<1>8. ASSUME NEW n \in Nat, n \in S PROVE n + 1 \in S
  <2> HIDE DEF later
  <2> DEFINE c == later[n]
             e == NextDay(c)
  <2>1. n + 1 \in Nat /\ (n + 1) - 1 = n /\ n + 1 # 0
    OBVIOUS
  <2>2. later[n + 1] = e /\ IsLater(d, n, c)
    BY <1>6, <1>8, <2>1
  <2> HIDE DEF c
  <2>3. OnCalendar(e) /\ DayOf(e) = DayOf(c) + 1 /\ e.tod = c.tod /\ DayOf(c) = DayOf(d) + n /\ c.tod = d.tod
    BY <2>2, NextDayIs DEF IsLater
  <2> HIDE DEF e
  <2>4. DayOf(e) = DayOf(d) + (n + 1)
    BY <1>1, <2>3
  <2>5. QED  BY <2>2, <2>3, <2>4 DEF IsLater
<1>9. Nat \subseteq S
  <2> HIDE DEF S
  <2> QED  BY <1>7, <1>8, SetInduction
<1> DEFINE w == d.tod + s
           n == w \div Day
           t == w % Day
           b == later[n]
           c == [b EXCEPT !.tod = t]
<1>10. n \in Nat /\ t \in Nat /\ t < Day
  <2>1. w \in Nat
    BY <1>1
  <2> HIDE DEF w
  <2>2. QED  BY <2>1, DayLong, Remainders
<1>11. SecondsLater(d, s) = c
  BY DEF SecondsLater
<1> HIDE DEF later, n, t
<1>12. IsLater(d, n, b)
  BY <1>9, <1>10
<1> HIDE DEF b, S
<1>13. /\ b = [year |-> b.year, mon |-> b.mon, day |-> b.day, tod |-> b.tod] /\ b.year \in Int /\ b.mon \in 1 .. 12
       /\ b.day \in 1 .. 31 /\ b.day <= MonthLen(b.year, b.mon) /\ DayOf(b) = DayOf(d) + n
  BY <1>12 DEF IsLater, OnCalendar
<1>14. c = [year |-> b.year, mon |-> b.mon, day |-> b.day, tod |-> t]
  BY <1>13
<1>15. OnCalendar(c) /\ c.tod = t
  <2>1. t \in 0 .. Day - 1
    BY <1>10, DayLong
  <2>2. QED  BY <1>13, <1>14, <2>1 DEF OnCalendar
<1>16. DayOf(c) = DayOf(b)
  BY <1>14 DEF DayOf
<1> HIDE DEF c
<1>17. QED  BY <1>11, <1>13, <1>15, <1>16 DEF n, t

(* The seconds of a date, as the code counts them.                         *)
LEMMA SecondsOf ==
    ASSUME NEW d \in Dates
    PROVE  OnCalendar(d) /\ dt_to_timespec(d) = Time(d.tod + Day * DayOf(d), 0)
<1> DEFINE k == DayOf(d)
           a == k * 675 + HalfInt
           m == 2 * HalfInt
<1>1. OnCalendar(d) /\ k \in -IntDays .. IntDays
  BY ControlAssumption DEF Dates_type, DayOf
<1>2. k \in Int
  BY <1>1, DayIs
<1> HIDE DEF k
<1>3. k >= -IntDays /\ k <= IntDays
  <2>1. IntDays \in Int
    BY SMT DEF IntDays
  <2>2. QED  BY <1>1, <1>2, <2>1
<1>4. a \in Nat /\ a < m /\ m \in Nat \ {0}
  BY <1>2, <1>3, SMT DEF HalfInt, IntDays
<1>5. a % m = a
  <2> DEFINE q == a \div m
             r == a % m
  <2> HIDE DEF a, m
  <2>1. a = m * q + r /\ q \in Int /\ r \in Nat /\ r < m /\ m * 0 + a = a
    BY <1>4, DivisionInt
  <2> HIDE DEF q, r
  <2>2. r = a
    BY <1>4, <2>1, OneRemainder
  <2>3. QED  BY <2>2 DEF r
<1>6. Seconds32(k) = Day * k
  <2>1. Seconds32(k) = 128 * (a - HalfInt)
    BY <1>5 DEF Seconds32
  <2>2. 128 * (a - HalfInt) = Day * k
    BY <1>2, SMT DEF HalfInt, Day
  <2>3. QED  BY <2>1, <2>2
<1>7. date_to_timespec(d.day, d.mon, d.year).sec = Day * k
  BY <1>6 DEF k, date_to_timespec, Time, DayOf
<1>8. QED  BY <1>1, <1>7 DEF k, dt_to_timespec

-----------------------------------------------------------------------------
(* RTC                                                                     *)
RtcCall == [in : BOOLEAN, pdt : Dates, at : Nat]
RisesAt(cs, k) ==
    /\ k \in 1 .. Len(cs) /\ \A j \in k .. Len(cs) : cs[j].in
    /\ k = 1 \/ ~cs[k - 1].in
SecondsSet(d) == d.tod + Day * DayOf(d)

LEMMA WholeSeconds ==
    ASSUME NEW a \in Int, NEW b \in Int
    PROVE  time_add(Time(a, 0), Time(b, 0)) = Time(a + b, 0) /\ time_sub(Time(a, 0), Time(b, 0)) = Time(a - b, 0)
<1>1. ASSUME NEW s \in Int PROVE normalize_timespec(Time(s, 0)) = Time(s, 0)
  <2>1. Time(s, 0).sec = s /\ Time(s, 0).nsec = 0 /\ ~(0 < -Second) /\ ~(0 > Second)
    BY SecondPositive DEF Time
  <2>2. Borrow(Time(s, 0)) = Time(s, 0)
    BY <2>1 DEF Borrow
  <2>3. QED  BY <2>1, <2>2 DEF normalize_timespec, Carry
<1>2. Time(a, 0).sec = a /\ Time(a, 0).nsec = 0 /\ Time(b, 0).sec = b /\ Time(b, 0).nsec = 0 /\ 0 + 0 = 0 /\ 0 - 0 = 0
      /\ a + b \in Int /\ a - b \in Int
  BY DEF Time
<1>3. QED  BY <1>1, <1>2 DEF time_add, time_sub

LEMMA SecondsSetIs ==
    ASSUME NEW d \in Dates
    PROVE  SecondsSet(d) \in Int /\ dt_to_timespec(d) = Time(SecondsSet(d), 0)
<1>1. DayOf(d) \in Int /\ d.tod \in Nat
  BY SecondsOf, DayIs
<1>2. QED  BY <1>1, DayLong, SecondsOf DEF SecondsSet

RtcInv ==
    family = "rtc" =>
        /\ calls \in Seq(RtcCall) /\ now \in Nat /\ rtc \in RTC_data
        /\ \A k \in 1 .. Len(calls) : calls[k].at <= now
        /\ Len(calls) = 0 => ~rtc.prev_in
        /\ Len(calls) > 0 =>
              LET c == calls[Len(calls)]
              IN  /\ rtc.prev_in = c.in /\ rtc.q = c.in
                  /\ IF c.in THEN /\ \E k : /\ RisesAt(calls, k)
                                            /\ rtc.offset = Time(SecondsSet(calls[k].pdt) - calls[k].at, 0)
                                  /\ rtc.cdt = now + rtc.offset.sec
                     ELSE rtc.cdt = now

LEMMA OneRise ==
    ASSUME NEW cs \in Seq(RtcCall), NEW k, NEW j, RisesAt(cs, k), RisesAt(cs, j)
    PROVE  k = j
<1>1. ASSUME NEW a, NEW b, RisesAt(cs, a), RisesAt(cs, b), a < b PROVE FALSE
  <2>1. a \in 1 .. Len(cs) /\ b \in 1 .. Len(cs) /\ Len(cs) \in Nat
    BY <1>1 DEF RisesAt
  <2>2. b - 1 \in a .. Len(cs) /\ b # 1
    BY <1>1, <2>1
  <2>3. cs[b - 1].in /\ ~cs[b - 1].in
    BY <1>1, <2>2 DEF RisesAt
  <2>4. QED  BY <2>3
<1>2. ~(k < j) /\ ~(j < k)
  BY <1>1
<1>3. k \in 1 .. Len(cs) /\ j \in 1 .. Len(cs)
  BY DEF RisesAt
<1>4. QED  BY <1>2, <1>3

LEMMA InvKeepsCalendar == RtcInv => RtcKeepsCalendar
<1> SUFFICES ASSUME RtcInv, family = "rtc", N > 0 PROVE RtcKeepsCalendar
  BY DEF RtcKeepsCalendar
<1> DEFINE c == calls[N]
           set == CHOOSE k \in 1 .. N : (\A j \in k .. N : calls[j].in) /\ (k = 1 \/ ~calls[k - 1].in)
<1>1. /\ calls \in Seq(RtcCall) /\ now \in Nat /\ N \in Nat /\ \A k \in 1 .. N : calls[k].at <= now
      /\ rtc.q = c.in
      /\ c.in => /\ \E k : RisesAt(calls, k) /\ rtc.offset = Time(SecondsSet(calls[k].pdt) - calls[k].at, 0)
                 /\ rtc.cdt = now + rtc.offset.sec
      /\ ~c.in => rtc.cdt = now
  BY DEF RtcInv, N
<1>2. c.in \in BOOLEAN
  <2>1. N \in 1 .. Len(calls)
    BY <1>1 DEF N
  <2>2. c \in RtcCall
    BY <1>1, <2>1
  <2>3. QED  BY <2>2 DEF RtcCall
<1>3. CASE c.in
  <2>1. PICK k : RisesAt(calls, k) /\ rtc.offset = Time(SecondsSet(calls[k].pdt) - calls[k].at, 0)
    BY <1>1, <1>3
  <2>2. set = k
    <3>1. \A j : j \in 1 .. N /\ (\A i \in j .. N : calls[i].in) /\ (j = 1 \/ ~calls[j - 1].in) <=> RisesAt(calls, j)
      BY DEF RisesAt, N
    <3>2. RisesAt(calls, set)
      BY <2>1, <3>1
    <3> HIDE DEF set
    <3>3. QED  BY <1>1, <2>1, <3>2, OneRise
  <2> HIDE DEF set
  <2> DEFINE d == calls[k].pdt
             at == calls[k].at
             s == now - at
             D == DayOf(d)
             u == d.tod + s
             n == rtc.cdt
  <2>3. d \in Dates /\ at \in Nat /\ at <= now
    <3>1. k \in 1 .. N
      BY <2>1 DEF RisesAt, N
    <3>2. calls[k] \in RtcCall
      BY <1>1, <3>1 DEF N
    <3>3. QED  BY <1>1, <3>1, <3>2 DEF RtcCall
  <2>4. OnCalendar(d)
    BY <2>3, SecondsOf
  <2>5. D \in Int /\ d.tod \in Nat /\ d.tod < Day /\ Day \in Nat \ {0}
    BY <2>4, DayIs, DayLong
  <2>6. s \in Nat /\ u \in Nat
    <3> HIDE DEF at, d
    <3>1. s \in Nat
      BY <1>1, <2>3
    <3> HIDE DEF s
    <3>2. QED  BY <2>5, <3>1
  <2>7. n = Day * D + u
    <3>1. n = now + ((d.tod + Day * D) - at)
      BY <1>1, <1>3, <2>1 DEF Time, SecondsSet
    <3> DEFINE p == Day * D
    <3>2. p \in Int
      BY <2>5
    <3> HIDE DEF p, d, at
    <3>3. n = now + ((d.tod + p) - at)
      BY <3>1 DEF p
    <3> HIDE DEF n
    <3>4. n = p + u
      BY <1>1, <2>3, <2>5, <3>2, <3>3
    <3>5. QED  BY <3>4 DEF p
  <2> HIDE DEF u, D
  <2>8. n \div Day = D + (u \div Day) /\ n % Day = u % Day /\ n \in Int
    <3> HIDE DEF n
    <3>1. n \in Int
      BY <2>5, <2>6, <2>7
    <3>2. (Day * D + u) \div Day = D + (u \div Day) /\ (Day * D + u) % Day = u % Day
      BY <2>5, <2>6, DaysAdded
    <3>3. QED  BY <2>7, <3>1, <3>2
  <2> DEFINE x == convert_seconds_to_date_and_time(n)
             y == SecondsLater(d, s)
  <2>9. OnCalendar(x) /\ DayOf(x) = n \div Day /\ x.tod = n % Day
    <3> HIDE DEF n
    <3> QED  BY <2>8, SecondsFound
  <2>10. OnCalendar(y) /\ DayOf(y) = D + (u \div Day) /\ y.tod = u % Day
    <3> HIDE DEF d, s
    <3> QED  BY <2>4, <2>6, SecondsLaterIs DEF D, u
  <2>11. x = y
    <3> HIDE DEF x, y
    <3> QED  BY <2>8, <2>9, <2>10, OneDate
  <2>12. convert_seconds_to_date_and_time(rtc.cdt) = SecondsLater(calls[set].pdt, now - calls[set].at)
    BY <2>2, <2>11
  <2>13. rtc.q
    BY <1>1, <1>3
  <2>14. QED  BY <1>3, <2>12, <2>13 DEF RtcKeepsCalendar, set
<1>4. CASE ~c.in
  <2>1. ~rtc.q /\ rtc.cdt = now
    BY <1>1, <1>4
  <2>2. QED  BY <1>4, <2>1 DEF RtcKeepsCalendar
<1>5. QED  BY <1>2, <1>3, <1>4

LEMMA RtcStarts == ControlInit => RtcInv
<1> SUFFICES ASSUME ControlInit PROVE RtcInv
  OBVIOUS
<1>1. calls = <<>> /\ now = 0 /\ rtc = [q |-> FALSE, cdt |-> 0, prev_in |-> FALSE, offset |-> Zero]
  BY DEF ControlInit, RTC_init
<1>2. Zero \in [sec : Int, nsec : Int]
  BY DEF Zero, Time
<1>3. rtc \in RTC_data
  BY <1>1, <1>2 DEF RTC_data
<1>4. Len(calls) = 0 /\ calls \in Seq(RtcCall) /\ 1 .. 0 = {}
  BY <1>1
<1>5. QED  BY <1>1, <1>3, <1>4 DEF RtcInv

LEMMA RtcKept == RtcInv /\ [Next]_vars => RtcInv'
<1> SUFFICES ASSUME RtcInv, [Next]_vars, family' = "rtc" PROVE RtcInv'
  BY DEF RtcInv
<1>1. family = "rtc"
  BY DEF Next, vars
<1>2. UNCHANGED controls \/ \E in \in BOOLEAN, pdt \in Dates, d \in Ticks : RTC_body(in, pdt, d)
  <2>1. CASE UNCHANGED vars
    BY <2>1 DEF vars
  <2>2. CASE BlockCall
    <3>1. \E en \in Enables : UNCHANGED controls \/ RtcNext(en)
      BY <1>1, <2>2 DEF BlockCall
    <3>2. QED  BY <3>1 DEF RtcNext, RTC
  <2>3. CASE FunctionCall \/ TaskStep
    BY <2>3 DEF FunctionCall, TaskStep
  <2>4. QED  BY <2>1, <2>2, <2>3 DEF Next
<1>3. CASE UNCHANGED controls
  BY <1>1, <1>3 DEF controls, RtcInv, RisesAt
<1>4. ASSUME NEW in \in BOOLEAN, NEW pdt \in Dates, NEW d \in Ticks, RTC_body(in, pdt, d)
      PROVE  RtcInv'
  <2> DEFINE t == now + d
             c == [in |-> in, pdt |-> pdt, at |-> t]
             n == Len(calls)
             offset == IF in /\ ~rtc.prev_in THEN time_sub(dt_to_timespec(pdt), Time(t, 0)) ELSE rtc.offset
             Kept == /\ calls' \in Seq(RtcCall) /\ now' \in Nat /\ rtc' \in RTC_data
                     /\ \A k \in 1 .. Len(calls') : calls'[k].at <= now'
                     /\ Len(calls') = 0 => ~rtc'.prev_in
                     /\ Len(calls') > 0 =>
                           LET e == calls'[Len(calls')]
                           IN  /\ rtc'.prev_in = e.in /\ rtc'.q = e.in
                               /\ IF e.in THEN /\ \E k : /\ RisesAt(calls', k)
                                                         /\ rtc'.offset = Time(SecondsSet(calls'[k].pdt) - calls'[k].at, 0)
                                               /\ rtc'.cdt = now' + rtc'.offset.sec
                                  ELSE rtc'.cdt = now'
  <2>1. Kept => RtcInv'
    BY DEF RtcInv, RisesAt
  <2>2. /\ calls' = Append(calls, c) /\ now' = t
        /\ rtc' = [q |-> in, prev_in |-> in, offset |-> offset,
                   cdt |-> IF in THEN time_add(Time(t, 0), offset).sec ELSE t]
    BY <1>4 DEF RTC_body, Record
  <2>3. /\ calls \in Seq(RtcCall) /\ now \in Nat /\ rtc \in RTC_data
        /\ \A k \in 1 .. n : calls[k].at <= now
        /\ n = 0 => ~rtc.prev_in
        /\ n > 0 => rtc.prev_in = calls[n].in
        /\ n > 0 /\ calls[n].in =>
              \E k : RisesAt(calls, k) /\ rtc.offset = Time(SecondsSet(calls[k].pdt) - calls[k].at, 0)
    BY <1>1 DEF RtcInv
  <2>4. t \in Nat /\ now <= t
    BY <2>3, ControlAssumption
  <2> HIDE DEF t, Kept
  <2>5. c \in RtcCall /\ c.in = in /\ c.pdt = pdt /\ c.at = t
    BY <2>4 DEF RtcCall
  <2> HIDE DEF c
  <2>6. /\ n \in Nat /\ calls' \in Seq(RtcCall) /\ Len(calls') = n + 1 /\ calls'[n + 1] = c
        /\ \A k \in 1 .. n : calls'[k] = calls[k] /\ calls[k] \in RtcCall
    BY <2>2, <2>3, <2>5
  <2>7. \A k \in 1 .. n + 1 : calls'[k].at <= t
    <3> SUFFICES ASSUME NEW k \in 1 .. n + 1 PROVE calls'[k].at <= t
      OBVIOUS
    <3> HIDE DEF n
    <3>1. CASE k = n + 1
      BY <2>4, <2>5, <2>6, <3>1
    <3>2. CASE k \in 1 .. n
      <4>1. calls'[k].at <= now /\ calls'[k].at \in Nat
        BY <2>3, <2>6, <3>2 DEF RtcCall
      <4>2. QED  BY <2>3, <2>4, <4>1
    <3>3. QED  BY <2>6, <3>1, <3>2
  <2>8. in => \E k : /\ RisesAt(calls', k) /\ offset = Time(SecondsSet(calls'[k].pdt) - calls'[k].at, 0)
                     /\ SecondsSet(calls'[k].pdt) - calls'[k].at \in Int
    <3> SUFFICES ASSUME in
                 PROVE  \E k : /\ RisesAt(calls', k) /\ offset = Time(SecondsSet(calls'[k].pdt) - calls'[k].at, 0)
                               /\ SecondsSet(calls'[k].pdt) - calls'[k].at \in Int
      OBVIOUS
    <3>1. CASE rtc.prev_in
      <4>1. n > 0 /\ calls[n].in
        <5> HIDE DEF n, offset
        <5>1. n # 0
          BY <2>3, <3>1
        <5>2. n > 0
          BY <2>6, <5>1
        <5>3. QED  BY <2>3, <3>1, <5>2
      <4>2. PICK k : RisesAt(calls, k) /\ rtc.offset = Time(SecondsSet(calls[k].pdt) - calls[k].at, 0)
        BY <2>3, <4>1
      <4>3. k \in 1 .. n /\ (\A j \in k .. n : calls[j].in) /\ (k = 1 \/ ~calls[k - 1].in)
        BY <4>2 DEF RisesAt
      <4>4. k \in 1 .. n + 1 /\ calls'[k] = calls[k] /\ calls[k] \in RtcCall /\ (k # 1 => calls'[k - 1] = calls[k - 1])
        BY <2>6, <4>3
      <4>5. \A j \in k .. n + 1 : calls'[j].in
        <5> SUFFICES ASSUME NEW j \in k .. n + 1 PROVE calls'[j].in
          OBVIOUS
        <5> HIDE DEF n
        <5>1. CASE j = n + 1
          BY <2>5, <2>6, <5>1
        <5>2. CASE j \in k .. n
          <6>1. j \in 1 .. n
            BY <2>6, <4>3, <5>2
          <6>2. QED  BY <2>6, <4>3, <5>2, <6>1
        <5>3. QED  BY <2>6, <4>3, <5>1, <5>2
      <4>6. RisesAt(calls', k)
        BY <2>6, <4>3, <4>4, <4>5 DEF RisesAt
      <4>7. SecondsSet(calls[k].pdt) \in Int /\ calls[k].at \in Nat
        <5>1. calls[k].pdt \in Dates /\ calls[k].at \in Nat
          BY <4>4 DEF RtcCall
        <5>2. QED  BY <5>1, SecondsSetIs
      <4>8. offset = rtc.offset
        BY <3>1
      <4> HIDE DEF offset
      <4>9. QED  BY <4>2, <4>4, <4>6, <4>7, <4>8
    <3>2. CASE ~rtc.prev_in
      <4> DEFINE k == n + 1
      <4>1. k = 1 \/ ~calls'[k - 1].in
        <5>1. n = 0 \/ (n > 0 /\ n \in 1 .. n /\ ~calls[n].in /\ calls'[n] = calls[n])
          BY <2>3, <2>6, <3>2
        <5>2. k - 1 = n
          BY <2>6
        <5>3. QED  BY <5>1, <5>2
      <4>2. RisesAt(calls', k)
        <5>1. k \in 1 .. n + 1 /\ \A j \in k .. n + 1 : j = n + 1
          BY <2>6
        <5>2. QED  BY <2>5, <2>6, <4>1, <5>1 DEF RisesAt
      <4>3. offset = time_sub(Time(SecondsSet(pdt), 0), Time(t, 0)) /\ SecondsSet(pdt) \in Int
        BY <3>2, SecondsSetIs
      <4> HIDE DEF offset
      <4>4. offset = Time(SecondsSet(pdt) - t, 0) /\ SecondsSet(pdt) - t \in Int
        <5> DEFINE s == SecondsSet(pdt)
        <5>1. s \in Int /\ t \in Int /\ offset = time_sub(Time(s, 0), Time(t, 0))
          BY <2>4, <4>3
        <5> HIDE DEF s
        <5>2. offset = Time(s - t, 0)
          BY <5>1, WholeSeconds
        <5>3. s - t \in Int
          BY <5>1
        <5>4. QED  BY <5>2, <5>3 DEF s
      <4>5. QED  BY <2>5, <2>6, <4>2, <4>4
    <3>3. rtc.prev_in \in BOOLEAN
      BY <2>3 DEF RTC_data
    <3>4. QED  BY <3>1, <3>2, <3>3
  <2>9. offset \in [sec : Int, nsec : Int]
    <3>1. CASE in
      <4>1. PICK s \in Int : offset = Time(s, 0)
        BY <2>8, <3>1
      <4> HIDE DEF offset
      <4>2. QED  BY <4>1 DEF Time
    <3>2. CASE ~in
      <4>1. offset = rtc.offset
        BY <3>2
      <4> HIDE DEF offset
      <4>2. QED  BY <2>3, <4>1 DEF RTC_data
    <3>3. QED  BY <3>1, <3>2
  <2>10. in => time_add(Time(t, 0), offset).sec = t + offset.sec
    <3> SUFFICES ASSUME in PROVE time_add(Time(t, 0), offset).sec = t + offset.sec
      OBVIOUS
    <3>1. PICK s \in Int : offset = Time(s, 0)
      BY <2>8
    <3> HIDE DEF offset
    <3>2. time_add(Time(t, 0), offset) = Time(t + s, 0)
      BY <2>4, <3>1, WholeSeconds
    <3>3. QED  BY <3>1, <3>2 DEF Time
  <2> HIDE DEF offset, n
  <2>11. /\ rtc'.q = in /\ rtc'.prev_in = in /\ rtc'.offset = offset
         /\ in => rtc'.cdt = t + offset.sec
         /\ ~in => rtc'.cdt = t
    BY <2>2, <2>10
  <2>12. rtc' \in RTC_data
    <3>1. rtc'.cdt \in Int
      <4>1. CASE in
        <5>1. offset.sec \in Int
          BY <2>9
        <5>2. QED  BY <2>4, <2>11, <4>1, <5>1
      <4>2. CASE ~in
        BY <2>4, <2>11, <4>2
      <4>3. QED  BY <4>1, <4>2
    <3> DEFINE x == IF in THEN time_add(Time(t, 0), offset).sec ELSE t
    <3>2. rtc' = [q |-> in, prev_in |-> in, offset |-> offset, cdt |-> x] /\ rtc'.cdt = x
      BY <2>2
    <3> HIDE DEF x
    <3>3. x \in Int
      BY <3>1, <3>2
    <3>4. QED  BY <2>9, <3>2, <3>3 DEF RTC_data
  <2>13. n + 1 # 0 /\ n + 1 > 0
    BY <2>6
  <2>14. IF in THEN /\ \E k : RisesAt(calls', k) /\ rtc'.offset = Time(SecondsSet(calls'[k].pdt) - calls'[k].at, 0)
                    /\ rtc'.cdt = t + rtc'.offset.sec
         ELSE rtc'.cdt = t
    BY <2>8, <2>11
  <2>15. QED  BY <2>1, <2>2, <2>4, <2>5, <2>6, <2>7, <2>11, <2>12, <2>13, <2>14 DEF Kept
<1>5. QED  BY <1>2, <1>3, <1>4

(* While its IN is on, RTC shows the date that is as many seconds after    *)
(* the date set at the rise of IN as the clock has counted since, across   *)
(* the ends of days, months and leap years; and the clock itself while IN  *)
(* is off.  So it is for every date __date_to_timespec takes without an    *)
(* overflow of its int, before 1970 and after, and every step of the clock.*)
THEOREM RtcAlwaysKeepsCalendar == Spec => []RtcKeepsCalendar
<1>1. Init => RtcInv
  BY RtcStarts DEF Init
<1>2. RtcInv /\ [Next]_vars => RtcInv'
  BY RtcKept
<1>3. RtcInv => RtcKeepsCalendar
  BY InvKeepsCalendar
<1>4. QED  BY <1>1, <1>2, <1>3, PTL DEF Spec

-----------------------------------------------------------------------------
(* Types.  The timers keep to theirs for every preset, T#0s too.           *)
LEMMA TimerMoves ==
    ASSUME NEW s \in Timer, NEW q \in BOOLEAN
    PROVE  Starts(s, q) \in Timer /\ Runs(s) \in Timer /\ Ends(s, q) \in Timer /\ Idle(s) \in Timer
<1>1. s.current_time \in [sec : Int, nsec : Int] /\ s.start_time \in [sec : Int, nsec : Int]
  BY DEF Timer
<1>2. PT \in [sec : Int, nsec : Int] /\ Zero \in [sec : Int, nsec : Int]
  BY LibTimerAssumption, ExactTime, InTime
<1>3. time_sub(s.current_time, s.start_time) \in [sec : Int, nsec : Int]
  BY <1>1, SubTime
<1>4. 0 \in 0 .. 2 /\ 1 \in 0 .. 2 /\ 2 \in 0 .. 2
  OBVIOUS
<1>5. Starts(s, q) \in Timer
  BY <1>1, <1>4 DEF Starts, Timer
<1>6. Runs(s) \in Timer
  BY <1>3, Set_et DEF Runs
<1>7. Ends(s, q) \in Timer
  BY <1>2, <1>4 DEF Ends, Timer
<1>8. Idle(s) \in Timer
  BY <1>2, <1>4 DEF Idle, Timer
<1>9. QED  BY <1>5, <1>6, <1>7, <1>8

LEMMA TimerCodes ==
    ASSUME NEW s \in Timer, NEW in \in BOOLEAN
    PROVE  TpCode(s, in) \in Timer /\ TonCode(s, in) \in Timer /\ TofCode(s, in) \in Timer
<1>1. s.q \in BOOLEAN
  BY DEF Timer
<1>2. /\ \A q \in BOOLEAN : Starts(s, q) \in Timer /\ Ends(s, q) \in Timer
      /\ Runs(s) \in Timer /\ Idle(s) \in Timer
  BY TimerMoves
<1>3. TpCode(s, in) \in Timer
  <2> DEFINE pulse == IF s.state = 0 /\ ~s.prev_in /\ in THEN Starts(s, TRUE)
                      ELSE IF s.state = 1 THEN IF Elapsed(s) THEN Ends(s, FALSE) ELSE Runs(s)
                      ELSE s
  <2>1. pulse \in Timer
    BY <1>2
  <2>2. TpCode(s, in) = IF pulse.state = 2 /\ ~in THEN Idle(pulse) ELSE pulse
    BY DEF TpCode
  <2> HIDE DEF pulse
  <2>3. Idle(pulse) \in Timer
    BY <2>1, TimerMoves, TRUE \in BOOLEAN
  <2>4. QED  BY <2>1, <2>2, <2>3
<1>4. TonCode(s, in) \in Timer
  <2>1. [Idle(s) EXCEPT !.q = FALSE] \in Timer
    BY <1>2, Set_q
  <2>2. QED  BY <1>2, <2>1 DEF TonCode
<1>5. TofCode(s, in) \in Timer
  <2> DEFINE off == IF s.state = 0 /\ s.prev_in /\ ~in THEN Starts(s, s.q)
                    ELSE IF in THEN Idle(s)
                    ELSE IF s.state = 1 THEN IF Elapsed(s) THEN Ends(s, s.q) ELSE Runs(s)
                    ELSE s
  <2>1. off \in Timer
    BY <1>1, <1>2
  <2>2. TofCode(s, in) = [off EXCEPT !.q = in \/ off.state = 1]
    BY DEF TofCode
  <2> HIDE DEF off
  <2>3. (in \/ off.state = 1) \in BOOLEAN
    OBVIOUS
  <2>4. QED  BY <2>1, <2>2, <2>3, Set_q
<1>6. QED  BY <1>3, <1>4, <1>5

LEMMA TimersKept == TimersTyped /\ [Next]_vars => TimersTyped'
<1> SUFFICES ASSUME TimersTyped, [Next]_vars PROVE TimersTyped'
  OBVIOUS
<1>1. UNCHANGED timers \/ \E en \in Enables, in \in BOOLEAN, now0 \in Instants : TimerScan(en, in, now0)
  BY DEF Next, vars, BlockCall, FunctionCall, TaskStep, TimerNext
<1>2. CASE UNCHANGED timers
  BY <1>2 DEF timers, TimersTyped
<1>3. ASSUME NEW en \in Enables, NEW in \in BOOLEAN, NEW clock \in Instants, TimerScan(en, in, clock)
      PROVE  TimersTyped'
  <2>1. tp \in Timer /\ ton \in Timer /\ tof \in Timer
    BY DEF TimersTyped
  <2>2. clock \in [sec : Int, nsec : Int]
    BY LibTimerAssumption, ExactTime
  <2>3. ASSUME NEW s \in Timer
        PROVE  /\ Seen(TpCode(Called(s, clock), in), in) \in Timer
               /\ Seen(TonCode(Called(s, clock), in), in) \in Timer
               /\ Seen(TofCode(Called(s, clock), in), in) \in Timer
    <3>1. Called(s, clock) \in Timer
      BY <2>2 DEF Called, Timer
    <3>2. \A t \in Timer : Seen(t, in) \in Timer
      BY DEF Seen, Timer
    <3>3. QED  BY <3>1, <3>2, TimerCodes
  <2>4. /\ TP_body(in, clock) \/ UNCHANGED tp
        /\ TON_body(in, clock) \/ UNCHANGED ton
        /\ TOF_body(in, clock) \/ UNCHANGED tof
    BY <1>3 DEF TimerScan, TP, TON, TOF
  <2>5. QED  BY <2>1, <2>3, <2>4 DEF TP_body, TON_body, TOF_body, TimersTyped
<1>4. QED  BY <1>1, <1>2, <1>3

(* The counters, whatever is called between their calls.                   *)
LEMMA CountersKept == CounterInv /\ [Next]_vars => CounterInv'
<1> SUFFICES ASSUME CounterInv, [Next]_vars PROVE CounterInv'
  OBVIOUS
<1>1. UNCHANGED counters \/ \E en \in Enables : CounterNext(en)
  BY DEF Next, vars, BlockCall, FunctionCall, TaskStep
<1>2. CASE UNCHANGED counters
  BY <1>2 DEF counters, CounterInv, WordValues, CtuData, CtdData, CtudData
<1>3. ASSUME NEW en \in Enables, CounterNext(en) PROVE CounterInv'
  BY <1>3, CountersStep DEF Enables
<1>4. QED  BY <1>1, <1>2, <1>3

LEMMA InvCounts == CounterInv => CountersTyped
BY DEF CounterInv, CountersTyped, WordValues, LatchData

(* The blocks of a family have their types from the invariant of that      *)
(* family; the others keep theirs.                                         *)
LEMMA ControlsStart == ControlInit => ControlsTyped
<1> SUFFICES ASSUME ControlInit PROVE ControlsTyped
  OBVIOUS
<1>1. Whole(0) \in Real /\ Zero \in [sec : Int, nsec : Int]
  BY IsWhole, InTime
<1>2. ramp \in RAMP_data
  BY <1>1 DEF ControlInit, RAMP_init, RAMP_data
<1>3. pid \in PID_data
  <2>1. DERIVATIVE_init \in DERIVATIVE_data /\ INTEGRAL_init \in INTEGRAL_data
    BY <1>1 DEF DERIVATIVE_init, DERIVATIVE_data, INTEGRAL_init, INTEGRAL_data
  <2>2. QED  BY <1>1, <2>1 DEF ControlInit, PID_init, PID_data
<1>4. rtc \in RTC_data
  BY <1>1 DEF ControlInit, RTC_init, RTC_data
<1>5. hysteresis \in HYSTERESIS_data /\ sema \in SEMA_data
  BY DEF ControlInit, HYSTERESIS_init, SEMA_init, HYSTERESIS_data, SEMA_data
<1>6. QED  BY <1>2, <1>3, <1>4, <1>5 DEF ControlsTyped

LEMMA CourseReal ==
    ASSUME NEW cs \in Seq(PidCall)
    PROVE  Course(PidBase(cs), SumOfErrors(cs)) \in Real
<1>1. PidBase(cs) \in Int /\ SumOfErrors(cs) \in Int
  BY ManualIs
<1>2. QED  BY <1>1, PidOutput

LEMMA ControlsKept ==
    ASSUME ControlsTyped, [Next]_vars, RampInv', PidInv', RtcInv', SwitchInv'
    PROVE  ControlsTyped'
<1>1. family' = family
  BY DEF Next, vars
<1>2. /\ ramp \in RAMP_data /\ pid \in PID_data /\ rtc \in RTC_data
      /\ hysteresis \in BOOLEAN /\ sema \in BOOLEAN
  BY DEF ControlsTyped, HYSTERESIS_data, SEMA_data
<1>3. \/ UNCHANGED controls
      \/ family = "ramp" /\ \E run \in BOOLEAN, x0, x1 \in Levels : RAMP_body(run, x0, x1)
      \/ family = "pid" /\ \E auto \in BOOLEAN, pv, x0 \in Levels : PID_body(auto, pv, 0, x0)
      \/ family = "rtc" /\ \E in \in BOOLEAN, pdt \in Dates, d \in Ticks : RTC_body(in, pdt, d)
      \/ family = "switches" /\ UNCHANGED <<ramp, pid, rtc>>
  <2>1. CASE UNCHANGED vars
    BY <2>1 DEF vars
  <2>2. CASE BlockCall
    <3>1. PICK en \in Enables :
            \/ UNCHANGED controls
            \/ family = "ramp" /\ RampNext(en)
            \/ family = "pid" /\ PidNext(en)
            \/ family = "rtc" /\ RtcNext(en)
            \/ family = "switches" /\ SwitchNext(en)
      BY <2>2 DEF BlockCall
    <3>2. CASE family = "ramp" /\ RampNext(en)
      BY <3>2 DEF RampNext, RAMP
    <3>3. CASE family = "pid" /\ PidNext(en)
      BY <3>3 DEF PidNext, PID
    <3>4. CASE family = "rtc" /\ RtcNext(en)
      BY <3>4 DEF RtcNext, RTC
    <3>5. CASE family = "switches" /\ SwitchNext(en)
      BY <3>5 DEF SwitchNext, HYSTERESIS, SEMA, HYSTERESIS_body, SEMA_body, controls
    <3>6. QED  BY <3>1, <3>2, <3>3, <3>4, <3>5
  <2>3. CASE FunctionCall \/ TaskStep
    BY <2>3 DEF FunctionCall, TaskStep
  <2>4. QED  BY <2>1, <2>2, <2>3 DEF Next
<1>4. CASE UNCHANGED controls
  BY <1>2, <1>4 DEF controls, ControlsTyped, HYSTERESIS_data, SEMA_data
<1>5. CASE family = "ramp" /\ \E run \in BOOLEAN, x0, x1 \in Levels : RAMP_body(run, x0, x1)
  <2>1. ramp' \in RAMP_data
    BY <1>1, <1>5 DEF RampInv, RampSoFar
  <2>2. UNCHANGED <<pid, rtc, hysteresis, sema>>
    BY <1>5 DEF RAMP_body
  <2>3. QED  BY <1>2, <2>1, <2>2 DEF ControlsTyped, HYSTERESIS_data, SEMA_data
<1>6. CASE family = "pid" /\ \E auto \in BOOLEAN, pv, x0 \in Levels : PID_body(auto, pv, 0, x0)
  <2>1. PICK x, e, i, d : pid' = [xout |-> x, error |-> e, iterm |-> i, dterm |-> d]
    BY <1>6 DEF PID_body
  <2>2. /\ calls' \in Seq(PidCall) /\ pid'.iterm = Course(PidBase(calls'), SumOfErrors(calls'))
        /\ pid'.dterm \in DERIVATIVE_data /\ pid'.xout \in Real /\ pid'.error \in Real
    BY <1>1, <1>6 DEF PidInv, PidBase, ManualCall, SumOfErrors
  <2>3. pid'.iterm \in INTEGRAL_data
    BY <2>2, CourseReal DEF INTEGRAL_data
  <2>4. pid' \in PID_data
    BY <2>1, <2>2, <2>3 DEF PID_data
  <2>5. UNCHANGED <<ramp, rtc, hysteresis, sema>>
    BY <1>6 DEF PID_body
  <2>6. QED  BY <1>2, <2>4, <2>5 DEF ControlsTyped, HYSTERESIS_data, SEMA_data
<1>7. CASE family = "rtc" /\ \E in \in BOOLEAN, pdt \in Dates, d \in Ticks : RTC_body(in, pdt, d)
  <2>1. rtc' \in RTC_data
    BY <1>1, <1>7 DEF RtcInv
  <2>2. UNCHANGED <<ramp, pid, hysteresis, sema>>
    BY <1>7 DEF RTC_body
  <2>3. QED  BY <1>2, <2>1, <2>2 DEF ControlsTyped, HYSTERESIS_data, SEMA_data
<1>8. CASE family = "switches" /\ UNCHANGED <<ramp, pid, rtc>>
  <2>1. hysteresis' \in BOOLEAN /\ sema' \in BOOLEAN
    BY <1>1, <1>8 DEF SwitchInv
  <2>2. QED  BY <1>2, <1>8, <2>1 DEF ControlsTyped, HYSTERESIS_data, SEMA_data
<1>9. QED  BY <1>3, <1>4, <1>5, <1>6, <1>7, <1>8

(* The flags of the tasks are lists of them, and no tick is counted past   *)
(* the bound.                                                              *)
FlagsTyped == trig \in [DOMAIN Resources -> Seq(EdgeData)] /\ due \in [DOMAIN Resources -> Seq(BOOLEAN)]
TicksBounded == tick <= elapsed /\ elapsed <= MaxTicks /\ (resource > 0 => elapsed < MaxTicks)
ScheduleShape == plan.outcome \in {"source", "runs", "refused", "crashed"} /\ FlagsTyped /\ TicksBounded

LEMMA FlagsAreLists ==
    ASSUME NEW D, NEW n \in Nat, NEW f \in [1 .. n -> D]
    PROVE  f \in Seq(D)
OBVIOUS

LEMMA TasksOf ==
    ASSUME conf \in Configurations, NEW r \in DOMAIN Resources
    PROVE  Len(TasksIn(r)) \in Nat /\ DOMAIN TasksIn(r) = 1 .. Len(TasksIn(r))
<1>1. Declared(conf)
  BY ConfigurationAssumption
<1>2. TasksIn(r) \in Seq(Task)
  BY <1>1, DeclaredResource DEF Resources, TasksIn
<1>3. QED  BY <1>2

LEMMA ShapeStarts == ConfigurationInit => ScheduleShape
<1> SUFFICES ASSUME ConfigurationInit PROVE ScheduleShape
  OBVIOUS
<1>1. plan.outcome = "source" /\ tick = 0 /\ elapsed = 0 /\ resource = 0 /\ conf \in Configurations
  BY DEF ConfigurationInit, Unscheduled
<1>2. R_TRIG_init \in EdgeData
  BY DEF R_TRIG_init, EdgeData
<1>3. ASSUME NEW r \in DOMAIN Resources
      PROVE  /\ [k \in DOMAIN Resources[r].tasks |-> R_TRIG_init] \in Seq(EdgeData)
             /\ [k \in DOMAIN Resources[r].tasks |-> FALSE] \in Seq(BOOLEAN)
  <2> DEFINE n == Len(TasksIn(r))
  <2>1. n \in Nat /\ DOMAIN Resources[r].tasks = 1 .. n
    BY <1>1, TasksOf DEF TasksIn
  <2> HIDE DEF n
  <2>2. QED  BY <1>2, <2>1, FlagsAreLists
<1>4. FlagsTyped
  BY <1>3 DEF ConfigurationInit, FlagsTyped
<1>5. TicksBounded
  BY <1>1, ConfigurationAssumption DEF TicksBounded
<1>6. QED  BY <1>1, <1>4, <1>5 DEF ScheduleShape

LEMMA TurnBounded ==
    ASSUME tick \in Nat, elapsed \in Nat, resource \in Nat, resource > 0, TicksBounded, Advance
    PROVE  TicksBounded'
<1>1. MaxTicks \in Nat
  BY ConfigurationAssumption
<1>2. CASE tick' = tick /\ elapsed' = elapsed
  BY <1>2 DEF TicksBounded
<1>3. CASE resource' = 0 /\ tick' = NextTick /\ elapsed' = elapsed + 1
  <2>1. NextTick = 0 \/ NextTick = tick + 1
    BY DEF NextTick
  <2>2. QED  BY <1>1, <1>3, <2>1 DEF TicksBounded
<1>4. QED  BY <1>2, <1>3 DEF Advance

LEMMA ShapeKept == ScheduleInv /\ ScheduleShape /\ [Next]_vars => ScheduleShape'
<1> SUFFICES ASSUME ScheduleInv, ScheduleShape, [Next]_vars PROVE ScheduleShape'
  OBVIOUS
<1>1. UNCHANGED schedule \/ Generate \/ HostTick \/ RunTasks \/ RunProgram \/ SkipProgram
  BY DEF vars, Next, BlockCall, FunctionCall, TaskStep
<1>2. /\ conf \in Configurations /\ tick \in Nat /\ elapsed \in Nat /\ resource \in Nat
      /\ \A r \in DOMAIN Resources : \A k \in DOMAIN TasksIn(r) : trig[r][k] \in EdgeData /\ due[r][k] \in BOOLEAN
      /\ resource \in 0 .. Len(Resources) /\ Len(Resources) \in Nat /\ DOMAIN Resources = 1 .. Len(Resources)
  <2>1. conf \in Configurations
    BY DEF ScheduleInv, ScheduleTyped
  <2>2. Declared(conf)
    BY <2>1, ConfigurationAssumption
  <2>3. Resources \in Seq(Resource)
    BY <2>2 DEF Declared, Resources, Resource
  <2>4. Len(Resources) \in Nat /\ DOMAIN Resources = 1 .. Len(Resources)
    BY <2>3
  <2>5. QED  BY <2>1, <2>4 DEF ScheduleInv, ScheduleTyped
<1>3. plan.outcome \in {"source", "runs", "refused", "crashed"} /\ FlagsTyped /\ TicksBounded
  BY DEF ScheduleShape
<1>4. ASSUME UNCHANGED <<conf, trig, due>> PROVE FlagsTyped'
  BY <1>3, <1>4 DEF FlagsTyped, Resources
<1>5. ASSUME UNCHANGED <<tick, elapsed, resource>> PROVE TicksBounded'
  BY <1>3, <1>5 DEF TicksBounded
<1>6. CASE UNCHANGED schedule
  BY <1>3, <1>4, <1>5, <1>6 DEF schedule, ScheduleShape
<1>7. CASE Generate
  <2>1. plan'.outcome \in {"source", "runs", "refused", "crashed"}
    <3>1. Declared(conf) /\ plan' = configuration_declaration(conf)
      BY <1>2, <1>7, ConfigurationAssumption DEF Generate
    <3>2. configuration_declaration(conf) \in Plan
      BY <3>1, TickDividesIntervals
    <3>3. QED  BY <3>1, <3>2 DEF Plan
  <2>2. UNCHANGED <<conf, trig, due, tick, elapsed, resource>>
    BY <1>7 DEF Generate
  <2>3. QED  BY <1>4, <1>5, <2>1, <2>2 DEF ScheduleShape
<1>8. CASE HostTick
  <2>1. UNCHANGED <<conf, trig, due, plan, tick, elapsed>> /\ elapsed < MaxTicks
    BY <1>8 DEF HostTick
  <2>2. TicksBounded'
    BY <1>3, <2>1 DEF TicksBounded
  <2>3. QED  BY <1>3, <1>4, <2>1, <2>2 DEF ScheduleShape
<1>9. CASE RunTasks
  <2> DEFINE q == resource
             tasks == TasksIn(q)
             new == [k \in DOMAIN tasks |-> IF tasks[k].single = None THEN trig[q][k] ELSE Triggered(tasks[k], trig[q][k])]
             flags == [k \in DOMAIN tasks |-> IF tasks[k].single = None THEN OnTick(tasks[k]) ELSE new[k].q]
             n == Len(tasks)
  <2>1. /\ q > 0 /\ trig' = [trig EXCEPT ![q] = new] /\ due' = [due EXCEPT ![q] = flags]
        /\ UNCHANGED <<conf, plan, tick, resource, elapsed>>
    BY <1>9 DEF RunTasks, TasksIn
  <2>2. q \in DOMAIN Resources
    BY <1>2, <2>1
  <2>3. n \in Nat /\ DOMAIN tasks = 1 .. n
    BY <1>2, <2>2, TasksOf
  <2>4. ScheduleInv'
    BY <1>9, RunTasksKeeps
  <2>5. Resources' = Resources /\ \A r : TasksIn(r)' = TasksIn(r)
    BY <2>1 DEF Resources, TasksIn
  <2>6. trig'[q] = new /\ due'[q] = flags
    <3> HIDE DEF new, flags
    <3> QED  BY <1>3, <2>1, <2>2 DEF FlagsTyped
  <2>7. \A k \in DOMAIN tasks : trig'[q][k] \in EdgeData /\ due'[q][k] \in BOOLEAN
    BY <2>2, <2>4, <2>5 DEF ScheduleInv, ScheduleTyped
  <2>8. new \in [1 .. n -> EdgeData] /\ flags \in [1 .. n -> BOOLEAN]
    <3>1. DOMAIN new = 1 .. n /\ DOMAIN flags = 1 .. n
      BY <2>3
    <3>2. new = [k \in 1 .. n |-> new[k]] /\ flags = [k \in 1 .. n |-> flags[k]]
      BY <2>3
    <3> HIDE DEF new, flags, n, tasks
    <3>3. QED  BY <2>3, <2>6, <2>7, <3>1, <3>2
  <2> HIDE DEF new, flags, n, tasks
  <2>9. new \in Seq(EdgeData) /\ flags \in Seq(BOOLEAN)
    BY <2>3, <2>8, FlagsAreLists
  <2>10. FlagsTyped'
    BY <1>3, <2>1, <2>2, <2>5, <2>9 DEF FlagsTyped
  <2>11. QED  BY <1>3, <1>5, <2>1, <2>10 DEF ScheduleShape
<1>10. CASE RunProgram \/ SkipProgram
  <2>1. UNCHANGED <<conf, plan, trig, due>> /\ Advance /\ resource > 0
    BY <1>10 DEF RunProgram, SkipProgram
  <2>2. QED  BY <1>2, <1>3, <1>4, <2>1, TurnBounded DEF ScheduleShape
<1>11. QED  BY <1>1, <1>6, <1>7, <1>8, <1>9, <1>10

LEMMA InvSchedules == ScheduleInv /\ ScheduleShape => ConfigurationTyped
<1> SUFFICES ASSUME ScheduleInv, ScheduleShape PROVE ConfigurationTyped
  OBVIOUS
<1>1. MaxTicks \in Nat
  BY ConfigurationAssumption
<1>2. tick \in 0 .. elapsed /\ elapsed \in 0 .. MaxTicks
  BY <1>1 DEF ScheduleInv, ScheduleTyped, ScheduleShape, TicksBounded
<1>3. resource > 0 => program \in 0 .. Len(Resources[resource].programs)
  <2> SUFFICES ASSUME resource > 0 PROVE program \in 0 .. Len(Resources[resource].programs)
    OBVIOUS
  <2>1. Declared(conf) /\ resource \in 0 .. Len(Resources)
    BY ConfigurationAssumption DEF ScheduleInv, ScheduleTyped
  <2>2. Resources \in Seq(Resource)
    BY <2>1 DEF Declared, Resources, Resource
  <2>3. resource \in DOMAIN Resources
    BY <2>1, <2>2
  <2>4. Resources[resource].programs \in Seq(Program)
    BY <2>1, <2>3, DeclaredResource DEF Resources
  <2>5. Len(Resources[resource].programs) \in Nat
    BY <2>4
  <2>6. QED  BY <2>5 DEF ScheduleInv, ScheduleTyped
<1>4. QED  BY <1>2, <1>3 DEF ScheduleInv, ScheduleTyped, ScheduleShape, FlagsTyped, ConfigurationTyped

(* The variables keep to the sets they are declared over, whatever the     *)
(* presets (T#0s too), inputs, gains and configurations: a regulator       *)
(* answers a number, no program beyond the last is called.  Of the         *)
(* counters it says nothing but their shape: a count is cast to its type   *)
(* whether it wraps or not, and LibraryCountsEdges is what says it never   *)
(* does.                                                                   *)
THEOREM LibraryAlwaysTyped == Spec => []TypeOK
<1> DEFINE Inv == /\ TimersTyped /\ CounterInv /\ ControlsTyped
                  /\ RampInv /\ PidInv /\ RtcInv /\ SwitchInv
                  /\ ScheduleInv /\ ScheduleShape
<1>1. Init => Inv
  <2> SUFFICES ASSUME Init PROVE Inv
    OBVIOUS
  <2>1. TimersTyped
    <3>1. TimerInit
      BY DEF Init
    <3>2. TimerInv
      BY <3>1, TimersStart
    <3>3. QED  BY <3>2 DEF TimerInv, TonRests, TpRests, TofRests, OnClock, TimersTyped
  <2>2. CounterInv
    BY CountersStart DEF Init
  <2>3. ControlsTyped /\ RampInv /\ PidInv /\ RtcInv /\ SwitchInv
    BY ControlsStart, RampStarts, PidStarts, RtcStarts, SwitchesStart DEF Init
  <2>4. ScheduleInv /\ ScheduleShape
    BY ScheduleStarts, ShapeStarts DEF Init
  <2>5. QED  BY <2>1, <2>2, <2>3, <2>4
<1>2. Inv /\ [Next]_vars => Inv'
  <2> SUFFICES ASSUME Inv, [Next]_vars PROVE Inv'
    OBVIOUS
  <2>1. TimersTyped'
    BY TimersKept
  <2>2. CounterInv'
    BY CountersKept
  <2>3. RampInv' /\ PidInv' /\ RtcInv' /\ SwitchInv'
    BY RampKept, PidKept, RtcKept, SwitchesKept
  <2>4. ControlsTyped'
    BY <2>3, ControlsKept
  <2>5. ScheduleInv' /\ ScheduleShape'
    BY ScheduleKept, ShapeKept
  <2>6. QED  BY <2>1, <2>2, <2>3, <2>4, <2>5
<1>3. Inv => TypeOK
  BY InvCounts, InvSchedules DEF TypeOK
<1>4. QED  BY <1>1, <1>2, <1>3, PTL DEF Spec
=============================================================================
