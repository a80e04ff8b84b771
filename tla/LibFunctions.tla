---------------------------- MODULE LibFunctions ----------------------------
(***************************************************************************)
(* The standard functions generated programs call                          *)
(* (lib/C/iec_std_functions.h, and what it uses of lib/C/iec_std_lib.h),   *)
(* one call in a behaviour: the functions keep no state.  Overloaded and   *)
(* typed names of a function have the same text.  What the host's math.h   *)
(* computes (SQRT to ATAN, EXPT) is left out.                              *)
(***************************************************************************)
EXTENDS TimeLib, Sequences, FiniteSets

CONSTANTS
    STR_MAX_LEN,    \* the most characters of a STRING, 126 in the code
    StrlenRange,    \* how many values __strlen_t has, 256 in the code
    Width,          \* the bits of an integer or bit string, 8 to 64 in the code
    Texts,          \* bound: the STRINGs of a call
    Moments         \* bound: the TIMEs and DTs of a call

STRING_type == {s \in Seq(Nat) : Len(s) <= STR_MAX_LEN}
(* TIMEs, TODs, DATEs and DTs are given in whole and half seconds.         *)
Half == Second \div 2
HalfSeconds == {t \in [sec : Int, nsec : {-Half, 0, Half}] :
                   (t.sec > 0 => t.nsec >= 0) /\ (t.sec < 0 => t.nsec <= 0)}

(* With a STRING its parts are given too.  The last law is one of every    *)
(* Width, stated for the proofs: the provers know no powers.               *)
ASSUME FunctionAssumption ==
    /\ STR_MAX_LEN \in Nat \ {0} /\ StrlenRange \in Nat /\ 2 * STR_MAX_LEN < StrlenRange
    /\ Texts \subseteq STRING_type
    /\ \A s \in Texts : \A m \in 1 .. Len(s) + 1, n \in 0 .. Len(s) : SubSeq(s, m, n) \in Texts
    /\ Moments \subseteq HalfSeconds
    /\ Width \in Nat \ {0, 1}
    /\ 2 ^ (Width - 1) \in Nat \ {0} /\ \A w \in Width .. Width + 1 : 2 ^ w = 2 * 2 ^ (w - 1)

VARIABLES
    en_eno,     \* EN and ENO are generated: no DISABLE_EN_ENO_PARAMETERS
    called      \* the call, empty before it: what was called, and the answer
functions == <<en_eno, called>>

Result(eno, out) == [eno |-> eno, out |-> out]
(* TEST_EN and TEST_EN_COND: a call with EN off, or one its function       *)
(* refuses, answers the initial value.  The refusal is part of EN and ENO. *)
Test_EN(en, refused, init, out) ==
    IF en_eno /\ (~en \/ refused) THEN Result(FALSE, init) ELSE Result(TRUE, out)
Enables == IF en_eno THEN BOOLEAN ELSE {TRUE}

Answer(fn, en, ops, r) ==
    /\ called' = [fn |-> fn, en |-> en, ops |-> ops, eno |-> r.eno, out |-> r.out]
    /\ UNCHANGED en_eno
FunctionInit == en_eno \in BOOLEAN /\ called = <<>>

(* The loop over the operands of a function of any number of them.         *)
arith_expand(op(_, _), ops) ==
    LET r[i \in DOMAIN ops] == IF i = 1 THEN ops[1] ELSE op(r[i - 1], ops[i]) IN r[Len(ops)]
OneToThree(S) == UNION {[1 .. n -> S] : n \in 1 .. 3}

-----------------------------------------------------------------------------
(* STRINGs (Table 29) and the conversions from and to STRING.  A STRING is *)
(* the sequence of the characters its len counts; a character is its code. *)
(* What snprintf prints is a list of fields, the digits of a number apart, *)
(* which are read back.                                                    *)
Lesser(a, b) == IF a < b THEN a ELSE b
strlen(n) == n % StrlenRange                    \* (__strlen_t)n
Copied(s, n) == SubSeq(s, 1, n)                 \* the first n characters
Past(s, n) == SubSeq(s, n + 1, Len(s))          \* what follows them
Room(s) == STR_MAX_LEN - Len(s)

str_cmp(a, b) ==
    LET differ == {i \in 1 .. Lesser(Len(a), Len(b)) : a[i] # b[i]}
    IN  IF differ = {} THEN Len(a) - Len(b)
        ELSE LET i == CHOOSE i \in differ : \A j \in differ : i <= j IN a[i] - b[i]

-----------------------------------------------------------------------------
(* Lengths and positions are not negative here: EN and ENO see to that,    *)
(* where they are generated (Test_EN).  A position P = 0, no character of  *)
(* a STRING, is left out: C does not define the result.                    *)
LEN(in) == Len(in)
LEFT(in, l) == Copied(in, Lesser(l, Len(in)))
RIGHT(in, l) == Past(in, Len(in) - Lesser(l, Len(in)))
MID(in, l, p) == IF p > Len(in) THEN <<>>
                 ELSE SubSeq(in, p, p - 1 + Lesser(l, Len(in) - (p - 1)))

CONCAT(ins) ==
    LET res[i \in 0 .. Len(ins)] ==
            IF i = 0 THEN <<>>
            ELSE res[i - 1] \o Copied(ins[i], Lesser(Len(ins[i]), Room(res[i - 1])))
    IN  res[Len(ins)]

(* Mutant: the rest of IN1 is not cut to the room that is left.            *)
INSERT_no_room(in1, in2, p) ==
    LET head == Copied(in1, Lesser(strlen(p), Len(in1)))
        mid == head \o Copied(in2, Lesser(Len(in2), Room(head)))
    IN  mid \o Past(in1, Len(head))
INSERT(in1, in2, p) ==
    LET head == Copied(in1, Lesser(strlen(p), Len(in1)))
        mid == head \o Copied(in2, Lesser(Len(in2), Room(head)))
        rest == Past(in1, Len(head))
    IN  mid \o Copied(rest, Lesser(Len(rest), Room(mid)))

(* What stays before position P, and what is skipped after it.             *)
Before(in, p) == Copied(in, IF p > Len(in) THEN Len(in) ELSE p - 1)
DELETE(in, l, p) ==
    LET head == Before(in, strlen(p)) IN head \o Past(in, Len(head) + strlen(l))

(* IN2 is cut to the L characters it replaces.  The position after them is *)
(* a __strlen_t again.                                                     *)
REPLACE(in1, in2, l, p) ==
    LET head == Before(in1, strlen(p))
        mid == head \o Copied(in2, Lesser(Lesser(Len(in2), strlen(l)), Room(head)))
        after == strlen(Len(head) + strlen(l))
    IN  IF Len(mid) < STR_MAX_LEN /\ after < Len(in1) THEN mid \o Past(in1, after) ELSE mid

(* The search goes on after the character that does not match, not after   *)
(* the one the match began with.                                           *)
FIND(in1, in2) ==
    LET from[count1 \in Nat, count2 \in Nat] ==
            IF count1 + count2 >= Len(in1) \/ count2 = Len(in2)
            THEN IF count2 = Len(in2) THEN count1 + 1 ELSE 0
            ELSE IF in1[count1 + count2 + 1] = in2[count2 + 1] THEN from[count1, count2 + 1]
            ELSE from[count1 + count2 + 1, 0]
    IN  IF in2 = <<>> \/ Len(in1) < Len(in2) THEN 0 ELSE from[0, 0]

-----------------------------------------------------------------------------
(* From STRING.                                                            *)
Minus == 45
Dot == 46
Sharp == 35
CapitalE == 69
IsDigit(c) == c \in 48 .. 57
Number(base, digits) ==
    LET n[i \in 0 .. Len(digits)] == IF i = 0 THEN 0 ELSE base * n[i - 1] + digits[i] IN n[Len(digits)]
Lowest(S, none) == IF S = {} THEN none ELSE CHOOSE i \in S : \A j \in S : i <= j

toupper(c) == IF c \in 97 .. 122 THEN c - 32 ELSE c
string_to_bool(s) ==
    IF Len(s) = 1 THEN s = <<49>>
    ELSE [i \in DOMAIN s |-> toupper(s[i])] = <<84, 82, 85, 69>>

(* Digits that are none of the base are passed over.                       *)
DigitOf(base, c) ==
    IF IsDigit(c) /\ c - 48 < base THEN {c - 48}
    ELSE IF base = 16 /\ toupper(c) \in 65 .. 70 THEN {toupper(c) - 55} ELSE {}
Based(base, s) ==
    LET IsOne(c) == DigitOf(base, c) # {}
        own == SelectSeq(s, IsOne)
    IN  Number(base, [i \in DOMAIN own |-> CHOOSE d \in DigitOf(base, own[i]) : TRUE])
(* A decimal is read from its end, and anew from a character that is not   *)
(* below '.': what counts are the digits before the first of them, an      *)
(* underscore too.                                                         *)
Decimal(s) ==
    LET stop == Lowest({i \in DOMAIN s : s[i] >= Dot /\ ~IsDigit(s[i])}, Len(s) + 1)
    IN  (IF s[1] = Minus THEN -1 ELSE 1) * Based(10, Copied(s, stop - 1))
(* Decimal numbers that fit into a LINT, others that fit into a C int: the *)
(* digits of 2#, 8# and 16# are shifted as one.                            *)
pstring_to_sint(s) ==
    IF s = <<>> THEN 0
    ELSE IF Len(s) > 1 /\ Copied(s, 2) = <<50, Sharp>> THEN Based(2, Past(s, 2))
    ELSE IF Len(s) > 1 /\ Copied(s, 2) = <<56, Sharp>> THEN Based(8, Past(s, 2))
    ELSE IF Len(s) > 2 /\ Copied(s, 3) = <<49, 54, Sharp>> THEN Based(16, Past(s, 3))
    ELSE Decimal(s)

(* A REAL as its digits without the dot, and the power of ten they are     *)
(* multiplied by.  The exponent is counted on from 1, or from -1.          *)
iec_lib_atof(str) ==
    LET s == IF str # <<>> /\ str[1] = Minus THEN Tail(str) ELSE str
        dot == Lowest({i \in DOMAIN s : s[i] = Dot}, Len(s) + 1)
        e == Lowest({i \in DOMAIN s : i > dot /\ s[i] = CapitalE}, Len(s) + 1)
        Digits(a, b) == SelectSeq(SubSeq(s, a, b), IsDigit)
        fraction == Digits(dot + 1, e - 1)
        negative == e < Len(s) /\ s[e + 1] = Minus
        exponent == Number(10, <<IF negative THEN -1 ELSE 1>>
                                   \o [i \in DOMAIN Digits(e + 1, Len(s)) |-> Digits(e + 1, Len(s))[i] - 48])
    IN  [mantissa |-> (IF s = str THEN 1 ELSE -1) * Based(10, Digits(1, dot - 1) \o fraction),
         power |-> (IF e > Len(s) THEN 0 ELSE exponent) - Len(fraction)]

REAL_Sharp == <<82, 69, 65, 76, Sharp>>
LREAL_Sharp == <<76>> \o REAL_Sharp
HasDot(s) == \E i \in 2 .. Len(s) : s[i] = Dot  \* the first character is not looked at
WholeReal(n) == [mantissa |-> n, power |-> 0]
string_to_lreal(s) ==
    IF Len(s) > 5 /\ Copied(s, 5) = REAL_Sharp THEN iec_lib_atof(Past(s, 5))
    ELSE IF Len(s) > 6 /\ Copied(s, 6) = LREAL_Sharp THEN iec_lib_atof(Past(s, 6))
    ELSE IF HasDot(s) THEN iec_lib_atof(s) ELSE WholeReal(pstring_to_sint(s))
(* Only seconds: the fraction is cut off before it becomes nanoseconds.    *)
string_to_time_sec(s) ==
    IF ~HasDot(s) THEN pstring_to_sint(s)
    ELSE LET x == iec_lib_atof(s)
             m == IF x.mantissa < 0 THEN -x.mantissa ELSE x.mantissa
             whole == IF x.power < 0 THEN m \div 10 ^ (-x.power) ELSE m * 10 ^ x.power
         IN  IF x.mantissa < 0 THEN -whole ELSE whole

-----------------------------------------------------------------------------
(* To STRING: the decimal digits snprintf writes for a number.             *)
Printed(n) ==
    LET digits[k \in Nat] == IF k < 10 THEN <<48 + k>> ELSE digits[k \div 10] \o <<48 + (k % 10)>>
    IN  IF n < 0 THEN <<Minus>> \o digits[-n] ELSE digits[n]
sint_to_string(n) == Printed(n)
uint_to_string(n) == Printed(n)
bool_to_string(b) == IF b THEN <<84, 82, 85, 69>> ELSE <<70, 65, 76, 83, 69>>
bit_to_string(n) ==
    LET digit(k) == IF k < 10 THEN 48 + k ELSE 87 + k
        digits[k \in Nat] == IF k < 16 THEN <<digit(k)>> ELSE digits[k \div 16] \o <<digit(k % 16)>>
    IN  <<49, 54, Sharp>> \o digits[n]
(* "%.10g" of hundredths: no zeros at the end, no dot without a fraction.  *)
real_to_string(x) ==
    LET m == IF x < 0 THEN -x ELSE x
        sign == IF x < 0 THEN <<Minus>> ELSE <<>>
        tail == IF m % 100 = 0 THEN <<>>
                ELSE IF m % 10 = 0 THEN <<Dot, 48 + ((m % 100) \div 10)>>
                ELSE <<Dot, 48 + ((m % 100) \div 10), 48 + (m % 10)>>
    IN  sign \o Printed(m \div 100) \o tail

-----------------------------------------------------------------------------
(* Numbers *)
Types == {"INT", "UINT"}
IntValues(t) == IF t = "INT" THEN -(2 ^ (Width - 1)) .. 2 ^ (Width - 1) - 1 ELSE 0 .. 2 ^ Width - 1
move(t, n) == CHOOSE m \in IntValues(t) : (m - n) % 2 ^ Width = 0
Magnitude(n) == IF n < 0 THEN -n ELSE n

ABS(t, a) == IF t = "INT" /\ a < 0 THEN move(t, -a) ELSE a
ADD(t, ops) == LET plus(a, b) == move(t, a + b) IN arith_expand(plus, ops)
MUL(t, ops) == LET times(a, b) == move(t, a * b) IN arith_expand(times, ops)
SUB(t, a, b) == move(t, a - b)
(* / of C rounds towards zero.                                             *)
Quotient(a, b) == LET q == Magnitude(a) \div Magnitude(b) IN IF (a < 0) = (b < 0) THEN q ELSE -q
DIV(t, a, b) == move(t, Quotient(a, b))
MOD(a, b) == IF b = 0 THEN 0 ELSE a - b * Quotient(a, b)

(* Without EN and ENO a division by zero ends the program.                 *)
CallNumeric ==
    \E en \in Enables, t \in Types : \E a, b \in IntValues(t) :
        \/ Answer("ABS", en, <<a>>, Test_EN(en, FALSE, 0, ABS(t, a)))
        \/ Answer("SUB", en, <<a, b>>, Test_EN(en, FALSE, 0, SUB(t, a, b)))
        \/ /\ en_eno \/ b # 0
           /\ Answer("DIV", en, <<a, b>>, Test_EN(en, b = 0, 0, DIV(t, a, b)))
        \/ Answer("MOD", en, <<a, b>>, Test_EN(en, FALSE, 0, MOD(a, b)))
CallSums ==
    \E en \in Enables, t \in Types : \E ops \in OneToThree(IntValues(t)) :
        \/ Answer("ADD", en, ops, Test_EN(en, FALSE, 0, ADD(t, ops)))
        \/ Answer("MUL", en, ops, Test_EN(en, FALSE, 0, MUL(t, ops)))

-----------------------------------------------------------------------------
(* Bit strings: the set of the positions that are 1.  A shift by the width *)
(* or more is undefined in C and left out; ROL and ROR by a multiple of    *)
(* the width do one, and answer IN whether it comes out as 0 or as IN.     *)
Positions == 0 .. Width - 1
SHL(in, n) == {k + n : k \in in} \cap Positions
SHR(in, n) == {k - n : k \in in} \cap Positions
SHL_BOOL(in, n) == IF n = 0 THEN in ELSE FALSE
SHR_BOOL(in, n) == IF n = 0 THEN in ELSE FALSE
ROR(in, n) == SHR(in, n % Width) \cup SHL(in, Width - (n % Width))
ROL(in, n) == SHL(in, n % Width) \cup SHR(in, Width - (n % Width))
AND(ops) == LET both(a, b) == a \cap b IN arith_expand(both, ops)
OR(ops) == LET any(a, b) == a \cup b IN arith_expand(any, ops)
XOR(ops) == LET odd(a, b) == (a \ b) \cup (b \ a) IN arith_expand(odd, ops)
XOR_BOOL(ops) == LET odd(a, b) == (a /\ ~b) \/ (~a /\ b) IN arith_expand(odd, ops)
NOT(in) == Positions \ in

CallShift ==
    \E en \in Enables, in \in SUBSET Positions, n \in 0 .. 2 * Width :
        \/ n < Width /\ Answer("SHL", en, <<in, n>>, Test_EN(en, FALSE, {}, SHL(in, n)))
        \/ n < Width /\ Answer("SHR", en, <<in, n>>, Test_EN(en, FALSE, {}, SHR(in, n)))
        \/ Answer("ROL", en, <<in, n>>, Test_EN(en, FALSE, {}, ROL(in, n)))
        \/ Answer("ROR", en, <<in, n>>, Test_EN(en, FALSE, {}, ROR(in, n)))
        \/ Answer("NOT", en, <<in>>, Test_EN(en, FALSE, {}, NOT(in)))
CallBits ==
    \E en \in Enables, ops \in OneToThree(SUBSET Positions) :
        \/ Answer("AND", en, ops, Test_EN(en, FALSE, {}, AND(ops)))
        \/ Answer("OR", en, ops, Test_EN(en, FALSE, {}, OR(ops)))
        \/ Answer("XOR", en, ops, Test_EN(en, FALSE, {}, XOR(ops)))
CallBool ==
    \E en \in Enables, ops \in OneToThree(BOOLEAN) :
        \/ Answer("XOR_BOOL", en, ops, Test_EN(en, FALSE, FALSE, XOR_BOOL(ops)))
        \/ \E n \in 0 .. 2 :
              \/ Answer("SHL_BOOL", en, <<ops[1], n>>, Test_EN(en, FALSE, FALSE, SHL_BOOL(ops[1], n)))
              \/ Answer("SHR_BOOL", en, <<ops[1], n>>, Test_EN(en, FALSE, FALSE, SHR_BOOL(ops[1], n)))

-----------------------------------------------------------------------------
(* Selection and comparison, of numbers, TIMEs and dates, or STRINGs.      *)
Kinds == {"number", "time", "string"}
Cmp(kind, a, b) == CASE kind = "number" -> a - b
                     [] kind = "time" -> time_cmp(a, b)
                     [] kind = "string" -> str_cmp(a, b)
OfKind(kind) == CASE kind = "number" -> IntValues("INT")
                  [] kind = "time" -> Moments
                  [] kind = "string" -> Texts
INIT(kind) == CASE kind = "number" -> 0 [] kind = "time" -> Zero [] kind = "string" -> <<>>

SEL(g, op0, op1) == IF g THEN op1 ELSE op0
MAX(kind, ops) == LET higher(a, b) == IF Cmp(kind, a, b) < 0 THEN b ELSE a IN arith_expand(higher, ops)
MIN(kind, ops) == LET lower(a, b) == IF Cmp(kind, a, b) > 0 THEN b ELSE a IN arith_expand(lower, ops)
LIMIT(kind, mn, in, mx) ==
    IF Cmp(kind, in, mn) > 0 THEN IF Cmp(kind, in, mx) < 0 THEN in ELSE mx ELSE mn
(* No operand has a K below zero, which is not refused either.             *)
MUX(k, init, ops) == IF k \in 0 .. Len(ops) - 1 THEN ops[k + 1] ELSE init

(* A comparison holds from each operand to the next.                       *)
GT(kind, ops) == \A i \in 1 .. Len(ops) - 1 : Cmp(kind, ops[i], ops[i + 1]) > 0
GE(kind, ops) == \A i \in 1 .. Len(ops) - 1 : Cmp(kind, ops[i], ops[i + 1]) >= 0
EQ(kind, ops) == \A i \in 1 .. Len(ops) - 1 : Cmp(kind, ops[i], ops[i + 1]) = 0
LT(kind, ops) == \A i \in 1 .. Len(ops) - 1 : Cmp(kind, ops[i], ops[i + 1]) < 0
LE(kind, ops) == \A i \in 1 .. Len(ops) - 1 : Cmp(kind, ops[i], ops[i + 1]) <= 0
NE(kind, a, b) == Cmp(kind, a, b) # 0

CallSelection ==
    \E en \in Enables, kind \in Kinds : \E ops \in OneToThree(OfKind(kind)) :
        \/ Answer("MAX", en, <<kind, ops>>, Test_EN(en, FALSE, INIT(kind), MAX(kind, ops)))
        \/ Answer("MIN", en, <<kind, ops>>, Test_EN(en, FALSE, INIT(kind), MIN(kind, ops)))
        \/ /\ Len(ops) = 3
           /\ Answer("LIMIT", en, <<kind, ops>>,
                     Test_EN(en, FALSE, INIT(kind), LIMIT(kind, ops[1], ops[2], ops[3])))
        \/ \E k \in -1 .. 3 :
              Answer("MUX", en, <<k, ops, INIT(kind)>>,
                     Test_EN(en, k >= Len(ops), INIT(kind), MUX(k, INIT(kind), ops)))
        \/ /\ Len(ops) = 2
           /\ \E g \in BOOLEAN :
                 Answer("SEL", en, <<g, ops>>, Test_EN(en, FALSE, INIT(kind), SEL(g, ops[1], ops[2])))
CallComparison ==
    \E en \in Enables, kind \in Kinds : \E ops \in OneToThree(OfKind(kind)) :
        \/ Answer("GT", en, <<kind, ops>>, Test_EN(en, FALSE, FALSE, GT(kind, ops)))
        \/ Answer("GE", en, <<kind, ops>>, Test_EN(en, FALSE, FALSE, GE(kind, ops)))
        \/ Answer("EQ", en, <<kind, ops>>, Test_EN(en, FALSE, FALSE, EQ(kind, ops)))
        \/ Answer("LT", en, <<kind, ops>>, Test_EN(en, FALSE, FALSE, LT(kind, ops)))
        \/ Answer("LE", en, <<kind, ops>>, Test_EN(en, FALSE, FALSE, LE(kind, ops)))
        \/ /\ Len(ops) = 2
           /\ Answer("NE", en, <<kind, ops>>, Test_EN(en, FALSE, FALSE, NE(kind, ops[1], ops[2])))

-----------------------------------------------------------------------------
(* TIMEs and dates; REALs are counted in quarters.                         *)
(* ns * x in an int of 32 bits: from 2.147 s on x86 puts the least int.    *)
Int32(eighths) == IF eighths < 18 THEN eighths * (Second \div 8) ELSE -2147483647 - 1
time_mul(t, quarters) ==
    LET ns == Int32((t.nsec \div Half) * quarters)
        quot == Quotient(ns, Second)
    IN  normalize_timespec(Time((t.sec * quarters) \div 4 + quot,
                                ns - quot * Second + ((t.sec * quarters) % 4) * (Second \div 4)))
(* Divisors that divide a second into whole nanoseconds.                   *)
time_div(t, quarters) ==
    normalize_timespec(Time((4 * t.sec) \div quarters,
        (4 * t.nsec) \div quarters + ((4 * t.sec) % quarters) * (Second \div quarters)))

Remainder(a, b) == a - b * Quotient(a, b)       \* % of C
date_and_time_to_time_of_day(t) ==
    Time(Remainder(t.sec, Day) + (IF t.sec < 0 THEN Day ELSE 0), t.nsec)
date_and_time_to_date(t) ==
    Time(t.sec - Remainder(t.sec, Day) - (IF t.sec < 0 THEN Day ELSE 0), 0)

(* ADD_TIME, ADD_TOD_TIME and ADD_DT_TIME are one sum, as CONCAT_DATE_TOD  *)
(* is, and the six of SUB one difference.  A TIME is not multiplied or     *)
(* divided when it is negative: C does not define the conversion.          *)
CallTime ==
    \E en \in Enables, a, b \in Moments :
        \/ Answer("ADD_TIME", en, <<a, b>>, Test_EN(en, FALSE, Zero, time_add(a, b)))
        \/ Answer("SUB_TIME", en, <<a, b>>, Test_EN(en, FALSE, Zero, time_sub(a, b)))
        \/ Answer("CONCAT_DATE_TOD", en, <<Time(a.sec - (a.sec % Day), 0), Time(b.sec % Day, 0)>>,
                  Test_EN(en, FALSE, Zero, time_add(Time(a.sec - (a.sec % Day), 0), Time(b.sec % Day, 0))))
        \/ Answer("DT_TO_TOD", en, <<a>>, Test_EN(en, FALSE, Zero, date_and_time_to_time_of_day(a)))
        \/ Answer("DT_TO_DATE", en, <<a>>, Test_EN(en, FALSE, Zero, date_and_time_to_date(a)))
CallTimeReal ==
    \E en \in Enables, a \in Moments, quarters \in {1, 2, 4, 5, 8} :
        /\ GE_TIME(a, Zero) /\ a.sec < Day
        /\ \/ Answer("MULTIME", en, <<a, quarters>>, Test_EN(en, FALSE, Zero, time_mul(a, quarters)))
           \/ Answer("DIVTIME", en, <<a, quarters>>, Test_EN(en, FALSE, Zero, time_div(a, quarters)))

-----------------------------------------------------------------------------
(* Conversions *)
num_to_bool(n) == n # 0
time_to_bool(t) == ~(t.sec = 0 /\ t.nsec = 0)
BitsOf(n) == {k \in Positions : (n \div 2 ^ k) % 2 = 1}
ValueOf(bits) == CHOOSE n \in IntValues("UINT") : BitsOf(n) = bits
(* Halves go to the even number; a REAL below zero to no unsigned one.     *)
real_round(quarters) ==
    IF quarters % 4 = 0 THEN 2 * Quotient(quarters \div 4, 2) ELSE Quotient(quarters, 4)
(* The REALs that are given: they fit into an INT.                         *)
Quarters == -(2 ^ (Width + 1)) .. 2 ^ (Width + 1) - 3
real_to_sint(x) == IF x >= 0 THEN real_round(x + 2) ELSE real_round(x - 2)
real_to_uint(x) == IF x >= 0 THEN real_round(x + 2) ELSE 0
TRUNC(x) == Quotient(x, 4)
int_to_time(n) == Time(n, 0)
time_to_int(t) == t.sec
real_to_time(x) == Time(Quotient(x, 4), Remainder(x, 4) * (Second \div 4))

(* A BCD digit has four bits.  What the type does not hold is cut off.     *)
test_bcd(n) ==
    LET wrong[k \in Nat] == IF k = 0 THEN FALSE ELSE k % 16 > 9 \/ wrong[k \div 16] IN wrong[n]
bcd_to_uint(n) ==
    LET value[k \in Nat] == IF k = 0 THEN 0 ELSE (k % 16) + 10 * value[k \div 16] IN value[n]
uint_to_bcd(n) ==
    LET digits[k \in Nat] == IF k = 0 THEN 0 ELSE (k % 10) + 16 * digits[k \div 10] IN digits[n]

CallConversion ==
    \E en \in Enables, t, to \in Types : \E n \in IntValues(t) :
        \/ Answer("TO_BOOL", en, <<n>>, Test_EN(en, FALSE, FALSE, num_to_bool(n)))
        \/ Answer("TO_INT", en, <<n, to>>, Test_EN(en, FALSE, 0, move(to, n)))
        \/ Answer("TO_BIT", en, <<n>>, Test_EN(en, FALSE, {}, BitsOf(n)))
        \/ Answer("BIT_TO", en, <<BitsOf(n), to>>, Test_EN(en, FALSE, 0, move(to, ValueOf(BitsOf(n)))))
        \/ Answer("INT_TO_TIME", en, <<n>>, Test_EN(en, FALSE, Zero, int_to_time(n)))
CallReal ==
    \E en \in Enables, x \in Quarters :
        \/ Answer("REAL_TO_INT", en, <<x>>, Test_EN(en, FALSE, 0, move("INT", real_to_sint(x))))
        \/ Answer("REAL_TO_UINT", en, <<x>>, Test_EN(en, FALSE, 0, move("UINT", real_to_uint(x))))
        \/ Answer("TRUNC", en, <<x>>, Test_EN(en, FALSE, 0, TRUNC(x)))
        \/ Answer("REAL_TO_TIME", en, <<x>>, Test_EN(en, FALSE, Zero, real_to_time(x)))
CallTimeConversion ==
    \E en \in Enables, a \in Moments :
        \/ Answer("TIME_TO_BOOL", en, <<a>>, Test_EN(en, FALSE, FALSE, time_to_bool(a)))
        \/ Answer("TIME_TO_INT", en, <<a>>, Test_EN(en, FALSE, 0, time_to_int(a)))
CallBcd ==
    \E en \in Enables, n \in 0 .. 255 :
        \/ Answer("TO_BCD", en, <<n>>, Test_EN(en, FALSE, 0, uint_to_bcd(n) % 256))
        \/ Answer("BCD_TO", en, <<n>>, Test_EN(en, test_bcd(n), 0, bcd_to_uint(n)))

-----------------------------------------------------------------------------
(* STRINGs.  A negative length or position is refused with EN and ENO, and *)
(* undefined without.  REPLACE of more characters than a STRING has is     *)
(* left out: the position after them may wrap round.                       *)
Lengths == -1 .. StrlenRange
Places == {-1} \cup 1 .. STR_MAX_LEN + 1
Refused(n) == n < 0
Defined(n) == en_eno \/ n >= 0

CallString ==
    \E en \in Enables, in \in Texts, l \in Lengths :
        /\ Defined(l)
        /\ \/ Answer("LEN", en, <<in>>, Test_EN(en, FALSE, 0, LEN(in)))
           \/ Answer("LEFT", en, <<in, l>>, Test_EN(en, Refused(l), <<>>, LEFT(in, l)))
           \/ Answer("RIGHT", en, <<in, l>>, Test_EN(en, Refused(l), <<>>, RIGHT(in, l)))
           \/ \E p \in Places :
                 /\ Defined(p)
                 /\ \/ Answer("MID", en, <<in, l, p>>, Test_EN(en, Refused(l) \/ Refused(p), <<>>, MID(in, l, p)))
                    \/ Answer("DELETE", en, <<in, l, p>>,
                              Test_EN(en, Refused(l) \/ Refused(p), <<>>, DELETE(in, l, p)))
CallStrings ==
    \E en \in Enables, in1, in2 \in Texts :
        \/ Answer("FIND", en, <<in1, in2>>, Test_EN(en, FALSE, 0, FIND(in1, in2)))
        \/ \E p \in Lengths : /\ Defined(p)
                              /\ Answer("INSERT", en, <<in1, in2, p>>,
                                        Test_EN(en, Refused(p), <<>>, INSERT(in1, in2, p)))
        \/ \E l \in -1 .. STR_MAX_LEN, p \in Places :
              /\ Defined(l) /\ Defined(p)
              /\ Answer("REPLACE", en, <<in1, in2, l, p>>,
                        Test_EN(en, Refused(l) \/ Refused(p), <<>>, REPLACE(in1, in2, l, p)))
CallConcat ==
    \E en \in Enables, ins \in OneToThree(Texts) :
        Answer("CONCAT", en, ins, Test_EN(en, FALSE, <<>>, CONCAT(ins)))

(* A program reads back what it has written, or a literal.                 *)
Literals(n) == {sint_to_string(n)} \cup IF n < 0 THEN {} ELSE {bit_to_string(n), uint_to_string(n)}
CallFromString ==
    \E en \in Enables, n \in -120 .. 120 :
        \/ \E s \in Literals(n) : Answer("STRING_TO_INT", en, <<n, s>>, Test_EN(en, FALSE, 0, pstring_to_sint(s)))
        \/ LET s == real_to_string(n)
           IN  Answer("STRING_TO_REAL", en, <<n, s>>, Test_EN(en, FALSE, WholeReal(0), string_to_lreal(s)))
        \/ LET s == LREAL_Sharp \o real_to_string(n)
           IN  Answer("STRING_TO_REAL", en, <<n, s>>, Test_EN(en, FALSE, WholeReal(0), string_to_lreal(s)))
        \/ LET s == real_to_string(n)
           IN  Answer("STRING_TO_TIME", en, <<n, s>>,
                      Test_EN(en, FALSE, Zero, Time(string_to_time_sec(s), 0)))
        \/ \E b \in BOOLEAN : LET s == bool_to_string(b)
                              IN  Answer("STRING_TO_BOOL", en, <<b, s>>, Test_EN(en, FALSE, FALSE, string_to_bool(s)))

FunctionNext ==
    /\ called = <<>>
    /\ \/ CallNumeric \/ CallSums \/ CallShift \/ CallBits \/ CallBool
       \/ CallSelection \/ CallComparison \/ CallTime \/ CallTimeReal
       \/ CallConversion \/ CallReal \/ CallTimeConversion \/ CallBcd
       \/ CallString \/ CallStrings \/ CallConcat \/ CallFromString

-----------------------------------------------------------------------------
(* What the standard says the functions are.                               *)
Nanos8(t) == In(8, t)           \* a TIME in eighths of a second
IsPrefix(a, b) == Len(a) <= Len(b) /\ Copied(b, Len(a)) = a
Less(kind, a, b) ==
    CASE kind = "number" -> a < b
      [] kind = "time" -> Nanos8(a) < Nanos8(b)
      [] kind = "string" -> \/ IsPrefix(a, b) /\ a # b
                            \/ \E i \in DOMAIN a \cap DOMAIN b :
                                  a[i] < b[i] /\ Copied(a, i - 1) = Copied(b, i - 1)
Same(kind, a, b) == ~Less(kind, a, b) /\ ~Less(kind, b, a)
Occurs(in1, in2, p) == p + Len(in2) - 1 <= Len(in1) /\ SubSeq(in1, p, p + Len(in2) - 1) = in2
Fitting(s) == Copied(s, Lesser(Len(s), STR_MAX_LEN))
All(ops) == {ops[i] : i \in DOMAIN ops}
Pairs(ops, Holds(_, _)) == \A i, j \in DOMAIN ops : i < j => Holds(ops[i], ops[j])

NumbersAnswer(fn, x, y) ==
    /\ fn \in {"SUB", "ADD", "MUL"} => (y - CASE fn = "SUB" -> x[1] - x[2]
                                            [] fn = "ADD" -> LET t(a, b) == a + b IN arith_expand(t, x)
                                            [] fn = "MUL" -> LET t(a, b) == a * b IN arith_expand(t, x)) % 2 ^ Width = 0
    /\ fn = "ABS" => y \in {Magnitude(x[1]), -(2 ^ (Width - 1))} /\ (y - Magnitude(x[1])) % 2 ^ Width = 0
    /\ fn = "DIV" /\ ~(x[2] = -1 /\ y = x[1]) =>
          Magnitude(x[1] - y * x[2]) < Magnitude(x[2]) /\ Magnitude(y * x[2]) <= Magnitude(x[1])
    /\ fn = "MOD" => IF x[2] = 0 THEN y = 0
                     ELSE (x[1] - y) % Magnitude(x[2]) = 0 /\ Magnitude(y) < Magnitude(x[2]) /\ y * x[1] >= 0

BitsAnswer(fn, x, y) ==
    /\ fn = "SHL" => ValueOf(y) = (ValueOf(x[1]) * 2 ^ x[2]) % 2 ^ Width
    /\ fn = "SHR" => ValueOf(y) = ValueOf(x[1]) \div 2 ^ x[2]
    /\ fn = "ROL" => \A k \in Positions : (k + x[2]) % Width \in y <=> k \in x[1]
    /\ fn = "ROR" => \A k \in Positions : k \in y <=> (k + x[2]) % Width \in x[1]
    /\ fn = "NOT" => ValueOf(y) + ValueOf(x[1]) = 2 ^ Width - 1
    /\ \A k \in Positions :
          LET ones == {i \in DOMAIN x : k \in x[i]}
          IN  /\ fn = "AND" => (k \in y <=> ones = DOMAIN x)
              /\ fn = "OR" => (k \in y <=> ones # {})
              /\ fn = "XOR" => (k \in y <=> ones \in {{1}, {2}, {3}, {1, 2, 3}})
    /\ fn = "XOR_BOOL" => (y <=> {i \in DOMAIN x : x[i]} \in {{1}, {2}, {3}, {1, 2, 3}})
    /\ fn \in {"SHL_BOOL", "SHR_BOOL"} => (y <=> x[1] /\ x[2] = 0)

(* LIMIT with its limits the wrong way round is either.                    *)
ChoiceAnswer(fn, x, y) ==
    /\ fn = "MAX" => y \in All(x[2]) /\ \A v \in All(x[2]) : ~Less(x[1], y, v)
    /\ fn = "MIN" => y \in All(x[2]) /\ \A v \in All(x[2]) : ~Less(x[1], v, y)
    /\ fn = "LIMIT" =>
          LET mn == x[2][1]
              in == x[2][2]
              mx == x[2][3]
          IN  IF Less(x[1], mx, mn) THEN y \in {mn, mx}
              ELSE IF Less(x[1], in, mn) THEN y = mn ELSE IF Less(x[1], mx, in) THEN y = mx ELSE y = in
    /\ fn = "MUX" => y = IF x[1] + 1 \in DOMAIN x[2] THEN x[2][x[1] + 1] ELSE x[3]
    /\ fn = "SEL" => y = IF x[1] THEN x[2][2] ELSE x[2][1]
    /\ fn \in {"GT", "GE", "EQ", "LT", "LE", "NE"} =>
          (y <=> Pairs(x[2], LAMBDA a, b : CASE fn = "GT" -> Less(x[1], b, a)
                                             [] fn = "GE" -> ~Less(x[1], a, b)
                                             [] fn = "EQ" -> Same(x[1], a, b)
                                             [] fn = "LT" -> Less(x[1], a, b)
                                             [] fn = "LE" -> ~Less(x[1], b, a)
                                             [] fn = "NE" -> ~Same(x[1], a, b)))

(* A TIME is multiplied as far as its nanoseconds fit into 32 bits.  An    *)
(* instant before 1970 that is midnight is counted to the day before.      *)
TimesAnswer(fn, x, y) ==
    /\ fn \in {"ADD_TIME", "CONCAT_DATE_TOD"} => Nanos8(y) = Nanos8(x[1]) + Nanos8(x[2])
    /\ fn = "SUB_TIME" => Nanos8(y) = Nanos8(x[1]) - Nanos8(x[2])
    /\ fn = "MULTIME" /\ Nanos8(Time(0, x[1].nsec)) * x[2] < 4 * 17 => 4 * Nanos8(y) = Nanos8(x[1]) * x[2]
    /\ fn = "DIVTIME" => In(200, y) * x[2] = In(200, x[1]) * 4
    /\ fn = "DT_TO_TOD" /\ (x[1].sec >= 0 \/ x[1].sec % Day # 0) => y.sec = x[1].sec % Day /\ y.nsec = x[1].nsec
    /\ fn = "DT_TO_DATE" /\ (x[1].sec >= 0 \/ x[1].sec % Day # 0) =>
          y.sec % Day = 0 /\ x[1].sec - y.sec \in 0 .. Day - 1 /\ y.nsec = 0
    /\ fn = "TIME_TO_BOOL" => (y <=> Nanos8(x[1]) # 0)
    /\ fn = "TIME_TO_INT" => Magnitude(Nanos8(x[1]) - 8 * y) < 8

ConversionsAnswer(fn, x, y) ==
    /\ fn = "TO_BOOL" => (y <=> x[1] # 0)
    /\ fn = "TO_INT" => (y - x[1]) % 2 ^ Width = 0
    /\ fn = "TO_BIT" => (ValueOf(y) - x[1]) % 2 ^ Width = 0
    /\ fn = "BIT_TO" => (y - ValueOf(x[1])) % 2 ^ Width = 0
    /\ fn = "INT_TO_TIME" => Nanos8(y) = 8 * x[1]
    /\ fn = "REAL_TO_TIME" => Nanos8(y) = 2 * x[1]
    /\ fn \in {"REAL_TO_INT", "REAL_TO_UINT"} =>
          LET near == IF fn = "REAL_TO_UINT" /\ x[1] < 0 THEN 0 ELSE x[1]
          IN  \/ Magnitude(4 * y - near) < 2
              \/ Magnitude(4 * y - near) = 2 /\ y % 2 = 0
    /\ fn = "TRUNC" => Magnitude(x[1] - 4 * y) < 4 /\ Magnitude(4 * y) <= Magnitude(x[1])
    /\ fn = "TO_BCD" => \A k \in 0 .. 1 : (y \div 16 ^ k) % 16 = (x[1] \div 10 ^ k) % 10
    /\ fn = "BCD_TO" /\ ~test_bcd(x[1]) => \A k \in 0 .. 1 : (x[1] \div 16 ^ k) % 16 = (y \div 10 ^ k) % 10
    /\ fn = "STRING_TO_INT" => y = x[1]
    /\ fn = "STRING_TO_REAL" => y.mantissa * 10 ^ (y.power + 2) = x[1]
    /\ fn = "STRING_TO_TIME" => y = Time(Quotient(x[1], 100), 0)
    /\ fn = "STRING_TO_BOOL" => y = x[1]

(* IN2 is cut to L by REPLACE.  FIND answers a place where IN2 is, and the *)
(* first one if no character before it is the first of IN2.                *)
StringsAnswer(fn, x, y) ==
    /\ fn = "LEN" => y = Len(x[1])
    /\ fn = "LEFT" => IsPrefix(y, x[1]) /\ Len(y) = Lesser(x[2], Len(x[1]))
    /\ fn = "RIGHT" => \E head \in Texts : head \o y = x[1] /\ Len(y) = Lesser(x[2], Len(x[1]))
    /\ fn = "MID" => y = [i \in 1 .. Len(y) |-> x[1][x[3] - 1 + i]]
                     /\ Len(y) = Cardinality({i \in DOMAIN x[1] : x[3] <= i /\ i < x[3] + x[2]})
    /\ fn = "CONCAT" => y = Fitting(LET join(a, b) == a \o b IN arith_expand(join, x))
    /\ fn = "INSERT" /\ x[3] < StrlenRange =>
          y = Fitting(Copied(x[1], Lesser(x[3], Len(x[1]))) \o x[2] \o Past(x[1], x[3]))
    /\ fn = "DELETE" /\ x[2] < StrlenRange =>
          \E a, b, c \in Texts : /\ a \o b \o c = x[1] /\ a \o c = y
                                 /\ Len(a) = Lesser(x[3] - 1, Len(x[1])) /\ Len(b) <= x[2]
                                 /\ Len(b) < x[2] => c = <<>>
    /\ fn = "REPLACE" => y = Fitting(Copied(x[1], Lesser(x[4] - 1, Len(x[1])))
                                        \o Copied(x[2], Lesser(Len(x[2]), x[3])) \o Past(x[1], x[4] - 1 + x[3]))
    /\ fn = "FIND" => /\ y > 0 => x[2] # <<>> /\ Occurs(x[1], x[2], y)
                      /\ \A p \in DOMAIN x[1] :
                            x[2] # <<>> /\ Occurs(x[1], x[2], p) /\ x[2][1] \notin All(Copied(x[1], p - 1))
                                => y = p

(* The functions answer what the standard says.  ENO is off for the calls  *)
(* with EN off and the operands a function has no answer for, alone.       *)
NoAnswer(fn, x) ==
    \/ fn = "DIV" /\ x[2] = 0
    \/ fn = "MUX" /\ x[1] >= Len(x[2])
    \/ fn = "BCD_TO" /\ x[1] \notin {16 * a + b : a, b \in 0 .. 9}
    \/ fn \in {"LEFT", "RIGHT", "MID", "DELETE"} /\ \E i \in 2 .. Len(x) : x[i] < 0
    \/ fn \in {"INSERT", "REPLACE"} /\ \E i \in 3 .. Len(x) : x[i] < 0
FunctionsMeetStandard ==
    called # <<>> =>
        LET fn == called.fn
            x == called.ops
            y == called.out
        IN  /\ called.eno <=> called.en /\ ~(en_eno /\ NoAnswer(fn, x))
            /\ called.eno => /\ NumbersAnswer(fn, x, y) /\ BitsAnswer(fn, x, y) /\ ChoiceAnswer(fn, x, y)
                             /\ TimesAnswer(fn, x, y) /\ ConversionsAnswer(fn, x, y)
                             /\ StringsAnswer(fn, x, y)
=============================================================================
