---------------------------- MODULE LibCounters ----------------------------
(***************************************************************************)
(* R_TRIG, F_TRIG, SR, RS, CTU, CTD and CTUD of the library linked to      *)
(* generated programs, one of each called in a scan with the same EN.      *)
(* lib/C/iec_std_FB_no_ENENO.h has their code, and lib/C/iec_std_FB.h the  *)
(* same behind EN.  The counters exist for INT, DINT, LINT, UDINT and      *)
(* ULINT with the same text; which type this is, is a variable.            *)
(***************************************************************************)
EXTENDS Integers, Sequences

CONSTANTS
    WordMax,    \* bound: the largest value of a signed counter
    Presets     \* what PV may be in a scan

ASSUME LibCounterAssumption == WordMax \in Nat \ {0} /\ Presets \subseteq Int

VARIABLES
    word,                           \* the type of PV and CV: its values
    inp,                            \* the inputs of the last call with EN on
    ctu, ctd, ctud, rtrig, ftrig, sr, rs,   \* the data of the blocks
    course,                         \* history: the calls of one counter
    clks                            \* history: CU at the last two calls with EN on
counters == <<word, inp, ctu, ctd, ctud, rtrig, ftrig, sr, rs, course, clks>>

Signed == -WordMax - 1 .. WordMax           \* INT, DINT, LINT
Unsigned == 0 .. 2 * WordMax + 1            \* UDINT, ULINT
Least == IF word = Signed THEN -WordMax - 1 ELSE 0
Most == Least + 2 * WordMax + 1
Cast(n) == Least + ((n - Least) % (2 * WordMax + 2))

Inputs == [cu : BOOLEAN, cd : BOOLEAN, r : BOOLEAN, ld : BOOLEAN, pv : Presets]

EdgeData == [m : BOOLEAN, q : BOOLEAN]
LatchData == BOOLEAN
CtuData == [cv : word, q : BOOLEAN, cu_t : EdgeData]
CtdData == [cv : word, q : BOOLEAN, cd_t : EdgeData]
CtudData == [cv : word, qu : BOOLEAN, qd : BOOLEAN, cu_t : EdgeData, cd_t : EdgeData]

R_TRIG_init == [m |-> FALSE, q |-> FALSE]
F_TRIG_init == [m |-> FALSE, q |-> FALSE]
SR_init == FALSE
RS_init == FALSE
CTU_init == [cv |-> 0, q |-> FALSE, cu_t |-> R_TRIG_init]
CTD_init == [cv |-> 0, q |-> FALSE, cd_t |-> R_TRIG_init]
CTUD_init == [cv |-> 0, qu |-> FALSE, qd |-> FALSE, cu_t |-> R_TRIG_init, cd_t |-> R_TRIG_init]

(* History, which no block reads: what the counter "of" was last set to,   *)
(* by R or LD; the edges since that were for it to count, to one more than *)
(* its type has values left on that side; and the PVs there were at those  *)
(* of CU.  An edge is told from the inputs of the calls with EN on.        *)
Begun(c, n) == [of |-> c, set |-> n, ups |-> 0, downs |-> 0, pvs |-> {}]
OneMore(n, room) == IF n > room THEN n ELSE n + 1
WithUp(c, pv) ==
    [of |-> c.of, set |-> c.set, ups |-> OneMore(c.ups, Most - c.set),
     downs |-> c.downs, pvs |-> c.pvs \cup {pv}]
WithDown(c) == [c EXCEPT !.downs = OneMore(@, c.set - Least)]
CountsUp == course.of \in {"ctu", "ctud"}
CountsDown == course.of \in {"ctd", "ctud"}
UpEdge(i) == CountsUp /\ i.cu /\ (clks = <<>> \/ ~inp.cu)
DownEdge(i) == CountsDown /\ i.cd /\ (clks = <<>> \/ ~inp.cd)
Followed(i) ==
    IF CountsUp /\ i.r THEN Begun(course.of, 0)
    ELSE IF CountsDown /\ i.ld THEN Begun(course.of, i.pv)
    ELSE IF UpEdge(i) /\ ~DownEdge(i) THEN WithUp(course, i.pv)
    ELSE IF DownEdge(i) /\ ~UpEdge(i) THEN WithDown(course)
    ELSE course
Recent(clk) == IF clks = <<>> THEN <<clk>> ELSE <<clks[Len(clks)], clk>>

CounterInit ==
    /\ word \in {Signed, Unsigned}
    /\ inp \in Inputs /\ inp.pv \in word
    /\ ctu = CTU_init /\ ctd = CTD_init /\ ctud = CTUD_init
    /\ rtrig = R_TRIG_init /\ ftrig = F_TRIG_init
    /\ sr = SR_init /\ rs = RS_init
    /\ clks = <<>> /\ \E c \in {"ctu", "ctd", "ctud"} : course = Begun(c, 0)

(* The trigger after its body has run.                                     *)
R_TRIG_body(s, clk) == [m |-> clk, q |-> clk /\ ~s.m]
F_TRIG_body(s, clk) == [m |-> ~clk, q |-> ~clk /\ ~s.m]

CtuCounts(i, edge) == IF i.r THEN 0 ELSE IF edge /\ ctu.cv < i.pv THEN Cast(ctu.cv + 1) ELSE ctu.cv
CTU_body(i) ==
    LET t == R_TRIG_body(ctu.cu_t, i.cu)
        cv == CtuCounts(i, t.q)
    IN  ctu' = [cv |-> cv, q |-> cv >= i.pv, cu_t |-> t]

(* Mutant: the counter goes on at zero.                                    *)
CtdCounts_below(i, edge) == IF i.ld THEN i.pv ELSE IF edge THEN Cast(ctd.cv - 1) ELSE ctd.cv
CtdCounts(i, edge) == IF i.ld THEN i.pv ELSE IF edge /\ ctd.cv > 0 THEN Cast(ctd.cv - 1) ELSE ctd.cv
CTD_body(i) ==
    LET t == R_TRIG_body(ctd.cd_t, i.cd)
        cv == CtdCounts(i, t.q)
    IN  ctd' = [cv |-> cv, q |-> cv <= 0, cd_t |-> t]

CtudCounts(i, up, down) ==
    IF i.r THEN 0
    ELSE IF i.ld THEN i.pv
    ELSE IF up /\ down THEN ctud.cv
    ELSE IF up /\ ctud.cv < i.pv THEN Cast(ctud.cv + 1)
    ELSE IF down /\ ctud.cv > 0 THEN Cast(ctud.cv - 1)
    ELSE ctud.cv
CTUD_body(i) ==
    LET d == R_TRIG_body(ctud.cd_t, i.cd)
        u == R_TRIG_body(ctud.cu_t, i.cu)
        cv == CtudCounts(i, u.q, d.q)
    IN  ctud' = [cv |-> cv, qu |-> cv >= i.pv, qd |-> cv <= 0, cu_t |-> u, cd_t |-> d]

(* SR's S1 and RS's S are CU, the reset of both is R.                      *)
SR_body(i) == sr' = (i.cu \/ (~i.r /\ sr))
RS_body(i) == rs' = (~i.r /\ (i.cu \/ rs))

(* With EN off a block changes ENO alone, which nothing else reads.        *)
R_TRIG(en, i) == rtrig' = IF en THEN R_TRIG_body(rtrig, i.cu) ELSE rtrig
F_TRIG(en, i) == ftrig' = IF en THEN F_TRIG_body(ftrig, i.cu) ELSE ftrig
SR(en, i) == IF en THEN SR_body(i) ELSE UNCHANGED sr
RS(en, i) == IF en THEN RS_body(i) ELSE UNCHANGED rs
CTU(en, i) == IF en THEN CTU_body(i) ELSE UNCHANGED ctu
CTD(en, i) == IF en THEN CTD_body(i) ELSE UNCHANGED ctd
CTUD(en, i) == IF en THEN CTUD_body(i) ELSE UNCHANGED ctud

CounterScan(en, i) ==
    /\ i.pv \in word
    /\ CTU(en, i) /\ CTD(en, i) /\ CTUD(en, i) /\ R_TRIG(en, i) /\ F_TRIG(en, i) /\ SR(en, i) /\ RS(en, i)
    /\ inp' = (IF en THEN i ELSE inp) /\ UNCHANGED word
    /\ IF en THEN course' = Followed(i) /\ clks' = Recent(i.cu) ELSE UNCHANGED <<course, clks>>
CounterNext(en) == \E i \in Inputs : CounterScan(en, i)

-----------------------------------------------------------------------------
CountersTyped ==
    /\ word \in {Signed, Unsigned} /\ inp \in Inputs /\ inp.pv \in word
    /\ ctu \in CtuData /\ ctd \in CtdData /\ ctud \in CtudData
    /\ {rtrig, ftrig} \subseteq EdgeData /\ {sr, rs} \subseteq LatchData

(* The count cv against the history c: it is no further from where it was  *)
(* set than there were edges, going up it stops at PV and going down at    *)
(* zero, and where all edges were of one kind none of them was lost.       *)
CountedRight(c, cv) ==
    /\ c.set - c.downs <= cv /\ cv <= c.set + c.ups
    /\ cv <= c.set \/ \E p \in c.pvs : cv <= p
    /\ cv >= c.set \/ cv >= 0
    /\ c.downs = 0 => cv >= c.set /\ (cv >= c.set + c.ups \/ \E p \in c.pvs : cv >= p)
    /\ c.ups = 0 => cv <= c.set /\ (cv <= c.set - c.downs \/ cv <= 0)
CountsEdges ==
    /\ course.of = "ctu" => CountedRight(course, ctu.cv)
    /\ course.of = "ctd" => CountedRight(course, ctd.cv)
    /\ course.of = "ctud" => CountedRight(course, ctud.cv)
(* F_TRIG takes CLK to have been on before its first call.                 *)
ShowsFall == ftrig.q <=> clks # <<>> /\ ~clks[Len(clks)] /\ (Len(clks) = 2 => clks[1])

CounterAbs == INSTANCE CounterSpec WITH
    ctu <- [cv |-> ctu.cv, prev_cu |-> ctu.cu_t.m, q |-> ctu.q],
    ctd <- [cv |-> ctd.cv, prev_cd |-> ctd.cd_t.m, q |-> ctd.q],
    ctud <- [cv |-> ctud.cv, prev_cu |-> ctud.cu_t.m, prev_cd |-> ctud.cd_t.m,
             qu |-> ctud.qu, qd |-> ctud.qd]
=============================================================================
