---------------------------- MODULE MCCounters -----------------------------
(* The counters for TLC: a program with a literal preset and no LD, whose  *)
(* calls are recorded, or one that moves PV freely from call to call.      *)
EXTENDS Counters, Sequences, FiniteSets

CONSTANT MaxCalls       \* bound: calls in a behaviour

MCPresets == {-4, -1, 0, 2, 3}

VARIABLES
    literal,        \* which of the two programs runs
    calls           \* the inputs of every call of the first so far
hvars == <<vars, literal, calls>>

HInit == Init /\ literal \in BOOLEAN /\ calls = <<>>

LiteralScan(i) ==
    /\ literal /\ Len(calls) < MaxCalls
    /\ i.pv = inp.pv /\ ~i.ld
    /\ Scan(i) /\ calls' = Append(calls, i)
FreeScan(i) == ~literal /\ Scan(i) /\ UNCHANGED calls

HNext == \E i \in Inputs : (LiteralScan(i) \/ FreeScan(i)) /\ UNCHANGED literal
HSpec == HInit /\ [][HNext]_hvars

-----------------------------------------------------------------------------
N == Len(calls)
CuRise(k) == calls[k].cu /\ (k = 1 \/ ~calls[k - 1].cu)
CdRise(k) == calls[k].cd /\ (k = 1 \/ ~calls[k - 1].cd)
Min2(a, b) == IF a <= b THEN a ELSE b

(* The rises of CU in calls after the last one with R, that one excluded:  *)
(* an edge in the reset scan is lost.                                      *)
RisesSinceReset ==
    Cardinality({k \in 1 .. N : CuRise(k) /\ \A j \in k .. N : ~calls[j].r})

(* CTU: "increments only on CU rising edges, stops when CV >= PV" (5.3).   *)
CtuCountsRises == literal /\ inp.pv >= 0 => ctu.cv = Min2(RisesSinceReset, inp.pv)

(* CTUD without LD: CV stays in 0 .. PV, and over the calls since the last *)
(* reset moves up at most once per CU rise and down at most once per CD    *)
(* rise, two edges in one call cancelling.                                 *)
Net(S) == Cardinality({k \in S : CuRise(k) /\ ~CdRise(k)})
NetDown(S) == Cardinality({k \in S : CdRise(k) /\ ~CuRise(k)})
CtudTracksEdges ==
    literal /\ inp.pv >= 0 =>
        LET S == {k \in 1 .. N : \A j \in k .. N : ~calls[j].r}
        IN  /\ ctud.cv \in 0 .. inp.pv
            /\ ctud.cv <= Net(S)
            /\ NetDown(S) = 0 => ctud.cv = Min2(Net(S), inp.pv)

(* What CTU and CTUD hold is a function of the edges in the calls so far.  *)
CountersTrackEdges == CtuCountsRises /\ CtudTracksEdges

(* F_TRIG: Q exactly at a call that sees CLK fall.                         *)
FTrigIsFall == ftrig.q <=> N > 1 /\ ~calls[N].cu /\ calls[N - 1].cu

(* SR and RS: the latch is what the last set or reset left, a set winning  *)
(* the tie in SR and a reset in RS.                                        *)
LatchesKeepLastEvent ==
    /\ sr <=> \E k \in 1 .. N : calls[k].cu /\ \A j \in k .. N : calls[j].r => calls[j].cu
    /\ rs <=> \E k \in 1 .. N : calls[k].cu /\ \A j \in k .. N : ~calls[j].r

(* The edge detector and the latches answer from the calls so far, from    *)
(* the first one on.                                                       *)
EdgesAndLatchesRemember == literal => FTrigIsFall /\ LatchesKeepLastEvent
=============================================================================
