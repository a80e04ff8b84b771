-------------------------------- MODULE Wcet --------------------------------
(***************************************************************************)
(* The cycle bound lowplc_load_program computes for a body: wcet_stmts,    *)
(* wcet_if_block and wcet_for_block of firmware/lowplc_runtime.c.  They    *)
(* call one another, each time with one gas less: what one of them returns *)
(* is given by what they return with one gas less, t.  The bound is a      *)
(* uint32_t: it is taken modulo m.                                         *)
(***************************************************************************)
EXTENDS Interp

CONSTANT WordMod    \* 2^32

ASSUME WcetAssumption == WordMod \in Nat \ {0}

Larger(a, b) == IF a > b THEN a ELSE b
(* Mutant: the cheaper branch is taken.                                    *)
IfCostSmaller(tc, ec) == CostIf + IF tc < ec THEN tc ELSE ec
IfCost(tc, ec) == CostIf + Larger(tc, ec)
ForCost(i, bc) == CostFor + Iters(i) * (bc + CostFor)

(* A uint32_t, or, with m = 0, an integer no word is too small for.        *)
Word(n, m) == IF m = 0 THEN n ELSE n % m

wcet_if_block(c, t, poff) ==
    LET i == c[poff]
    IN  IF poff + i.then + i.els > Len(c) THEN 0
        ELSE IfCost(t.stmts[poff][i.then], t.stmts[poff + i.then][i.els])

wcet_for_block(c, t, poff) ==
    LET i == c[poff]
    IN  IF poff + i.body > Len(c) THEN 0 ELSE ForCost(i, t.stmts[poff][i.body])

scan_cost(c, t, off, rem, m) ==
    LET i == c[off + 1]
        sc == CASE i.op = "if_block"  -> t.if_block[off + 1]
                [] i.op = "for_block" -> t.for_block[off + 1]
                [] OTHER              -> Cost[i.op] + CostDispatch
    IN  IF rem < 1 \/ off + 1 > Len(c) THEN 0
        ELSE IF 1 + i.len > rem \/ off + 1 + i.len > Len(c) THEN 0
        ELSE Word(sc + t.stmts[off + 1 + i.len][rem - (1 + i.len)], m)

Free == [stmts     |-> [off \in Nat |-> [rem \in Nat |-> 0]],
         if_block  |-> [poff \in Nat |-> 0],
         for_block |-> [poff \in Nat |-> 0]]

OneMore(c, t, m) ==
    [stmts     |-> [off \in Nat |-> [rem \in Nat |-> scan_cost(c, t, off, rem, m)]],
     if_block  |-> [poff \in Nat |-> wcet_if_block(c, t, poff)],
     for_block |-> [poff \in Nat |-> wcet_for_block(c, t, poff)]]

wcet(c, m) ==
    LET t[gas \in 0 .. Gas] == IF gas = 0 THEN Free ELSE OneMore(c, t[gas - 1], m) IN t

wcet_stmts(c, off, rem) == wcet(c, WordMod)[Gas].stmts[off][rem]

(* The bound itself, which the word may be too small to hold.              *)
ExactWcet(c, off, rem) == wcet(c, 0)[Gas].stmts[off][rem]
=============================================================================
