----------------------------- MODULE InterpSpec -----------------------------
(***************************************************************************)
(* The pure semantics of fstar/src/LowPLC.Interp.Spec.fst: a function from *)
(* code and pool to pool.  An index outside the pool reads as FALSE or 0   *)
(* and its write is dropped.  Its IF has a chain of ELSIFs that the format *)
(* the machine runs no longer has: here the chain is empty.                *)
(***************************************************************************)
EXTENDS Words, Sequences

CONSTANTS NBools, NInts, NTrigs

BoolSlots == 0 .. NBools - 1
IntSlots == 0 .. NInts - 1
TrigSlots == 0 .. NTrigs - 1
Pools == [bools : [BoolSlots -> BOOLEAN], ints : [IntSlots -> Int16],
          rtrigs : [TrigSlots -> BOOLEAN]]

get_bool(p, i) == i \in BoolSlots /\ p.bools[i]
set_bool(p, i, v) == IF i \in BoolSlots THEN [p EXCEPT !.bools[i] = v] ELSE p
get_int(p, i) == IF i \in IntSlots THEN p.ints[i] ELSE 0
set_int(p, i, v) == IF i \in IntSlots THEN [p EXCEPT !.ints[i] = v] ELSE p
get_rtrig(p, i) == i \in TrigSlots /\ p.rtrigs[i]
set_rtrig(p, i, m) == IF i \in TrigSlots THEN [p EXCEPT !.rtrigs[i] = m] ELSE p

exec_atomic(i, p) ==
    CASE i.op = "load_true"  -> set_bool(p, i.d, TRUE)
      [] i.op = "load_false" -> set_bool(p, i.d, FALSE)
      [] i.op = "load_int"   -> set_int(p, i.d, i.v)
      [] i.op = "bool_not"   -> set_bool(p, i.d, ~get_bool(p, i.a))
      [] i.op = "bool_and"   -> set_bool(p, i.d, get_bool(p, i.a) /\ get_bool(p, i.b))
      [] i.op = "bool_or"    -> set_bool(p, i.d, get_bool(p, i.a) \/ get_bool(p, i.b))
      [] i.op = "bool_xor"   -> set_bool(p, i.d, get_bool(p, i.a) # get_bool(p, i.b))
      [] i.op = "copy_bool"  -> set_bool(p, i.d, get_bool(p, i.a))
      [] i.op = "int_add"    -> set_int(p, i.d, add_wrap(get_int(p, i.a), get_int(p, i.b)))
      [] i.op = "int_sub"    -> set_int(p, i.d, sub_wrap(get_int(p, i.a), get_int(p, i.b)))
      [] i.op = "int_mul"    -> set_int(p, i.d, mul_wrap(get_int(p, i.a), get_int(p, i.b)))
      [] i.op = "copy_int"   -> set_int(p, i.d, get_int(p, i.a))
      [] i.op = "cmp_eq"     -> set_bool(p, i.d, get_int(p, i.a) = get_int(p, i.b))
      [] i.op = "cmp_ne"     -> set_bool(p, i.d, get_int(p, i.a) # get_int(p, i.b))
      [] i.op = "cmp_lt"     -> set_bool(p, i.d, get_int(p, i.a) < get_int(p, i.b))
      [] i.op = "cmp_gt"     -> set_bool(p, i.d, get_int(p, i.a) > get_int(p, i.b))
      [] i.op = "cmp_le"     -> set_bool(p, i.d, get_int(p, i.a) <= get_int(p, i.b))
      [] i.op = "cmp_ge"     -> set_bool(p, i.d, get_int(p, i.a) >= get_int(p, i.b))
      [] i.op = "rtrig_call" ->
            set_bool(set_rtrig(p, i.d, get_bool(p, i.a)), i.b,
                     get_bool(p, i.a) /\ ~get_rtrig(p, i.d))
      [] OTHER -> p

-----------------------------------------------------------------------------
(* The four functions call one another, each time with one gas less: what *)
(* one of them does is given by what they do with one gas less, t.         *)

(* A call without gas returns at once.                                     *)
Starved ==
    [stmts     |-> [off \in Nat |-> [rem \in Nat |-> [p \in Pools |-> p]]],
     if_block  |-> [poff \in Nat |-> [p \in Pools |-> p]],
     for_block |-> [poff \in Nat |-> [p \in Pools |-> p]],
     for_iter  |-> [off \in Nat |-> [len \in Nat |-> [idx \in Nat |-> [left \in Nat |-> [p \in Pools |-> p]]]]]]

exec_if_block(c, t, poff, p) ==
    LET i == c[poff]
        ec_off == poff + i.then
    IN  IF ec_off > Len(c) THEN p
        ELSE IF get_bool(p, i.cond) THEN t.stmts[poff][i.then][p]
        ELSE IF i.els = 0 \/ ec_off + i.els > Len(c) THEN p
        ELSE t.stmts[ec_off][i.els][p]

exec_for_block(c, t, poff, p) ==
    LET i == c[poff]
    IN  IF poff + i.body > Len(c) THEN p
        ELSE t.for_iter[poff][i.body][i.idx][IF i.end >= i.start THEN i.end - i.start + 1 ELSE 0]
                 [set_int(p, i.idx, i.start)]

exec_for_iter(t, off, len, idx, left, p) ==
    IF left = 0 THEN p
    ELSE LET q == t.stmts[off][len][p]
         IN  t.for_iter[off][len][idx][left - 1][set_int(q, idx, add_wrap(get_int(q, idx), 1))]

scan_stmts(c, t, off, rem, p) ==
    LET i == c[off + 1]
    IN  IF rem < 1 \/ off + 1 > Len(c) THEN p
        ELSE IF 1 + i.len > rem \/ off + 1 + i.len > Len(c) THEN p
        ELSE LET q == CASE i.op = "if_block"  -> t.if_block[off + 1][p]
                        [] i.op = "for_block" -> t.for_block[off + 1][p]
                        [] OTHER              -> exec_atomic(i, p)
             IN  t.stmts[off + 1 + i.len][rem - (1 + i.len)][q]

(* What the calls do that run with some gas, given t, what those do that   *)
(* run with one less.                                                      *)
OneMore(c, t) ==
    [stmts     |-> [off \in Nat |-> [rem \in Nat |-> [p \in Pools |-> scan_stmts(c, t, off, rem, p)]]],
     if_block  |-> [poff \in Nat |-> [p \in Pools |-> exec_if_block(c, t, poff, p)]],
     for_block |-> [poff \in Nat |-> [p \in Pools |-> exec_for_block(c, t, poff, p)]],
     for_iter  |-> [off \in Nat |-> [len \in Nat |-> [idx \in Nat |-> [left \in Nat |-> [p \in Pools |->
                      exec_for_iter(t, off, len, idx, left, p)]]]]]]

exec(c, n) ==
    LET t[gas \in 0 .. n] == IF gas = 0 THEN Starved ELSE OneMore(c, t[gas - 1]) IN t

exec_stmts(c, off, rem, p, gas) == exec(c, gas)[gas].stmts[off][rem][p]
=============================================================================
