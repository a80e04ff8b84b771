------------------------------- MODULE Interp -------------------------------
(***************************************************************************)
(* The TLV interpreter, exec_stmts_low of fstar/src/LowPLC.Interp.Low.fst, *)
(* as the steps of its recursive calls.  A cell of code is one opcode with *)
(* its operands, and lengths and offsets count cells instead of bytes: a   *)
(* leaf is one cell, a block is its header cell followed by its bodies.    *)
(* A frame of the stack is a pending call.  Calls do not share a gas       *)
(* counter: each passes its own gas, less one, to the calls it makes, so a *)
(* block and the statement after it start from the same gas.               *)
(*                                                                         *)
(* Of the function blocks R_TRIG stands for all: Timers and Counters model *)
(* what each of them computes.                                             *)
(***************************************************************************)
EXTENDS Words, Sequences

CONSTANTS
    NBools, NInts, NTrigs,      \* lp_n_bools, lp_n_ints, lp_n_rtrig
    Gas,                        \* LOWPLC_INTERP_GAS
    Cost,                       \* the cycles of each leaf opcode
    CostDispatch, CostIf, CostFor

VARIABLES
    code,       \* the opcodes
    pool,       \* low_pool: bools, ints and the R_TRIG memories
    stack,      \* the pending calls, the running one last
    spent       \* cycles since the call of exec_stmts_low (not in the code)

BoolSlots == 0 .. NBools - 1
IntSlots == 0 .. NInts - 1
TrigSlots == 0 .. NTrigs - 1

LoadTags == {"load_true", "load_false", "load_int"}
UnaryTags == {"bool_not", "copy_bool", "copy_int"}
BoolTags == {"load_true", "load_false", "bool_not", "bool_and", "bool_or", "bool_xor", "copy_bool"}
IntTags == {"load_int", "int_add", "int_sub", "int_mul", "copy_int"}
CmpTags == {"cmp_eq", "cmp_ne", "cmp_lt", "cmp_gt", "cmp_le", "cmp_ge"}
LeafTags == BoolTags \cup IntTags \cup CmpTags \cup {"rtrig_call", "unknown"}

Pools == [bools : [BoolSlots -> BOOLEAN], ints : [IntSlots -> Int16],
          rtrigs : [TrigSlots -> BOOLEAN]]

Leaves == [op : LeafTags, d : Nat, a : Nat, b : Nat, v : Int16, len : Nat]
IfBlocks == [op : {"if_block"}, cond : Nat, then : Nat, els : Nat, len : Nat]
ForBlocks == [op : {"for_block"}, idx : Nat, start : Int16, end : Int16, body : Nat, len : Nat]
Cells == Leaves \cup IfBlocks \cup ForBlocks

ASSUME InterpAssumption ==
    /\ NBools \in Nat /\ NInts \in Nat /\ NTrigs \in Nat
    /\ Gas \in Nat
    /\ Cost \in [LeafTags -> Nat] /\ CostDispatch \in Nat /\ CostIf \in Nat /\ CostFor \in Nat

-----------------------------------------------------------------------------
(* Leaf opcodes: d is the destination, a and b the sources, v the literal. *)

bool_op(op, x, y) == \/ op = "load_true"
                     \/ op = "bool_not" /\ ~x
                     \/ op = "bool_and" /\ x /\ y
                     \/ op = "bool_or" /\ (x \/ y)
                     \/ op = "bool_xor" /\ x # y
                     \/ op = "copy_bool" /\ x

int_op(op, v, x, y) == CASE op = "load_int" -> v
                         [] op = "int_add"  -> add_wrap(x, y)
                         [] op = "int_sub"  -> sub_wrap(x, y)
                         [] op = "int_mul"  -> mul_wrap(x, y)
                         [] op = "copy_int" -> x

cmp_op(op, x, y) == \/ op = "cmp_eq" /\ x = y
                    \/ op = "cmp_ne" /\ x # y
                    \/ op = "cmp_lt" /\ x < y
                    \/ op = "cmp_gt" /\ x > y
                    \/ op = "cmp_le" /\ x <= y
                    \/ op = "cmp_ge" /\ x >= y

Sources(i) == IF i.op \in LoadTags THEN {}
              ELSE IF i.op \in UnaryTags THEN {i.a} ELSE {i.a, i.b}

(* An opcode with an index outside the pool changes nothing.               *)
exec_simple_low(p, i) ==
    IF i.op \in BoolTags /\ Sources(i) \cup {i.d} \subseteq BoolSlots
    THEN [p EXCEPT !.bools[i.d] = bool_op(i.op, p.bools[i.a], p.bools[i.b])]
    ELSE IF i.op \in IntTags /\ Sources(i) \cup {i.d} \subseteq IntSlots
    THEN [p EXCEPT !.ints[i.d] = int_op(i.op, i.v, p.ints[i.a], p.ints[i.b])]
    ELSE IF i.op \in CmpTags /\ i.d \in BoolSlots /\ Sources(i) \subseteq IntSlots
    THEN [p EXCEPT !.bools[i.d] = cmp_op(i.op, p.ints[i.a], p.ints[i.b])]
    ELSE p

(* Mutant: Q is computed from the memory the call has just written.        *)
exec_fb_call_stale(p, i) ==
    IF i.op = "rtrig_call" /\ i.d \in TrigSlots /\ {i.a, i.b} \subseteq BoolSlots
    THEN [p EXCEPT !.rtrigs[i.d] = p.bools[i.a], !.bools[i.b] = FALSE]
    ELSE p

(* R_TRIG: instance d, CLK in a, Q in b.                                   *)
exec_fb_call_low(p, i) ==
    IF i.op = "rtrig_call" /\ i.d \in TrigSlots /\ {i.a, i.b} \subseteq BoolSlots
    THEN [p EXCEPT !.rtrigs[i.d] = p.bools[i.a],
                   !.bools[i.b] = p.bools[i.a] /\ ~p.rtrigs[i.d]]
    ELSE p

-----------------------------------------------------------------------------
(* Frames: a call of exec_stmts_low, and one of exec_for_iter_low, which   *)
(* is either about to test its bounds or waiting for its body (inside).    *)
Stmts(off, rem, gas) == [kind |-> "stmts", off |-> off, rem |-> rem, gas |-> gas]
Iter(off, rem, gas, idx, left, inside) ==
    [kind |-> "iter", off |-> off, rem |-> rem, gas |-> gas,
     idx |-> idx, left |-> left, inside |-> inside]

Frames == [kind : {"stmts"}, off : Nat, rem : Nat, gas : 0 .. Gas]
            \cup [kind : {"iter"}, off : Nat, rem : Nat, gas : 0 .. Gas,
                  idx : IntSlots, left : Nat, inside : BOOLEAN]

top == stack[Len(stack)]
Running(kind) == stack # <<>> /\ top.kind = kind
Cell(off) == code[off + 1]

Pop == stack' = SubSeq(stack, 1, Len(stack) - 1)
Become(f) == stack' = [stack EXCEPT ![Len(stack)] = f]
Call(f, rest) == stack' = Append([stack EXCEPT ![Len(stack)] = rest], f)

(* The early returns of exec_stmts_low, negated: a whole statement is here.*)
Fits(f) ==
    /\ f.gas # 0 /\ f.rem >= 1 /\ f.off + 1 <= Len(code)
    /\ 1 + Cell(f.off).len <= f.rem
    /\ Cell(f.off).len <= Len(code) - f.off - 1

(* Mutant: the rest is what follows the header cell.                       *)
RestInsideBlock(f) == Stmts(f.off + 1, f.rem - 1, f.gas - 1)
(* The tail call: what follows the statement.                              *)
Rest(f) == Stmts(f.off + 1 + Cell(f.off).len, f.rem - (1 + Cell(f.off).len), f.gas - 1)

(* Mutant: the bound is off by one, as a strict comparison makes it.       *)
ItersExclusive(i) == IF i.end >= i.start THEN i.end - i.start ELSE 0
Iters(i) == IF i.end >= i.start THEN i.end - i.start + 1 ELSE 0

-----------------------------------------------------------------------------
exec_stmts_return ==
    /\ Running("stmts") /\ ~Fits(top)
    /\ Pop
    /\ UNCHANGED <<code, pool, spent>>

exec_leaf ==
    /\ Running("stmts") /\ Fits(top)
    /\ Cell(top.off).op \in LeafTags
    /\ pool' = exec_fb_call_low(exec_simple_low(pool, Cell(top.off)), Cell(top.off))
    /\ spent' = spent + Cost[Cell(top.off).op] + CostDispatch
    /\ Become(Rest(top))
    /\ UNCHANGED code

(* IF: i.then and i.els are the lengths of the two bodies.                 *)
IfRuns(i, f) ==
    /\ f.gas > 1
    /\ i.then <= Len(code) - (f.off + 1)
    /\ i.els <= Len(code) - (f.off + 1 + i.then)
    /\ i.cond \in BoolSlots

(* Mutant: an IF whose condition is FALSE is not passed over.              *)
exec_if_block_stuck ==
    /\ Running("stmts") /\ Fits(top)
    /\ LET i == Cell(top.off)
           then_off == top.off + 1
       IN  /\ i.op = "if_block"
           /\ \/ /\ IfRuns(i, top) /\ pool.bools[i.cond]
                 /\ Call(Stmts(then_off, i.then, top.gas - 2), Rest(top))
                 /\ spent' = spent + CostIf
              \/ /\ IfRuns(i, top) => ~pool.bools[i.cond]
                 /\ UNCHANGED <<stack, spent>>
    /\ UNCHANGED <<code, pool>>

exec_if_block ==
    /\ Running("stmts") /\ Fits(top)
    /\ LET i == Cell(top.off)
           then_off == top.off + 1
           else_off == then_off + i.then
       IN  /\ i.op = "if_block"
           /\ spent' = spent + IF IfRuns(i, top) THEN CostIf ELSE 0
           /\ \/ /\ IfRuns(i, top) /\ pool.bools[i.cond]
                 /\ Call(Stmts(then_off, i.then, top.gas - 2), Rest(top))
              \/ /\ IfRuns(i, top) /\ ~pool.bools[i.cond] /\ i.els > 0
                 /\ Call(Stmts(else_off, i.els, top.gas - 2), Rest(top))
              \/ /\ IfRuns(i, top) => ~pool.bools[i.cond] /\ i.els = 0
                 /\ Become(Rest(top))
    /\ UNCHANGED <<code, pool>>

(* FOR: i.body is the length of the body.                                  *)
ForRuns(i, f) ==
    /\ f.gas > 1
    /\ i.body <= Len(code) - (f.off + 1)
    /\ i.idx \in IntSlots

exec_for_block ==
    /\ Running("stmts") /\ Fits(top)
    /\ LET i == Cell(top.off)
       IN  /\ i.op = "for_block"
           /\ \/ /\ ForRuns(i, top)
                 /\ pool' = [pool EXCEPT !.ints[i.idx] = i.start]
                 /\ spent' = spent + CostFor
                 /\ Call(Iter(top.off + 1, i.body, top.gas - 2, i.idx, Iters(i), FALSE), Rest(top))
              \/ ~ForRuns(i, top) /\ Become(Rest(top)) /\ UNCHANGED <<pool, spent>>
    /\ UNCHANGED code

exec_for_return ==
    /\ Running("iter") /\ ~top.inside
    /\ top.gas = 0 \/ top.left = 0
    /\ Pop
    /\ UNCHANGED <<code, pool, spent>>

exec_for_body ==
    /\ Running("iter") /\ ~top.inside
    /\ top.gas # 0 /\ top.left # 0
    /\ Call(Stmts(top.off, top.rem, top.gas - 1), [top EXCEPT !.inside = TRUE])
    /\ spent' = spent + CostFor
    /\ UNCHANGED <<code, pool>>

NextIndex(v) == add_wrap(v, 1)

exec_for_next ==
    /\ Running("iter") /\ top.inside
    /\ pool' = [pool EXCEPT !.ints[top.idx] = NextIndex(@)]
    /\ Become(Iter(top.off, top.rem, top.gas - 1, top.idx, top.left - 1, FALSE))
    /\ UNCHANGED <<code, spent>>

Step ==
    \/ exec_stmts_return \/ exec_leaf \/ exec_if_block \/ exec_for_block
    \/ exec_for_return \/ exec_for_body \/ exec_for_next

-----------------------------------------------------------------------------
(* What an interpreted program is promised, and when.                      *)
Pure == INSTANCE InterpSpec

(* A program the validator accepts: a block's bodies lie in its payload.   *)
WellFormed(c) ==
    \A k \in 1 .. Len(c) :
        /\ c[k].op = "if_block" => c[k].then + c[k].els <= c[k].len
        /\ c[k].op = "for_block" => c[k].body <= c[k].len

(* The slots and instances a cell names are there.  The validator does not *)
(* look at them: the compiler writes no others.                            *)
InPools(i) ==
    /\ i.op \in BoolTags => Sources(i) \cup {i.d} \subseteq BoolSlots
    /\ i.op \in IntTags => Sources(i) \cup {i.d} \subseteq IntSlots
    /\ i.op \in CmpTags => i.d \in BoolSlots /\ Sources(i) \subseteq IntSlots
    /\ i.op = "rtrig_call" => i.d \in TrigSlots /\ {i.a, i.b} \subseteq BoolSlots
    /\ i.op = "if_block" => i.cond \in BoolSlots
    /\ i.op = "for_block" => i.idx \in IntSlots

Meaningful(c) == WellFormed(c) /\ \A k \in 1 .. Len(c) : InPools(c[k])
=============================================================================
