---------------------------- MODULE InterpProofs ----------------------------
(***************************************************************************)
(* Of every step of the interpreter, for every program, pool size and gas: *)
(* that it keeps the types, that its calls read inside the code and their  *)
(* blocks, that each does its part of what the semantics computes, and that*)
(* the cycles spent stay within the bound that the load computed.          *)
(***************************************************************************)
EXTENDS Wcet, WellFoundedInduction, TLAPS

-----------------------------------------------------------------------------
(* Induction over the natural numbers as a fact about sets, which the      *)
(* provers can use: what NaturalsInduction states of every predicate they  *)
(* cannot instantiate.                                                     *)

(* A set with 0 and with the successor of each of its numbers has them     *)
(* all: otherwise the order would give a least number it lacks.            *)
LEMMA SetInduction ==
    ASSUME NEW S, 0 \in S, \A n \in Nat : n \in S => n + 1 \in S
    PROVE  Nat \subseteq S
<1> DEFINE R == OpToRel(<, Nat)
           T == Nat \ S
<1>1. IsWellFoundedOn(R, Nat)
  BY NatLessThanWellFounded
<1>2. \A x, y \in Nat : x < y => <<x, y>> \in R
  BY DEF OpToRel
<1>3. SUFFICES ASSUME T # {} PROVE FALSE
  OBVIOUS
<1>4. T \subseteq Nat
  OBVIOUS
<1> HIDE DEF R
<1>5. PICK x \in T : \A y \in T : ~(<<y, x>> \in R)
  <2> HIDE DEF T
  <2> QED  BY <1>1, <1>3, <1>4, WFMin
<1>6. x \in Nat /\ x # 0 /\ x - 1 \in Nat
  BY <1>5
<1>7. x - 1 \in S
  <2>1. SUFFICES ASSUME x - 1 \notin S PROVE FALSE
    OBVIOUS
  <2>2. x - 1 \in T
    BY <1>6, <2>1
  <2>3. x - 1 < x
    BY <1>6
  <2>4. <<x - 1, x>> \in R
    BY <1>2, <1>6, <2>3
  <2>5. QED  BY <1>5, <2>2, <2>4
<1>8. (x - 1) + 1 \in S
  BY <1>6, <1>7
<1>9. QED  BY <1>5, <1>6, <1>8

(* The same up to a bound.                                                 *)
LEMMA BoundedInduction ==
    ASSUME NEW n \in Nat, NEW S, 0 \in S,
           \A k \in 0 .. n : k < n /\ k \in S => k + 1 \in S
    PROVE  0 .. n \subseteq S
<1> DEFINE T == {k \in Nat : k <= n => k \in S}
<1>1. 0 \in T
  OBVIOUS
<1>2. ASSUME NEW k \in Nat, k \in T PROVE k + 1 \in T
  <2>1. CASE k + 1 <= n
    <3>1. k \in 0 .. n /\ k < n /\ k \in S
      BY <1>2, <2>1
    <3>2. QED  BY <3>1
  <2>2. QED  BY <2>1
<1>3. Nat \subseteq T
  <2> HIDE DEF T
  <2> QED  BY <1>1, <1>2, SetInduction
<1>4. QED  BY <1>3

-----------------------------------------------------------------------------
(* Gas that is left, and what one call and two calls leave of it.          *)
LEMMA GasLeft ==
    /\ \A n \in Nat : n # 0 => n > 0 /\ n - 1 \in Nat
    /\ \A n \in 0 .. Gas : n # 0 => n > 0 /\ n \in 1 .. Gas /\ n - 1 \in 0 .. Gas
    /\ \A n \in 0 .. Gas : n > 1 => n - 1 \in 1 .. Gas /\ (n - 1) - 1 = n - 2 /\ n - 2 \in 0 .. Gas
<1>1. Gas \in Nat
  BY InterpAssumption
<1>2. QED  BY <1>1

-----------------------------------------------------------------------------
(* The arithmetic of INT.                                                  *)
LEMMA WordFacts == 0 \in Int16 /\ \A n \in Int16 : n \in Int
BY WordAssumption DEF Int16, IntMin

(* The cast brings every integer back into INT.                            *)
LEMMA WrapType == ASSUME NEW n \in Int PROVE wrap_i16(n) \in Int16
<1>1. CASE n \in Int16
  BY <1>1 DEF wrap_i16
<1>2. CASE n \notin Int16
  <2> DEFINE M == 2 * IntMax + 2
             r == (n - IntMin) % M
  <2>1. M \in Nat /\ M > 0 /\ IntMin \in Int /\ n - IntMin \in Int
    BY WordAssumption DEF IntMin
  <2>2. r \in 0 .. M - 1
    BY <2>1
  <2>3. r + IntMin \in Int16
    BY <2>1, <2>2, WordAssumption DEF Int16, IntMin
  <2>4. QED  BY <1>2, <2>3 DEF wrap_i16
<1>3. QED  BY <1>1, <1>2

LEMMA ArithmeticType ==
    ASSUME NEW a \in Int16, NEW b \in Int16
    PROVE  add_wrap(a, b) \in Int16 /\ sub_wrap(a, b) \in Int16 /\ mul_wrap(a, b) \in Int16
<1>1. a \in Int /\ b \in Int
  BY WordFacts
<1>2. a + b \in Int /\ a - b \in Int /\ a * b \in Int
  BY <1>1
<1>3. QED  BY <1>2, WrapType DEF add_wrap, sub_wrap, mul_wrap

-----------------------------------------------------------------------------
(* Writing one slot of a pool.                                             *)
LEMMA WriteBool ==
    ASSUME NEW p \in Pools, NEW d \in BoolSlots, NEW e \in BOOLEAN
    PROVE  [p EXCEPT !.bools[d] = e] \in Pools
BY DEF Pools

LEMMA WriteInt ==
    ASSUME NEW p \in Pools, NEW d \in IntSlots, NEW e \in Int16
    PROVE  [p EXCEPT !.ints[d] = e] \in Pools
BY DEF Pools

LEMMA WriteEdge ==
    ASSUME NEW p \in Pools, NEW d \in TrigSlots, NEW m \in BOOLEAN,
           NEW b \in BoolSlots, NEW q \in BOOLEAN
    PROVE  [p EXCEPT !.rtrigs[d] = m, !.bools[b] = q] \in Pools
BY DEF Pools

-----------------------------------------------------------------------------
(* The results of the leaf opcodes.                                        *)
LEMMA BoolResult == \A op, x, y : bool_op(op, x, y) \in BOOLEAN
BY DEF bool_op

LEMMA CmpResult == \A op, x, y : cmp_op(op, x, y) \in BOOLEAN
BY DEF cmp_op

LEMMA IntResult ==
    ASSUME NEW op \in IntTags, NEW v \in Int16, NEW x, NEW y,
           op # "load_int" => x \in Int16,
           op \notin {"load_int", "copy_int"} => y \in Int16
    PROVE  int_op(op, v, x, y) \in Int16
<1>1. CASE op = "load_int"  BY <1>1 DEF int_op
<1>2. CASE op = "copy_int"  BY <1>2 DEF int_op
<1>3. CASE op = "int_add"  BY <1>3, ArithmeticType DEF int_op
<1>4. CASE op = "int_sub"  BY <1>4, ArithmeticType DEF int_op
<1>5. CASE op = "int_mul"  BY <1>5, ArithmeticType DEF int_op
<1>6. QED  BY <1>1, <1>2, <1>3, <1>4, <1>5 DEF IntTags

(* A leaf keeps the types of the pool, whatever its indices.               *)
LEMMA SimpleType ==
    ASSUME NEW p \in Pools, NEW i \in Leaves
    PROVE  exec_simple_low(p, i) \in Pools
<1> DEFINE bool_runs == i.op \in BoolTags /\ Sources(i) \cup {i.d} \subseteq BoolSlots
           int_runs == i.op \in IntTags /\ Sources(i) \cup {i.d} \subseteq IntSlots
           cmp_runs == i.op \in CmpTags /\ i.d \in BoolSlots /\ Sources(i) \subseteq IntSlots
<1>1. CASE bool_runs
  <2>2. bool_op(i.op, p.bools[i.a], p.bools[i.b]) \in BOOLEAN
    BY BoolResult
  <2>3. i.d \in BoolSlots
    BY <1>1
  <2>4. exec_simple_low(p, i) = [p EXCEPT !.bools[i.d] = bool_op(i.op, p.bools[i.a], p.bools[i.b])]
    BY <1>1 DEF exec_simple_low
  <2>5. QED  BY <2>2, <2>3, <2>4, WriteBool
<1>2. CASE int_runs
  <2>1. p.ints \in [IntSlots -> Int16]
    BY DEF Pools
  <2>2. i.op # "load_int" => p.ints[i.a] \in Int16
    BY <1>2, <2>1 DEF Sources, LoadTags, UnaryTags, IntTags
  <2>3. i.op \notin {"load_int", "copy_int"} => p.ints[i.b] \in Int16
    BY <1>2, <2>1 DEF Sources, LoadTags, UnaryTags, IntTags
  <2>4. int_op(i.op, i.v, p.ints[i.a], p.ints[i.b]) \in Int16
    BY <1>2, <2>2, <2>3, IntResult DEF Leaves
  <2>5. i.d \in IntSlots /\ ~bool_runs
    BY <1>2 DEF IntTags, BoolTags
  <2>6. exec_simple_low(p, i) = [p EXCEPT !.ints[i.d] = int_op(i.op, i.v, p.ints[i.a], p.ints[i.b])]
    BY <1>2, <2>5 DEF exec_simple_low
  <2>7. QED  BY <2>4, <2>5, <2>6, WriteInt
<1>3. CASE cmp_runs
  <2>3. cmp_op(i.op, p.ints[i.a], p.ints[i.b]) \in BOOLEAN
    BY CmpResult
  <2>4. i.d \in BoolSlots /\ ~bool_runs /\ ~int_runs
    BY <1>3 DEF CmpTags, IntTags, BoolTags
  <2>5. exec_simple_low(p, i) = [p EXCEPT !.bools[i.d] = cmp_op(i.op, p.ints[i.a], p.ints[i.b])]
    BY <1>3, <2>4 DEF exec_simple_low
  <2>6. QED  BY <2>3, <2>4, <2>5, WriteBool
<1>4. CASE ~bool_runs /\ ~int_runs /\ ~cmp_runs
  BY <1>4 DEF exec_simple_low
<1>5. QED  BY <1>1, <1>2, <1>3, <1>4

LEMMA EdgeType ==
    ASSUME NEW p \in Pools, NEW i \in Leaves
    PROVE  exec_fb_call_low(p, i) \in Pools
<1> DEFINE runs == i.op = "rtrig_call" /\ i.d \in TrigSlots /\ {i.a, i.b} \subseteq BoolSlots
<1>1. CASE runs
  <2>1. p.bools \in [BoolSlots -> BOOLEAN]
    BY DEF Pools
  <2>2. i.a \in BoolSlots /\ i.b \in BoolSlots /\ i.d \in TrigSlots
    BY <1>1
  <2>3. p.bools[i.a] \in BOOLEAN
    BY <2>1, <2>2
  <2> DEFINE clk == p.bools[i.a]
             q == p.bools[i.a] /\ ~p.rtrigs[i.d]
  <2>4. clk \in BOOLEAN /\ q \in BOOLEAN
    BY <2>3
  <2>5. exec_fb_call_low(p, i) = [p EXCEPT !.rtrigs[i.d] = clk, !.bools[i.b] = q]
    BY <1>1 DEF exec_fb_call_low
  <2> HIDE DEF clk, q
  <2>6. [p EXCEPT !.rtrigs[i.d] = clk, !.bools[i.b] = q] \in Pools
    BY <2>2, <2>4, WriteEdge
  <2>7. QED  BY <2>5, <2>6
<1>2. CASE ~runs
  BY <1>2 DEF exec_fb_call_low
<1>3. QED  BY <1>1, <1>2

-----------------------------------------------------------------------------
(* The cells of a program.                                                 *)
CellOf(c, off, op) == off \in 1 .. Len(c) /\ c[off].op = op

LEMMA CellTypes ==
    ASSUME NEW c \in Seq(Cells), NEW k \in 1 .. Len(c)
    PROVE  /\ c[k].len \in Nat
           /\ c[k].op = "if_block" => c[k].then \in Nat /\ c[k].els \in Nat /\ c[k].cond \in Nat
           /\ c[k].op = "for_block" => /\ c[k].body \in Nat /\ c[k].idx \in Nat
                                       /\ c[k].start \in Int16 /\ c[k].end \in Int16
                                       /\ Iters(c[k]) \in Nat
           /\ c[k].op \notin {"if_block", "for_block"} => c[k] \in Leaves
<1>1. c[k] \in Cells
  OBVIOUS
<1>2. c[k].len \in Nat
  BY <1>1 DEF Cells, Leaves, IfBlocks, ForBlocks
<1>3. CASE c[k] \in Leaves
  BY <1>2, <1>3 DEF Leaves, LeafTags, BoolTags, IntTags, CmpTags
<1>4. CASE c[k] \in IfBlocks
  BY <1>2, <1>4 DEF IfBlocks
<1>5. CASE c[k] \in ForBlocks
  <2>1. c[k].start \in Int /\ c[k].end \in Int
    BY <1>5, WordFacts DEF ForBlocks
  <2>2. Iters(c[k]) \in Nat
    BY <2>1 DEF Iters
  <2>3. QED  BY <1>2, <1>5, <2>2 DEF ForBlocks
<1>6. QED  BY <1>1, <1>3, <1>4, <1>5 DEF Cells

-----------------------------------------------------------------------------
(* The invariant, frame by frame: every frame is typed and lies in code,   *)
(* which each call needs of its caller to give it to its own.              *)
Good(c, f) ==
    /\ f \in Frames
    /\ f.off + f.rem <= Len(c)
    /\ f.kind = "iter" /\ f.inside => f.left > 0 /\ f.gas > 0

StackGood(c, s) == s \in Seq(Frames) /\ \A k \in 1 .. Len(s) : Good(c, s[k])

IInv == /\ code \in Seq(Cells) /\ pool \in Pools /\ spent \in Nat
        /\ StackGood(code, stack)

LEMMA StmtsGood ==
    ASSUME NEW c, NEW off \in Nat, NEW rem \in Nat, NEW gas \in 0 .. Gas, off + rem <= Len(c)
    PROVE  Good(c, Stmts(off, rem, gas))
<1>1. Stmts(off, rem, gas) \in Frames
  BY DEF Frames, Stmts
<1>2. Stmts(off, rem, gas).kind # "iter"
  BY DEF Stmts
<1>3. QED  BY <1>1, <1>2 DEF Good, Stmts

LEMMA IterGood ==
    ASSUME NEW c, NEW off \in Nat, NEW rem \in Nat, NEW gas \in 0 .. Gas, off + rem <= Len(c),
           NEW idx \in IntSlots, NEW left \in Nat, NEW inside \in BOOLEAN,
           inside => left > 0 /\ gas > 0
    PROVE  Good(c, Iter(off, rem, gas, idx, left, inside))
<1>1. Iter(off, rem, gas, idx, left, inside) \in Frames
  BY DEF Frames, Iter
<1>2. QED  BY <1>1 DEF Good, Iter

LEMMA TopIsGood ==
    ASSUME IInv, stack # <<>>
    PROVE  Good(code, top) /\ Len(stack) \in Nat \ {0} /\ Len(stack) \in 1 .. Len(stack)
<1>1. Len(stack) \in Nat \ {0}
  BY DEF IInv, StackGood
<1>2. Len(stack) \in 1 .. Len(stack)
  BY <1>1
<1>3. QED  BY <1>1, <1>2 DEF IInv, StackGood, top

LEMMA StmtsOnTop ==
    ASSUME IInv, Running("stmts")
    PROVE  /\ stack # <<>> /\ Good(code, top) /\ top.kind = "stmts"
           /\ top.off \in Nat /\ top.rem \in Nat /\ top.gas \in 0 .. Gas
           /\ Len(code) \in Nat /\ code \in Seq(Cells) /\ pool \in Pools
<1>1. stack # <<>> /\ Good(code, top) /\ top.kind = "stmts"
  BY TopIsGood DEF Running
<1>2. QED  BY <1>1 DEF Good, Frames, IInv

LEMMA PrefixProperties ==
    ASSUME NEW S, NEW s \in Seq(S), NEW n \in Nat, n <= Len(s)
    PROVE  /\ SubSeq(s, 1, n) \in Seq(S) /\ Len(SubSeq(s, 1, n)) = n
           /\ \A k \in 1 .. n : SubSeq(s, 1, n)[k] = s[k]
<1>1. SubSeq(s, 1, n) \in Seq(S)
  OBVIOUS
<1>2. Len(SubSeq(s, 1, n)) = n
  OBVIOUS
<1>3. \A k \in 1 .. n : SubSeq(s, 1, n)[k] = s[k]
  OBVIOUS
<1>4. QED  BY <1>1, <1>2, <1>3

LEMMA PopGood ==
    ASSUME IInv, stack # <<>>, Pop PROVE StackGood(code, stack')
<1>1. Len(stack) \in Nat \ {0} /\ stack \in Seq(Frames)
      /\ \A k \in 1 .. Len(stack) : Good(code, stack[k])
  BY TopIsGood DEF IInv, StackGood
<1>2. Len(stack) - 1 \in Nat /\ Len(stack) - 1 <= Len(stack)
  BY <1>1
<1>3. /\ stack' \in Seq(Frames) /\ Len(stack') = Len(stack) - 1
      /\ \A k \in 1 .. Len(stack) - 1 : stack'[k] = stack[k]
  BY <1>1, <1>2, PrefixProperties DEF Pop
<1>4. QED  BY <1>1, <1>3 DEF StackGood

LEMMA BecomeGood ==
    ASSUME IInv, stack # <<>>, NEW f, Good(code, f), Become(f) PROVE StackGood(code, stack')
<1>1. Len(stack) \in Nat \ {0} /\ stack \in Seq(Frames) /\ f \in Frames
  BY TopIsGood DEF IInv, StackGood, Good
<1>2. stack' \in Seq(Frames) /\ Len(stack') = Len(stack)
      /\ \A k \in 1 .. Len(stack) : stack'[k] = IF k = Len(stack) THEN f ELSE stack[k]
  BY <1>1 DEF Become
<1>3. QED  BY <1>1, <1>2 DEF IInv, StackGood

LEMMA CallGood ==
    ASSUME IInv, stack # <<>>, NEW f, NEW g, Good(code, f), Good(code, g), Call(f, g)
    PROVE  StackGood(code, stack')
<1> DEFINE s == [stack EXCEPT ![Len(stack)] = g]
<1>1. Len(stack) \in Nat \ {0} /\ stack \in Seq(Frames) /\ f \in Frames /\ g \in Frames
  BY TopIsGood DEF IInv, StackGood, Good
<1>2. s \in Seq(Frames) /\ Len(s) = Len(stack)
      /\ \A k \in 1 .. Len(stack) : s[k] = IF k = Len(stack) THEN g ELSE stack[k]
  BY <1>1
<1>3. StackGood(code, s)
  BY <1>1, <1>2 DEF IInv, StackGood
<1> HIDE DEF s
<1>4. Append(s, f) \in Seq(Frames) /\ Len(Append(s, f)) = Len(s) + 1
      /\ \A k \in 1 .. Len(s) + 1 : Append(s, f)[k] = IF k = Len(s) + 1 THEN f ELSE s[k]
  BY <1>1, <1>2
<1>5. stack' = Append(s, f)
  BY DEF Call, s
<1>6. QED  BY <1>2, <1>3, <1>4, <1>5 DEF StackGood

-----------------------------------------------------------------------------
(* A statement that fits is a cell of code, and the rest lies in code.     *)
LEMMA RestArithmetic ==
    ASSUME NEW off \in Nat, NEW rem \in Nat, NEW len \in Nat, NEW n \in Nat,
           1 + len <= rem, off + rem <= n
    PROVE  off + 1 + len \in Nat /\ rem - (1 + len) \in Nat
           /\ (off + 1 + len) + (rem - (1 + len)) <= n
OBVIOUS

LEMMA StatementFits ==
    ASSUME IInv, Running("stmts"), Fits(top)
    PROVE  /\ Cell(top.off) \in Cells
           /\ top.off \in Nat /\ top.rem \in Nat /\ top.gas \in 0 .. Gas /\ top.gas > 0
           /\ Len(code) \in Nat /\ top.off + 1 <= Len(code)
           /\ Good(code, Rest(top))
<1>1. Good(code, top) /\ top.kind = "stmts" /\ code \in Seq(Cells) /\ Len(code) \in Nat
  BY TopIsGood DEF Running, IInv
<1>2. top.off \in Nat /\ top.rem \in Nat /\ top.gas \in 0 .. Gas
  BY <1>1 DEF Good, Frames
<1>3. top.off + 1 <= Len(code) /\ top.gas > 0
  BY <1>2, InterpAssumption DEF Fits
<1>4. Cell(top.off) \in Cells
  <2>1. top.off + 1 \in 1 .. Len(code)
    BY <1>1, <1>2, <1>3
  <2>2. QED  BY <1>1, <2>1 DEF Cell
<1>5. Cell(top.off).len \in Nat
  BY <1>4 DEF Cells, Leaves, IfBlocks, ForBlocks
<1>6. Good(code, Rest(top))
  <2>1. /\ 1 + Cell(top.off).len <= top.rem
        /\ top.off + top.rem <= Len(code)
    BY <1>1 DEF Fits, Good
  <2>2. top.gas - 1 \in 0 .. Gas
    BY <1>2, <1>3, InterpAssumption
  <2>3. /\ top.off + 1 + Cell(top.off).len \in Nat /\ top.rem - (1 + Cell(top.off).len) \in Nat
        /\ (top.off + 1 + Cell(top.off).len) + (top.rem - (1 + Cell(top.off).len)) <= Len(code)
    BY <1>1, <1>2, <1>5, <2>1, RestArithmetic
  <2>4. QED  BY <2>2, <2>3, StmtsGood DEF Rest
<1>7. QED  BY <1>1, <1>2, <1>3, <1>4, <1>6

-----------------------------------------------------------------------------
(* One lemma for each action.                                              *)
LEMMA StmtsReturnKeeps == ASSUME IInv, exec_stmts_return PROVE IInv'
<1>1. stack # <<>> /\ Pop
  BY DEF exec_stmts_return, Running
<1>2. StackGood(code, stack')
  BY <1>1, PopGood
<1>3. QED  BY <1>2 DEF exec_stmts_return, IInv

LEMMA ForReturnKeeps == ASSUME IInv, exec_for_return PROVE IInv'
<1>1. stack # <<>> /\ Pop
  BY DEF exec_for_return, Running
<1>2. StackGood(code, stack')
  BY <1>1, PopGood
<1>3. QED  BY <1>2 DEF exec_for_return, IInv

LEMMA LeafKeeps == ASSUME IInv, exec_leaf PROVE IInv'
<1> DEFINE i == Cell(top.off)
           p == exec_simple_low(pool, i)
<1>1. Running("stmts") /\ Fits(top) /\ i.op \in LeafTags /\ stack # <<>>
  BY DEF exec_leaf, Running
<1>2. i \in Cells /\ Good(code, Rest(top))
  BY <1>1, StatementFits
<1>3. i \in Leaves
  BY <1>1, <1>2 DEF Cells, IfBlocks, ForBlocks, LeafTags, BoolTags, IntTags, CmpTags
<1>4. pool \in Pools /\ spent \in Nat /\ code \in Seq(Cells)
  BY DEF IInv
<1>5. p \in Pools
  BY <1>3, <1>4, SimpleType
<1>6. pool' = exec_fb_call_low(p, i) /\ UNCHANGED code /\ Become(Rest(top))
      /\ spent' = spent + Cost[i.op] + CostDispatch
  BY DEF exec_leaf
<1> HIDE DEF p, i
<1>7. pool' \in Pools
  BY <1>3, <1>5, <1>6, EdgeType
<1>8. StackGood(code, stack')
  BY <1>1, <1>2, <1>6, BecomeGood
<1>9. spent' \in Nat
  <2>1. Cost[i.op] \in Nat /\ CostDispatch \in Nat
    BY <1>1, InterpAssumption
  <2>2. QED  BY <1>4, <1>6, <2>1
<1>10. QED  BY <1>4, <1>6, <1>7, <1>8, <1>9 DEF IInv

(* The bodies of a block end inside code: what the checks of the block on  *)
(* its lengths are for.                                                    *)
LEMMA BodyArithmetic ==
    ASSUME NEW off \in Nat, NEW len \in Nat, NEW n \in Nat, len <= n - off
    PROVE  off + len \in Nat /\ off + len <= n
OBVIOUS

LEMMA IfKeeps == ASSUME IInv, exec_if_block PROVE IInv'
<1> DEFINE i == Cell(top.off)
<1>1. Running("stmts") /\ Fits(top) /\ i.op = "if_block" /\ stack # <<>>
  BY DEF exec_if_block, Running
<1>2. i \in Cells /\ Good(code, Rest(top)) /\ top.off \in Nat /\ Len(code) \in Nat
      /\ top.gas \in 0 .. Gas
  BY <1>1, StatementFits
<1>3. i.then \in Nat /\ i.els \in Nat
  BY <1>1, <1>2 DEF Cells, Leaves, ForBlocks, IfBlocks, LeafTags, BoolTags, IntTags, CmpTags
<1>4. pool \in Pools /\ spent \in Nat /\ code \in Seq(Cells)
  BY DEF IInv
<1>5. ASSUME IfRuns(i, top)
      PROVE  /\ Good(code, Stmts(top.off + 1, i.then, top.gas - 2))
             /\ Good(code, Stmts(top.off + 1 + i.then, i.els, top.gas - 2))
  <2>1. /\ top.gas > 1 /\ i.then <= Len(code) - (top.off + 1)
        /\ i.els <= Len(code) - (top.off + 1 + i.then)
    BY <1>5 DEF IfRuns
  <2>2. top.off + 1 \in Nat /\ top.gas - 2 \in 0 .. Gas
    BY <1>2, <2>1, InterpAssumption
  <2>3. top.off + 1 + i.then \in Nat /\ top.off + 1 + i.then <= Len(code)
    BY <1>2, <1>3, <2>1, <2>2, BodyArithmetic
  <2>4. top.off + 1 + i.then + i.els <= Len(code)
    BY <1>2, <1>3, <2>1, <2>3, BodyArithmetic
  <2>5. QED  BY <1>3, <2>2, <2>3, <2>4, StmtsGood
<1>6. StackGood(code, stack')
  <2>1. CASE IfRuns(i, top) /\ Call(Stmts(top.off + 1, i.then, top.gas - 2), Rest(top))
    BY <1>1, <1>2, <1>5, <2>1, CallGood
  <2>2. CASE IfRuns(i, top) /\ Call(Stmts(top.off + 1 + i.then, i.els, top.gas - 2), Rest(top))
    BY <1>1, <1>2, <1>5, <2>2, CallGood
  <2>3. CASE Become(Rest(top))
    BY <1>1, <1>2, <2>3, BecomeGood
  <2>4. QED  BY <2>1, <2>2, <2>3 DEF exec_if_block
<1>7. spent' \in Nat
  <2>1. spent' = spent + CostIf \/ spent' = spent + 0
    BY DEF exec_if_block
  <2>2. QED  BY <1>4, <2>1, InterpAssumption
<1>8. QED  BY <1>4, <1>6, <1>7 DEF exec_if_block, IInv

LEMMA ForKeeps == ASSUME IInv, exec_for_block PROVE IInv'
<1> DEFINE i == Cell(top.off)
           f == Iter(top.off + 1, i.body, top.gas - 2, i.idx, Iters(i), FALSE)
<1>1. Running("stmts") /\ Fits(top) /\ i.op = "for_block" /\ stack # <<>>
  BY DEF exec_for_block, Running
<1>2. i \in Cells /\ Good(code, Rest(top)) /\ top.off \in Nat /\ Len(code) \in Nat
      /\ top.gas \in 0 .. Gas
  BY <1>1, StatementFits
<1>3. i.body \in Nat /\ i.start \in Int16 /\ i.end \in Int16
  BY <1>1, <1>2 DEF Cells, Leaves, ForBlocks, IfBlocks, LeafTags, BoolTags, IntTags, CmpTags
<1>4. pool \in Pools /\ spent \in Nat /\ code \in Seq(Cells)
  BY DEF IInv
<1>5. CASE ForRuns(i, top) /\ Call(f, Rest(top)) /\ spent' = spent + CostFor
           /\ pool' = [pool EXCEPT !.ints[i.idx] = i.start]
  <2>1. top.gas > 1 /\ i.body <= Len(code) - (top.off + 1) /\ i.idx \in IntSlots
    BY <1>5 DEF ForRuns
  <2>2. top.off + 1 \in Nat /\ top.gas - 2 \in 0 .. Gas
    BY <1>2, <2>1, InterpAssumption
  <2>3. top.off + 1 + i.body <= Len(code)
    BY <1>2, <1>3, <2>1, <2>2, BodyArithmetic
  <2>4. Iters(i) \in Nat
    <3>1. i.start \in Int /\ i.end \in Int
      BY <1>3, WordFacts
    <3>2. QED  BY <3>1 DEF Iters
  <2>5. Good(code, f)
    BY <1>3, <2>1, <2>2, <2>3, <2>4, IterGood
  <2>6. StackGood(code, stack')
    BY <1>1, <1>2, <1>5, <2>5, CallGood
  <2>7. pool' \in Pools
    BY <1>3, <1>4, <1>5, <2>1, WriteInt
  <2>8. spent' \in Nat
    BY <1>4, <1>5, InterpAssumption
  <2>9. QED  BY <1>4, <2>6, <2>7, <2>8 DEF exec_for_block, IInv
<1>6. CASE Become(Rest(top)) /\ UNCHANGED <<pool, spent>>
  <2>1. StackGood(code, stack')
    BY <1>1, <1>2, <1>6, BecomeGood
  <2>2. QED  BY <1>4, <1>6, <2>1 DEF exec_for_block, IInv
<1>7. QED  BY <1>5, <1>6 DEF exec_for_block

LEMMA IterOnTop ==
    ASSUME IInv, Running("iter")
    PROVE  /\ stack # <<>> /\ Good(code, top) /\ Len(code) \in Nat
           /\ top.off \in Nat /\ top.rem \in Nat /\ top.gas \in 0 .. Gas
           /\ top.idx \in IntSlots /\ top.left \in Nat /\ top.inside \in BOOLEAN
           /\ top.off + top.rem <= Len(code)
           /\ top.inside => top.left > 0 /\ top.gas > 0
<1>1. stack # <<>> /\ Good(code, top) /\ top.kind = "iter"
  BY TopIsGood DEF Running
<1>2. top \in Frames /\ Len(code) \in Nat
  BY <1>1 DEF Good, IInv
<1>3. QED  BY <1>1, <1>2 DEF Good, Frames

LEMMA ForBodyKeeps == ASSUME IInv, exec_for_body PROVE IInv'
<1> DEFINE f == Stmts(top.off, top.rem, top.gas - 1)
           g == [top EXCEPT !.inside = TRUE]
<1>1. Running("iter") /\ top.gas # 0 /\ top.left # 0 /\ Call(f, g) /\ spent' = spent + CostFor
      /\ UNCHANGED <<code, pool>>
  BY DEF exec_for_body
<1>2. /\ stack # <<>> /\ Good(code, top) /\ top.off \in Nat /\ top.rem \in Nat
      /\ top.gas \in 0 .. Gas /\ top.left \in Nat /\ top.off + top.rem <= Len(code)
  BY <1>1, IterOnTop
<1>3. Good(code, f)
  <2>1. top.gas - 1 \in 0 .. Gas
    BY <1>1, <1>2, GasLeft
  <2>2. QED  BY <1>2, <2>1, StmtsGood
<1>4. Good(code, g)
  <2>1. top \in Frames /\ top.kind = "iter" /\ top.left > 0 /\ top.gas > 0
    <3>1. top \in Frames /\ top.kind = "iter"
      BY <1>1, <1>2 DEF Good, Running
    <3>2. top.left > 0 /\ top.gas > 0
      <4> HIDE DEF f, g
      <4> QED  BY <1>1, <1>2, GasLeft
    <3>3. QED  BY <3>1, <3>2
  <2>2. g \in Frames /\ g.off = top.off /\ g.rem = top.rem /\ g.left = top.left /\ g.gas = top.gas
    BY <2>1 DEF Frames
  <2>3. QED  BY <1>2, <2>1, <2>2 DEF Good
<1> HIDE DEF f, g
<1>5. StackGood(code, stack')
  BY <1>1, <1>2, <1>3, <1>4, CallGood
<1>6. spent' \in Nat
  BY <1>1, InterpAssumption DEF IInv
<1>7. QED  BY <1>1, <1>5, <1>6 DEF IInv

LEMMA ForNextKeeps == ASSUME IInv, exec_for_next PROVE IInv'
<1> DEFINE f == Iter(top.off, top.rem, top.gas - 1, top.idx, top.left - 1, FALSE)
           v == NextIndex(pool.ints[top.idx])
<1>1. Running("iter") /\ top.inside /\ Become(f) /\ UNCHANGED <<code, spent>>
  BY DEF exec_for_next
<1>2. pool' = [pool EXCEPT !.ints[top.idx] = v]
  BY DEF exec_for_next
<1>3. /\ stack # <<>> /\ top.off \in Nat /\ top.rem \in Nat /\ top.idx \in IntSlots
      /\ top.gas \in 0 .. Gas /\ top.gas > 0 /\ top.left \in Nat /\ top.left > 0
      /\ top.off + top.rem <= Len(code)
  BY <1>1, IterOnTop
<1>4. top.gas - 1 \in 0 .. Gas /\ top.left - 1 \in Nat
  BY <1>3, InterpAssumption
<1>5. Good(code, f)
  BY <1>3, <1>4, IterGood
<1>6. v \in Int16
  <2>1. pool.ints[top.idx] \in Int16
    BY <1>3 DEF IInv, Pools
  <2>2. 1 \in Int16
    BY WordAssumption DEF Int16, IntMin
  <2>3. QED  BY <2>1, <2>2, ArithmeticType DEF NextIndex
<1> HIDE DEF f, v
<1>7. StackGood(code, stack')
  BY <1>1, <1>3, <1>5, BecomeGood
<1>8. pool' \in Pools
  BY <1>2, <1>3, <1>6, WriteInt DEF IInv
<1>9. QED  BY <1>1, <1>7, <1>8 DEF IInv

-----------------------------------------------------------------------------
LEMMA StepKeeps == ASSUME IInv, Step PROVE IInv'
BY StmtsReturnKeeps, LeafKeeps, IfKeeps, ForKeeps, ForReturnKeeps, ForBodyKeeps, ForNextKeeps
   DEF Step

LEMMA StartGood ==
    ASSUME NEW c, NEW off \in Nat, NEW rem \in Nat, off + rem <= Len(c)
    PROVE  StackGood(c, <<Stmts(off, rem, Gas)>>)
<1> DEFINE f == Stmts(off, rem, Gas)
<1>1. Gas \in 0 .. Gas
  BY InterpAssumption
<1>2. Good(c, f) /\ f \in Frames
  BY <1>1, StmtsGood DEF Good
<1> HIDE DEF f
<1>3. StackGood(c, <<f>>)
  BY <1>2 DEF StackGood
<1>4. QED  BY <1>3 DEF f

-----------------------------------------------------------------------------
(* In a program the validator accepts a body never runs past its block.    *)

(* A body and the frame below it, that of its caller.                    *)
Holds(caller, body) ==
    IF caller.kind = "stmts" THEN body.off + body.rem <= caller.off
    ELSE caller.off <= body.off /\ body.off + body.rem <= caller.off + caller.rem

Nested(s) == \A k \in 1 .. Len(s) - 1 : Holds(s[k], s[k + 1])

NInv == IInv /\ WellFormed(code) /\ Nested(stack)

(* Whatever holds a call holds the part of it still to be executed.        *)
LEMMA Narrower ==
    ASSUME NEW c \in Frames, NEW f \in Frames, NEW g \in Frames, Holds(c, f),
           f.off <= g.off, g.off + g.rem <= f.off + f.rem
    PROVE  Holds(c, g)
<1>1. /\ c.off \in Nat /\ c.rem \in Nat /\ f.off \in Nat /\ f.rem \in Nat
      /\ g.off \in Nat /\ g.rem \in Nat
  BY DEF Frames
<1>2. QED  BY <1>1 DEF Holds

LEMMA PopNests == ASSUME IInv, stack # <<>>, Nested(stack), Pop PROVE Nested(stack')
<1>1. Len(stack) \in Nat \ {0} /\ stack \in Seq(Frames)
  BY TopIsGood DEF IInv, StackGood
<1>2. Len(stack) - 1 \in Nat /\ Len(stack) - 1 <= Len(stack)
  BY <1>1
<1>3. /\ Len(stack') = Len(stack) - 1
      /\ \A k \in 1 .. Len(stack) - 1 : stack'[k] = stack[k]
  BY <1>1, <1>2, PrefixProperties DEF Pop
<1>4. QED  BY <1>1, <1>3 DEF Nested

LEMMA ReplaceNests ==
    ASSUME IInv, stack # <<>>, Nested(stack), NEW g \in Frames,
           top.off <= g.off, g.off + g.rem <= top.off + top.rem
    PROVE  Nested([stack EXCEPT ![Len(stack)] = g])
<1> DEFINE s == [stack EXCEPT ![Len(stack)] = g]
<1>1. Len(stack) \in Nat \ {0} /\ stack \in Seq(Frames)
  BY TopIsGood DEF IInv, StackGood
<1>2. Len(s) = Len(stack) /\ \A k \in 1 .. Len(stack) : s[k] = IF k = Len(stack) THEN g ELSE stack[k]
  BY <1>1
<1> HIDE DEF s
<1>3. ASSUME NEW k \in 1 .. Len(s) - 1
      PROVE  Holds(s[k], s[k + 1])
  <2> k \in 1 .. Len(stack) - 1
    BY <1>2
  <2>0. k \in 1 .. Len(stack) /\ k + 1 \in 1 .. Len(stack) /\ k # Len(stack)
    BY <1>1
  <2>1. s[k] = stack[k] /\ Holds(stack[k], stack[k + 1])
    BY <1>2, <2>0 DEF Nested
  <2>2. CASE k + 1 = Len(stack)
    <3>1. s[k + 1] = g /\ stack[k + 1] = top
      BY <1>2, <2>0, <2>2 DEF top
    <3>2. stack[k] \in Frames /\ top \in Frames
      BY <1>1, <2>0, <3>1
    <3>3. QED  BY <2>1, <3>1, <3>2, Narrower
  <2>3. CASE k + 1 # Len(stack)
    BY <1>2, <2>0, <2>1, <2>3
  <2>4. QED  BY <2>2, <2>3
<1>4. Nested(s)
  BY <1>3 DEF Nested
<1>5. QED  BY <1>4 DEF s

LEMMA CallNests ==
    ASSUME IInv, stack # <<>>, Nested(stack), NEW g \in Frames, NEW f \in Frames,
           top.off <= g.off, g.off + g.rem <= top.off + top.rem,
           Holds(g, f), Call(f, g)
    PROVE  Nested(stack')
<1> DEFINE s == [stack EXCEPT ![Len(stack)] = g]
<1>1. Len(stack) \in Nat \ {0} /\ stack \in Seq(Frames)
  BY TopIsGood DEF IInv, StackGood
<1>2. s \in Seq(Frames) /\ Len(s) = Len(stack) /\ s[Len(stack)] = g
  BY <1>1
<1>3. Nested(s)
  BY ReplaceNests
<1>4. stack' = Append(s, f)
  BY DEF Call
<1> HIDE DEF s
<1>5. /\ Len(stack') = Len(s) + 1
      /\ \A k \in 1 .. Len(s) + 1 : stack'[k] = IF k = Len(s) + 1 THEN f ELSE s[k]
  BY <1>2, <1>4
<1>6. ASSUME NEW k \in 1 .. Len(stack') - 1
      PROVE  Holds(stack'[k], stack'[k + 1])
  <2>1. CASE k = Len(s)
    BY <1>1, <1>2, <1>5, <2>1
  <2>2. CASE k # Len(s)
    <3>1. k \in 1 .. Len(s) - 1 /\ stack'[k] = s[k] /\ stack'[k + 1] = s[k + 1]
      BY <1>1, <1>2, <1>5, <2>2
    <3>2. QED  BY <1>3, <3>1 DEF Nested
  <2>3. QED  BY <2>1, <2>2
<1>7. QED  BY <1>6 DEF Nested

-----------------------------------------------------------------------------
(* The rest of the statements lies in what the call had to execute, after  *)
(* the block whose body is called.                                         *)
LEMMA RestLies ==
    ASSUME NEW off \in Nat, NEW rem \in Nat, NEW len \in Nat, 1 + len <= rem
    PROVE  off <= off + 1 + len /\ (off + 1 + len) + (rem - (1 + len)) <= off + rem
OBVIOUS

LEMMA RestNarrows ==
    ASSUME IInv, Running("stmts"), Fits(top)
    PROVE  /\ Rest(top) \in Frames
           /\ top.off <= Rest(top).off
           /\ Rest(top).off + Rest(top).rem <= top.off + top.rem
           /\ Rest(top).off = top.off + 1 + Cell(top.off).len
           /\ Rest(top).kind = "stmts"
<1>1. Cell(top.off) \in Cells /\ top.off \in Nat /\ top.rem \in Nat /\ Good(code, Rest(top))
  BY StatementFits
<1>2. Cell(top.off).len \in Nat /\ 1 + Cell(top.off).len <= top.rem
  BY <1>1 DEF Cells, Leaves, IfBlocks, ForBlocks, Fits
<1>3. top.off <= top.off + 1 + Cell(top.off).len
      /\ (top.off + 1 + Cell(top.off).len) + (top.rem - (1 + Cell(top.off).len)) <= top.off + top.rem
  BY <1>1, <1>2, RestLies
<1>4. /\ Rest(top).off = top.off + 1 + Cell(top.off).len
      /\ Rest(top).rem = top.rem - (1 + Cell(top.off).len)
      /\ Rest(top).kind = "stmts"
  BY DEF Rest, Stmts
<1>5. QED  BY <1>1, <1>3, <1>4 DEF Good

LEMMA LeafNests == ASSUME NInv, exec_leaf PROVE Nested(stack')
<1>1. IInv /\ Nested(stack) /\ stack # <<>> /\ Running("stmts") /\ Fits(top) /\ Become(Rest(top))
  BY DEF NInv, exec_leaf, Running
<1>2. QED  BY <1>1, RestNarrows, ReplaceNests DEF Become

LEMMA IfNests == ASSUME NInv, exec_if_block PROVE Nested(stack')
<1> DEFINE i == Cell(top.off)
           t == Stmts(top.off + 1, i.then, top.gas - 2)
           e == Stmts(top.off + 1 + i.then, i.els, top.gas - 2)
           r == Rest(top)
<1>1. /\ IInv /\ WellFormed(code) /\ Nested(stack) /\ stack # <<>>
      /\ Running("stmts") /\ Fits(top) /\ i.op = "if_block"
  BY DEF NInv, exec_if_block, Running
<1>2. i \in Cells /\ top.off \in Nat /\ Len(code) \in Nat /\ top.off + 1 <= Len(code)
      /\ top.gas \in 0 .. Gas
  BY <1>1, StatementFits
<1>3. i.then \in Nat /\ i.els \in Nat /\ i.len \in Nat
  BY <1>1, <1>2 DEF Cells, Leaves, ForBlocks, IfBlocks, LeafTags, BoolTags, IntTags, CmpTags
<1>4. i.then + i.els <= i.len
  <2>1. top.off + 1 \in 1 .. Len(code)
    BY <1>2
  <2>2. QED  BY <1>1, <2>1 DEF WellFormed, Cell
<1>5. /\ r \in Frames /\ top.off <= r.off /\ r.off + r.rem <= top.off + top.rem
      /\ r.off = top.off + 1 + i.len /\ r.kind = "stmts"
  BY <1>1, RestNarrows
<1>6. ASSUME IfRuns(i, top)
      PROVE  t \in Frames /\ e \in Frames
  <2>1. top.gas - 2 \in 0 .. Gas /\ top.off + 1 \in Nat /\ top.off + 1 + i.then \in Nat
    <3>1. top.gas > 1
      BY <1>6 DEF IfRuns
    <3> HIDE DEF i, r, t, e
    <3>2. top.gas - 2 \in 0 .. Gas
      BY <1>2, <3>1, GasLeft
    <3>3. top.off + 1 \in Nat /\ top.off + 1 + i.then \in Nat
      BY <1>2, <1>3
    <3>4. QED  BY <3>2, <3>3
  <2>2. QED  BY <1>3, <2>1 DEF Stmts, Frames
<1>7. Holds(r, t) /\ Holds(r, e)
  <2>1. /\ t.off = top.off + 1 /\ t.rem = i.then
        /\ e.off = top.off + 1 + i.then /\ e.rem = i.els
    BY DEF Stmts
  <2>2. /\ top.off + 1 + i.then <= top.off + 1 + i.len
        /\ top.off + 1 + i.then + i.els <= top.off + 1 + i.len
    BY <1>2, <1>3, <1>4
  <2>3. QED  BY <1>5, <2>1, <2>2 DEF Holds
<1>8. \/ IfRuns(i, top) /\ Call(t, r)
      \/ IfRuns(i, top) /\ Call(e, r)
      \/ Become(r)
  BY DEF exec_if_block
<1> HIDE DEF t, e, r, i
<1>9. CASE IfRuns(i, top) /\ Call(t, r)
  BY <1>1, <1>5, <1>6, <1>7, <1>9, CallNests
<1>10. CASE IfRuns(i, top) /\ Call(e, r)
  BY <1>1, <1>5, <1>6, <1>7, <1>10, CallNests
<1>11. CASE Become(r)
  BY <1>1, <1>5, <1>11, ReplaceNests DEF Become
<1>12. QED  BY <1>8, <1>9, <1>10, <1>11

LEMMA ForNests == ASSUME NInv, exec_for_block PROVE Nested(stack')
<1> DEFINE i == Cell(top.off)
           f == Iter(top.off + 1, i.body, top.gas - 2, i.idx, Iters(i), FALSE)
           r == Rest(top)
<1>1. /\ IInv /\ WellFormed(code) /\ Nested(stack) /\ stack # <<>>
      /\ Running("stmts") /\ Fits(top) /\ i.op = "for_block"
  BY DEF NInv, exec_for_block, Running
<1>2. i \in Cells /\ top.off \in Nat /\ Len(code) \in Nat /\ top.off + 1 <= Len(code)
      /\ top.gas \in 0 .. Gas
  BY <1>1, StatementFits
<1>3. i.body \in Nat /\ i.len \in Nat /\ i.start \in Int /\ i.end \in Int
  BY <1>1, <1>2, WordFacts
     DEF Cells, Leaves, ForBlocks, IfBlocks, LeafTags, BoolTags, IntTags, CmpTags
<1>4. i.body <= i.len
  <2>1. top.off + 1 \in 1 .. Len(code)
    BY <1>2
  <2>2. QED  BY <1>1, <2>1 DEF WellFormed, Cell
<1>5. /\ r \in Frames /\ top.off <= r.off /\ r.off + r.rem <= top.off + top.rem
      /\ r.off = top.off + 1 + i.len /\ r.kind = "stmts"
  BY <1>1, RestNarrows
<1>6. ASSUME ForRuns(i, top)
      PROVE  f \in Frames
  <2>1. top.gas - 2 \in 0 .. Gas /\ top.off + 1 \in Nat /\ i.idx \in IntSlots
    BY <1>2, <1>6, InterpAssumption DEF ForRuns
  <2>2. Iters(i) \in Nat
    BY <1>3 DEF Iters
  <2>3. QED  BY <1>3, <2>1, <2>2 DEF Iter, Frames
<1>7. Holds(r, f)
  <2>1. f.off = top.off + 1 /\ f.rem = i.body
    BY DEF Iter
  <2>2. top.off + 1 + i.body <= top.off + 1 + i.len
    BY <1>2, <1>3, <1>4
  <2>3. QED  BY <1>5, <2>1, <2>2 DEF Holds
<1>8. (ForRuns(i, top) /\ Call(f, r)) \/ Become(r)
  BY DEF exec_for_block
<1> HIDE DEF f, r, i
<1>9. CASE ForRuns(i, top) /\ Call(f, r)
  BY <1>1, <1>5, <1>6, <1>7, <1>9, CallNests
<1>10. CASE Become(r)
  BY <1>1, <1>5, <1>10, ReplaceNests DEF Become
<1>11. QED  BY <1>8, <1>9, <1>10

LEMMA ForBodyNests == ASSUME NInv, exec_for_body PROVE Nested(stack')
<1> DEFINE f == Stmts(top.off, top.rem, top.gas - 1)
           g == [top EXCEPT !.inside = TRUE]
<1>1. /\ IInv /\ Nested(stack) /\ stack # <<>> /\ Running("iter") /\ top.gas # 0
      /\ Call(f, g)
  BY DEF NInv, exec_for_body, Running
<1>2. /\ top.off \in Nat /\ top.rem \in Nat /\ top.gas \in 0 .. Gas
      /\ top \in Frames /\ top.kind = "iter"
  BY <1>1, IterOnTop DEF Good, Running
<1>3. g \in Frames /\ g.off = top.off /\ g.rem = top.rem /\ g.kind = "iter"
  BY <1>2 DEF Frames
<1>4. f \in Frames /\ f.off = top.off /\ f.rem = top.rem
  <2>1. top.gas - 1 \in 0 .. Gas
    BY <1>1, <1>2, InterpAssumption
  <2>2. QED  BY <1>2, <2>1 DEF Stmts, Frames
<1> HIDE DEF f, g
<1>5. Holds(g, f) /\ top.off <= g.off /\ g.off + g.rem <= top.off + top.rem
  BY <1>2, <1>3, <1>4 DEF Holds
<1>6. QED  BY <1>1, <1>3, <1>4, <1>5, CallNests

LEMMA ForNextNests == ASSUME NInv, exec_for_next PROVE Nested(stack')
<1> DEFINE f == Iter(top.off, top.rem, top.gas - 1, top.idx, top.left - 1, FALSE)
<1>1. /\ IInv /\ Nested(stack) /\ stack # <<>> /\ Running("iter") /\ top.inside
      /\ Become(f)
  BY DEF NInv, exec_for_next, Running
<1>2. /\ top.off \in Nat /\ top.rem \in Nat /\ top.idx \in IntSlots
      /\ top.gas \in 0 .. Gas /\ top.gas > 0 /\ top.left \in Nat /\ top.left > 0
  BY <1>1, IterOnTop
<1>3. top.gas - 1 \in 0 .. Gas /\ top.left - 1 \in Nat
  BY <1>2, InterpAssumption
<1>4. f \in Frames /\ f.off = top.off /\ f.rem = top.rem
  BY <1>2, <1>3 DEF Iter, Frames
<1> HIDE DEF f
<1>5. top.off <= f.off /\ f.off + f.rem <= top.off + top.rem
  BY <1>2, <1>4
<1>6. QED  BY <1>1, <1>4, <1>5, ReplaceNests DEF Become

-----------------------------------------------------------------------------
LEMMA StepNests == ASSUME NInv, Step PROVE Nested(stack')
<1>1. CASE exec_stmts_return
  BY <1>1, PopNests DEF NInv, exec_stmts_return, Running
<1>2. CASE exec_for_return
  BY <1>2, PopNests DEF NInv, exec_for_return, Running
<1>3. QED  BY <1>1, <1>2, LeafNests, IfNests, ForNests, ForBodyNests, ForNextNests DEF Step

-----------------------------------------------------------------------------
(* The semantics and the machine have the same pools and arithmetic.       *)
LEMMA PureSlots ==
    /\ Pure!BoolSlots = BoolSlots /\ Pure!IntSlots = IntSlots /\ Pure!TrigSlots = TrigSlots
    /\ Pure!Pools = Pools
<1>1. Pure!BoolSlots = BoolSlots /\ Pure!IntSlots = IntSlots /\ Pure!TrigSlots = TrigSlots
  BY DEF Pure!BoolSlots, Pure!IntSlots, Pure!TrigSlots, BoolSlots, IntSlots, TrigSlots
<1>2. Pure!Int16 = Int16
  BY DEF Pure!Int16, Pure!IntMin, Int16, IntMin
<1>3. QED  BY <1>1, <1>2 DEF Pure!Pools, Pools

LEMMA PureWords ==
    ASSUME NEW a, NEW b
    PROVE  /\ Pure!add_wrap(a, b) = add_wrap(a, b) /\ Pure!sub_wrap(a, b) = sub_wrap(a, b)
           /\ Pure!mul_wrap(a, b) = mul_wrap(a, b)
<1>1. \A n : Pure!wrap_i16(n) = wrap_i16(n)
  BY DEF Pure!wrap_i16, wrap_i16, Pure!Int16, Pure!IntMin, Int16, IntMin
<1>2. QED  BY <1>1 DEF Pure!add_wrap, Pure!sub_wrap, Pure!mul_wrap, add_wrap, sub_wrap, mul_wrap

-----------------------------------------------------------------------------
(* A leaf whose operands are in the pool does what the semantics says.     *)

LEMMA BoolLeaf ==
    ASSUME NEW p \in Pools, NEW i \in Leaves, InPools(i), i.op \in BoolTags
    PROVE  exec_fb_call_low(exec_simple_low(p, i), i) = Pure!exec_atomic(i, p)
<1> DEFINE low == bool_op(i.op, p.bools[i.a], p.bools[i.b])
<1>1. Sources(i) \cup {i.d} \subseteq BoolSlots /\ i.d \in BoolSlots
  BY DEF InPools
<1>2. exec_fb_call_low(exec_simple_low(p, i), i) = [p EXCEPT !.bools[i.d] = low]
  BY <1>1 DEF exec_simple_low, exec_fb_call_low, BoolTags
<1>3. i.op \notin LoadTags => i.a \in BoolSlots
  BY <1>1 DEF Sources
<1>4. i.op \notin LoadTags \cup UnaryTags => i.b \in BoolSlots
  BY <1>1 DEF Sources
<1>5. \A v : Pure!set_bool(p, i.d, v) = [p EXCEPT !.bools[i.d] = v]
  BY <1>1, PureSlots DEF Pure!set_bool
<1>6. i.a \in BoolSlots => Pure!get_bool(p, i.a) = p.bools[i.a] /\ p.bools[i.a] \in BOOLEAN
  BY PureSlots DEF Pure!get_bool, Pools
<1>7. i.b \in BoolSlots => Pure!get_bool(p, i.b) = p.bools[i.b] /\ p.bools[i.b] \in BOOLEAN
  BY PureSlots DEF Pure!get_bool, Pools
<1>8. CASE i.op = "load_true"
  <2>1. low = TRUE /\ Pure!exec_atomic(i, p) = Pure!set_bool(p, i.d, TRUE)
    BY <1>8 DEF bool_op, Pure!exec_atomic
  <2>2. QED  BY <1>2, <1>5, <2>1
<1>9. CASE i.op = "load_false"
  <2>1. low = FALSE /\ Pure!exec_atomic(i, p) = Pure!set_bool(p, i.d, FALSE)
    BY <1>9 DEF bool_op, Pure!exec_atomic
  <2>2. QED  BY <1>2, <1>5, <2>1
<1>10. CASE i.op = "bool_not"
  <2>1. low = ~p.bools[i.a]
    BY <1>10 DEF bool_op
  <2>2. Pure!exec_atomic(i, p) = Pure!set_bool(p, i.d, ~Pure!get_bool(p, i.a))
    BY <1>10 DEF Pure!exec_atomic
  <2>3. QED  BY <1>2, <1>3, <1>5, <1>6, <1>10, <2>1, <2>2 DEF LoadTags
<1>11. CASE i.op = "copy_bool"
  <2>1. i.a \in BoolSlots
    BY <1>3, <1>11 DEF LoadTags
  <2>2. low = p.bools[i.a]
    BY <1>6, <1>11, <2>1 DEF bool_op
  <2>3. Pure!exec_atomic(i, p) = Pure!set_bool(p, i.d, Pure!get_bool(p, i.a))
    BY <1>11 DEF Pure!exec_atomic
  <2>4. QED  BY <1>2, <1>5, <1>6, <2>1, <2>2, <2>3
<1>12. CASE i.op \in {"bool_and", "bool_or", "bool_xor"}
  <2>1. i.a \in BoolSlots /\ i.b \in BoolSlots
    BY <1>3, <1>4, <1>12 DEF LoadTags, UnaryTags
  <2>2. CASE i.op = "bool_and"
    <3>1. low = (p.bools[i.a] /\ p.bools[i.b])
      BY <2>2 DEF bool_op
    <3>2. Pure!exec_atomic(i, p) = Pure!set_bool(p, i.d, Pure!get_bool(p, i.a) /\ Pure!get_bool(p, i.b))
      BY <2>2 DEF Pure!exec_atomic
    <3>3. QED  BY <1>2, <1>5, <1>6, <1>7, <2>1, <3>1, <3>2
  <2>3. CASE i.op = "bool_or"
    <3>1. low = (p.bools[i.a] \/ p.bools[i.b])
      BY <2>3 DEF bool_op
    <3>2. Pure!exec_atomic(i, p) = Pure!set_bool(p, i.d, Pure!get_bool(p, i.a) \/ Pure!get_bool(p, i.b))
      BY <2>3 DEF Pure!exec_atomic
    <3>3. QED  BY <1>2, <1>5, <1>6, <1>7, <2>1, <3>1, <3>2
  <2>4. CASE i.op = "bool_xor"
    <3>1. low = (p.bools[i.a] # p.bools[i.b])
      BY <2>4 DEF bool_op
    <3>2. Pure!exec_atomic(i, p) = Pure!set_bool(p, i.d, Pure!get_bool(p, i.a) # Pure!get_bool(p, i.b))
      BY <2>4 DEF Pure!exec_atomic
    <3>3. QED  BY <1>2, <1>5, <1>6, <1>7, <2>1, <3>1, <3>2
  <2>5. QED  BY <1>12, <2>2, <2>3, <2>4
<1>13. QED  BY <1>8, <1>9, <1>10, <1>11, <1>12 DEF BoolTags

LEMMA IntLeaf ==
    ASSUME NEW p \in Pools, NEW i \in Leaves, InPools(i), i.op \in IntTags
    PROVE  exec_fb_call_low(exec_simple_low(p, i), i) = Pure!exec_atomic(i, p)
<1> DEFINE low == int_op(i.op, i.v, p.ints[i.a], p.ints[i.b])
<1>1. Sources(i) \cup {i.d} \subseteq IntSlots /\ i.d \in IntSlots
  BY DEF InPools
<1>2. exec_fb_call_low(exec_simple_low(p, i), i) = [p EXCEPT !.ints[i.d] = low]
  BY <1>1 DEF exec_simple_low, exec_fb_call_low, BoolTags, IntTags
<1>3. i.op # "load_int" => i.a \in IntSlots /\ Pure!get_int(p, i.a) = p.ints[i.a]
  BY <1>1, PureSlots DEF Sources, LoadTags, IntTags, Pure!get_int
<1>4. i.op \in {"int_add", "int_sub", "int_mul"} => Pure!get_int(p, i.b) = p.ints[i.b]
  BY <1>1, PureSlots DEF Sources, LoadTags, UnaryTags, Pure!get_int
<1>5. \A v : Pure!set_int(p, i.d, v) = [p EXCEPT !.ints[i.d] = v]
  BY <1>1, PureSlots DEF Pure!set_int
<1>6. Pure!exec_atomic(i, p) = Pure!set_int(p, i.d, low)
  <2>1. CASE i.op = "load_int"
    BY <2>1 DEF int_op, Pure!exec_atomic
  <2>2. CASE i.op = "copy_int"
    BY <1>3, <2>2 DEF int_op, Pure!exec_atomic
  <2>3. CASE i.op = "int_add"
    BY <1>3, <1>4, <2>3, PureWords DEF int_op, Pure!exec_atomic
  <2>4. CASE i.op = "int_sub"
    BY <1>3, <1>4, <2>4, PureWords DEF int_op, Pure!exec_atomic
  <2>5. CASE i.op = "int_mul"
    BY <1>3, <1>4, <2>5, PureWords DEF int_op, Pure!exec_atomic
  <2>6. QED  BY <2>1, <2>2, <2>3, <2>4, <2>5 DEF IntTags
<1>7. QED  BY <1>2, <1>5, <1>6

LEMMA CmpLeaf ==
    ASSUME NEW p \in Pools, NEW i \in Leaves, InPools(i), i.op \in CmpTags
    PROVE  exec_fb_call_low(exec_simple_low(p, i), i) = Pure!exec_atomic(i, p)
<1> DEFINE x == p.ints[i.a]
           y == p.ints[i.b]
           low == cmp_op(i.op, x, y)
<1>1. i.d \in BoolSlots /\ i.a \in IntSlots /\ i.b \in IntSlots /\ Sources(i) \subseteq IntSlots
  BY DEF InPools, Sources, CmpTags, LoadTags, UnaryTags
<1>2. exec_fb_call_low(exec_simple_low(p, i), i) = [p EXCEPT !.bools[i.d] = low]
  BY <1>1 DEF exec_simple_low, exec_fb_call_low, BoolTags, IntTags, CmpTags
<1>3. Pure!get_int(p, i.a) = x /\ Pure!get_int(p, i.b) = y
  BY <1>1, PureSlots DEF Pure!get_int
<1>4. \A v : Pure!set_bool(p, i.d, v) = [p EXCEPT !.bools[i.d] = v]
  BY <1>1, PureSlots DEF Pure!set_bool
<1>5. x \in Int /\ y \in Int
  BY <1>1, WordFacts DEF Pools
<1>6. Pure!exec_atomic(i, p) = Pure!set_bool(p, i.d, low)
  <2> HIDE DEF x, y
  <2>1. CASE i.op = "cmp_eq"
    <3>1. low = (x = y)
      BY <1>5, <2>1 DEF cmp_op
    <3>2. QED  BY <1>3, <2>1, <3>1 DEF Pure!exec_atomic
  <2>2. CASE i.op = "cmp_ne"
    <3>1. low = (x # y)
      BY <1>5, <2>2 DEF cmp_op
    <3>2. QED  BY <1>3, <2>2, <3>1 DEF Pure!exec_atomic
  <2>3. CASE i.op = "cmp_lt"
    <3>1. low <=> x < y
      BY <1>5, <2>3 DEF cmp_op
    <3>2. low = (x < y)
      BY <3>1, CmpResult
    <3>3. QED  BY <1>3, <2>3, <3>2 DEF Pure!exec_atomic
  <2>4. CASE i.op = "cmp_gt"
    <3>1. low <=> x > y
      BY <1>5, <2>4 DEF cmp_op
    <3>2. low = (x > y)
      BY <3>1, CmpResult
    <3>3. QED  BY <1>3, <2>4, <3>2 DEF Pure!exec_atomic
  <2>5. CASE i.op = "cmp_le"
    <3>1. low <=> x <= y
      BY <1>5, <2>5 DEF cmp_op
    <3>2. low = (x <= y)
      BY <3>1, CmpResult
    <3>3. QED  BY <1>3, <2>5, <3>2 DEF Pure!exec_atomic
  <2>6. CASE i.op = "cmp_ge"
    <3>1. low <=> x >= y
      BY <1>5, <2>6 DEF cmp_op
    <3>2. low = (x >= y)
      BY <3>1, CmpResult
    <3>3. QED  BY <1>3, <2>6, <3>2 DEF Pure!exec_atomic
  <2>7. QED  BY <2>1, <2>2, <2>3, <2>4, <2>5, <2>6 DEF CmpTags
<1>7. QED  BY <1>2, <1>4, <1>6

LEMMA EdgeLeaf ==
    ASSUME NEW p \in Pools, NEW i \in Leaves, InPools(i), i.op = "rtrig_call"
    PROVE  exec_fb_call_low(exec_simple_low(p, i), i) = Pure!exec_atomic(i, p)
<1>1. i.d \in TrigSlots /\ i.a \in BoolSlots /\ i.b \in BoolSlots
  BY DEF InPools
<1> DEFINE clk == p.bools[i.a]
           q == p.bools[i.a] /\ ~p.rtrigs[i.d]
<1>2. exec_fb_call_low(exec_simple_low(p, i), i) = [p EXCEPT !.rtrigs[i.d] = clk, !.bools[i.b] = q]
  <2>1. exec_simple_low(p, i) = p
    BY DEF exec_simple_low, BoolTags, IntTags, CmpTags
  <2>2. QED  BY <1>1, <2>1 DEF exec_fb_call_low
<1>3. Pure!get_bool(p, i.a) = clk /\ Pure!get_rtrig(p, i.d) = p.rtrigs[i.d]
  BY <1>1, PureSlots DEF Pure!get_bool, Pure!get_rtrig, Pools
<1>4. Pure!exec_atomic(i, p) =
        Pure!set_bool(Pure!set_rtrig(p, i.d, Pure!get_bool(p, i.a)), i.b,
                      Pure!get_bool(p, i.a) /\ ~Pure!get_rtrig(p, i.d))
  BY DEF Pure!exec_atomic
<1>5. (Pure!get_bool(p, i.a) /\ ~Pure!get_rtrig(p, i.d)) = q
  BY <1>3
<1> HIDE DEF clk, q
<1>6. Pure!exec_atomic(i, p) = Pure!set_bool(Pure!set_rtrig(p, i.d, clk), i.b, q)
  BY <1>3, <1>4, <1>5
<1>7. Pure!set_rtrig(p, i.d, clk) = [p EXCEPT !.rtrigs[i.d] = clk]
  BY <1>1, PureSlots DEF Pure!set_rtrig
<1>8. Pure!exec_atomic(i, p) = [[p EXCEPT !.rtrigs[i.d] = clk] EXCEPT !.bools[i.b] = q]
  BY <1>1, <1>6, <1>7, PureSlots DEF Pure!set_bool
<1>9. [[p EXCEPT !.rtrigs[i.d] = clk] EXCEPT !.bools[i.b] = q]
        = [p EXCEPT !.rtrigs[i.d] = clk, !.bools[i.b] = q]
  BY DEF Pools
<1>10. QED  BY <1>2, <1>8, <1>9

LEMMA LeafMeaning ==
    ASSUME NEW p \in Pools, NEW i \in Leaves, InPools(i)
    PROVE  /\ exec_fb_call_low(exec_simple_low(p, i), i) = Pure!exec_atomic(i, p)
           /\ Pure!exec_atomic(i, p) \in Pools
<1>1. i.op \in LeafTags
  BY DEF Leaves
<1>2. CASE i.op = "unknown"
  BY <1>2 DEF exec_simple_low, exec_fb_call_low, BoolTags, IntTags, CmpTags, Pure!exec_atomic
<1>3. exec_fb_call_low(exec_simple_low(p, i), i) = Pure!exec_atomic(i, p)
  BY <1>1, <1>2, BoolLeaf, IntLeaf, CmpLeaf, EdgeLeaf DEF LeafTags
<1>4. exec_fb_call_low(exec_simple_low(p, i), i) \in Pools
  BY SimpleType, EdgeType
<1>5. QED  BY <1>3, <1>4

-----------------------------------------------------------------------------
(* The table of the semantics, gas by gas: it is defined as the function   *)
(* that satisfies its equation, so that one exists has to be shown.        *)
Level(c, gas) == Pure!exec(c, Gas)[gas]

LEMMA ExecExists ==
    ASSUME NEW c, NEW n \in Nat
    PROVE  \E t : t = [gas \in 0 .. n |-> IF gas = 0 THEN Pure!Starved ELSE Pure!OneMore(c, t[gas - 1])]
<1> DEFINE Eq(t, m) ==
        t = [gas \in 0 .. m |-> IF gas = 0 THEN Pure!Starved ELSE Pure!OneMore(c, t[gas - 1])]
           S == {m \in Nat : \E t : Eq(t, m)}
<1>1. 0 \in S
  <2> DEFINE z == [gas \in 0 .. 0 |-> Pure!Starved]
  <2>1. Eq(z, 0)
    OBVIOUS
  <2>2. QED  BY <2>1
<1>2. ASSUME NEW m \in Nat, m \in S PROVE m + 1 \in S
  <2>1. PICK t : Eq(t, m)
    BY <1>2
  <2> DEFINE u == [gas \in 0 .. m + 1 |-> IF gas = m + 1 THEN Pure!OneMore(c, t[m]) ELSE t[gas]]
  <2>2. ASSUME NEW gas \in 0 .. m + 1
        PROVE  u[gas] = IF gas = 0 THEN Pure!Starved ELSE Pure!OneMore(c, u[gas - 1])
    <3>1. CASE gas = m + 1
      BY <3>1
    <3>2. CASE gas # m + 1
      <4>1. gas \in 0 .. m /\ (gas # 0 => gas - 1 \in 0 .. m /\ gas - 1 # m + 1)
        BY <3>2
      <4>2. u[gas] = t[gas] /\ (gas # 0 => u[gas - 1] = t[gas - 1])
        BY <4>1, <3>2
      <4> HIDE DEF u
      <4>3. QED  BY <2>1, <4>1, <4>2
    <3>3. QED  BY <3>1, <3>2
  <2>3. Eq(u, m + 1)
    BY <2>2
  <2>4. \E w : Eq(w, m + 1)
    <3> HIDE DEF u, Eq
    <3> QED  BY <2>3
  <2>5. QED  BY <2>4
<1>3. n \in S
  <2> HIDE DEF S
  <2> QED  BY <1>1, <1>2, SetInduction
<1>4. QED  BY <1>3

LEMMA ExecUnfolds ==
    ASSUME NEW c
    PROVE  /\ Level(c, 0) = Pure!Starved
           /\ \A gas \in 1 .. Gas : Level(c, gas) = Pure!OneMore(c, Level(c, gas - 1))
<1> DEFINE t == Pure!exec(c, Gas)
<1>1. t = [gas \in 0 .. Gas |-> IF gas = 0 THEN Pure!Starved ELSE Pure!OneMore(c, t[gas - 1])]
  <2>1. Gas \in Nat
    BY InterpAssumption
  <2>2. QED  BY <2>1, ExecExists DEF Pure!exec
<1> HIDE DEF t
<1>2. /\ t[0] = Pure!Starved
      /\ \A gas \in 1 .. Gas : t[gas] = Pure!OneMore(c, t[gas - 1])
  BY <1>1, InterpAssumption
<1>3. QED  BY <1>2 DEF Level, t

(* What one call of each function does, gas by gas.                        *)
LEMMA LevelFacts ==
    ASSUME NEW c, NEW gas \in 1 .. Gas, NEW p \in Pools
    PROVE  LET t == Level(c, gas - 1) IN
           /\ \A off, rem \in Nat : Level(c, gas).stmts[off][rem][p] = Pure!scan_stmts(c, t, off, rem, p)
           /\ \A off \in Nat : Level(c, gas).if_block[off][p] = Pure!exec_if_block(c, t, off, p)
           /\ \A off \in Nat : Level(c, gas).for_block[off][p] = Pure!exec_for_block(c, t, off, p)
           /\ \A off, len, idx, left \in Nat :
                 Level(c, gas).for_iter[off][len][idx][left][p] = Pure!exec_for_iter(t, off, len, idx, left, p)
<1> DEFINE t == Level(c, gas - 1)
<1>1. Level(c, gas) = Pure!OneMore(c, t) /\ p \in Pure!Pools
  BY ExecUnfolds, PureSlots
<1> HIDE DEF t
<1>2. \A off, rem \in Nat : Level(c, gas).stmts[off][rem][p] = Pure!scan_stmts(c, t, off, rem, p)
  BY <1>1 DEF Pure!OneMore
<1>3. \A off \in Nat : Level(c, gas).if_block[off][p] = Pure!exec_if_block(c, t, off, p)
  BY <1>1 DEF Pure!OneMore
<1>4. \A off \in Nat : Level(c, gas).for_block[off][p] = Pure!exec_for_block(c, t, off, p)
  BY <1>1 DEF Pure!OneMore
<1>5. \A off, len, idx, left \in Nat :
        Level(c, gas).for_iter[off][len][idx][left][p] = Pure!exec_for_iter(t, off, len, idx, left, p)
  BY <1>1 DEF Pure!OneMore
<1>6. QED  BY <1>2, <1>3, <1>4, <1>5 DEF t

LEMMA StmtsLevel ==
    ASSUME NEW c, NEW gas \in 1 .. Gas, NEW p \in Pools, NEW off \in Nat, NEW rem \in Nat
    PROVE  Level(c, gas).stmts[off][rem][p] = Pure!scan_stmts(c, Level(c, gas - 1), off, rem, p)
BY LevelFacts

LEMMA IfLevel ==
    ASSUME NEW c, NEW gas \in 1 .. Gas, NEW p \in Pools, NEW off \in Nat
    PROVE  Level(c, gas).if_block[off][p] = Pure!exec_if_block(c, Level(c, gas - 1), off, p)
BY LevelFacts

LEMMA ForLevel ==
    ASSUME NEW c, NEW gas \in 1 .. Gas, NEW p \in Pools, NEW off \in Nat
    PROVE  Level(c, gas).for_block[off][p] = Pure!exec_for_block(c, Level(c, gas - 1), off, p)
BY LevelFacts

LEMMA LevelZero ==
    ASSUME NEW c, NEW p \in Pools
    PROVE  LET t == Level(c, 0) IN
           /\ \A off, rem \in Nat : t.stmts[off][rem][p] = p
           /\ \A off \in Nat : t.if_block[off][p] = p /\ t.for_block[off][p] = p
           /\ \A off, len, idx, left \in Nat : t.for_iter[off][len][idx][left][p] = p
<1>1. Level(c, 0) = Pure!Starved /\ p \in Pure!Pools
  BY ExecUnfolds, PureSlots
<1> DEFINE z == Level(c, 0)
<1>2. \A off, rem \in Nat : z.stmts[off][rem][p] = p
  BY <1>1 DEF Pure!Starved
<1>3. \A off \in Nat : z.if_block[off][p] = p /\ z.for_block[off][p] = p
  BY <1>1 DEF Pure!Starved
<1>4. \A off, len, idx, left \in Nat : z.for_iter[off][len][idx][left][p] = p
  <2> SUFFICES ASSUME NEW off \in Nat, NEW len \in Nat, NEW idx \in Nat, NEW left \in Nat
               PROVE  z.for_iter[off][len][idx][left][p] = p
    OBVIOUS
  <2>1. Pure!Starved.for_iter[off][len][idx][left][p] = p
    BY <1>1 DEF Pure!Starved
  <2>2. QED  BY <1>1, <2>1
<1>5. QED  BY <1>2, <1>3, <1>4

LEMMA BlockZero ==
    ASSUME NEW c, NEW p \in Pools, NEW off \in Nat
    PROVE  Level(c, 0).if_block[off][p] = p /\ Level(c, 0).for_block[off][p] = p
BY LevelZero

IterOf(c, gas, off, len, idx, left, p) == Level(c, gas).for_iter[off][len][idx][left][p]

LEMMA IterZero ==
    ASSUME NEW c, NEW p \in Pools, NEW off \in Nat, NEW len \in Nat, NEW idx \in Nat, NEW left \in Nat
    PROVE  IterOf(c, 0, off, len, idx, left, p) = p
BY LevelZero DEF IterOf

LEMMA IterLevel ==
    ASSUME NEW c, NEW gas \in 1 .. Gas, NEW p \in Pools,
           NEW off \in Nat, NEW len \in Nat, NEW idx \in Nat, NEW left \in Nat
    PROVE  IterOf(c, gas, off, len, idx, left, p)
             = Pure!exec_for_iter(Level(c, gas - 1), off, len, idx, left, p)
BY LevelFacts DEF IterOf

-----------------------------------------------------------------------------
(* In a program whose cells stay in the pools, every call takes pools to   *)
(* pools.                                                                  *)
Typed(c, t) ==
    /\ \A off, rem \in Nat, p \in Pools : t.stmts[off][rem][p] \in Pools
    /\ \A off \in Nat, p \in Pools : CellOf(c, off, "if_block") => t.if_block[off][p] \in Pools
    /\ \A off \in Nat, p \in Pools : CellOf(c, off, "for_block") => t.for_block[off][p] \in Pools
    /\ \A off, len, left \in Nat, idx \in IntSlots, p \in Pools :
          t.for_iter[off][len][idx][left][p] \in Pools

(* Writing a word into the control variable of a loop.                     *)
LEMMA SetIndex ==
    ASSUME NEW p \in Pools, NEW idx \in IntSlots, NEW v \in Int16
    PROVE  /\ Pure!set_int(p, idx, v) = [p EXCEPT !.ints[idx] = v]
           /\ Pure!set_int(p, idx, v) \in Pools
BY PureSlots, WriteInt DEF Pure!set_int

NextPool(p, idx) == [p EXCEPT !.ints[idx] = NextIndex(p.ints[idx])]

LEMMA Increment ==
    ASSUME NEW p \in Pools, NEW idx \in IntSlots
    PROVE  /\ Pure!set_int(p, idx, Pure!add_wrap(Pure!get_int(p, idx), 1)) = NextPool(p, idx)
           /\ NextPool(p, idx) \in Pools
<1>1. p.ints[idx] \in Int16 /\ 1 \in Int16
  BY WordAssumption DEF Pools, Int16, IntMin
<1>2. NextIndex(p.ints[idx]) \in Int16
  BY <1>1, ArithmeticType DEF NextIndex
<1>3. Pure!get_int(p, idx) = p.ints[idx]
  BY PureSlots DEF Pure!get_int
<1>4. Pure!add_wrap(Pure!get_int(p, idx), 1) = NextIndex(p.ints[idx])
  BY <1>3, PureWords DEF NextIndex
<1>5. QED  BY <1>2, <1>4, SetIndex DEF NextPool

LEMMA OneMoreTyped ==
    ASSUME NEW c \in Seq(Cells), Meaningful(c), NEW gas \in 1 .. Gas, Typed(c, Level(c, gas - 1))
    PROVE  Typed(c, Level(c, gas))
<1> DEFINE t == Level(c, gas - 1)
           u == Level(c, gas)
<1>1. Len(c) \in Nat /\ Typed(c, t)
  OBVIOUS
<1> HIDE DEF t
<1>2. ASSUME NEW off \in Nat, NEW p \in Pools, CellOf(c, off, "if_block")
      PROVE  Pure!exec_if_block(c, t, off, p) \in Pools
  <2>1. c[off].then \in Nat /\ c[off].els \in Nat
    BY <1>2, CellTypes DEF CellOf
  <2>2. \A o, r \in Nat : t.stmts[o][r][p] \in Pools
    BY <1>1 DEF Typed
  <2>3. off + c[off].then \in Nat
    BY <2>1
  <2>4. t.stmts[off][c[off].then][p] \in Pools /\ t.stmts[off + c[off].then][c[off].els][p] \in Pools
    BY <2>1, <2>2, <2>3
  <2>5. QED  BY <2>4 DEF Pure!exec_if_block
<1>3. ASSUME NEW off \in Nat, NEW p \in Pools, CellOf(c, off, "for_block")
      PROVE  Pure!exec_for_block(c, t, off, p) \in Pools
  <2>1. /\ c[off].body \in Nat /\ c[off].idx \in IntSlots /\ c[off].start \in Int16
        /\ Iters(c[off]) \in Nat
    BY <1>3, CellTypes DEF CellOf, Meaningful, InPools
  <2>2. Pure!set_int(p, c[off].idx, c[off].start) \in Pools
    BY <2>1, SetIndex
  <2>3. t.for_iter[off][c[off].body][c[off].idx][Iters(c[off])][Pure!set_int(p, c[off].idx, c[off].start)] \in Pools
    BY <1>1, <2>1, <2>2 DEF Typed
  <2>4. QED  BY <2>3 DEF Pure!exec_for_block, Iters
<1>4. ASSUME NEW off \in Nat, NEW rem \in Nat, NEW p \in Pools
      PROVE  Pure!scan_stmts(c, t, off, rem, p) \in Pools
  <2> DEFINE i == c[off + 1]
  <2>1. CASE rem >= 1 /\ off + 1 <= Len(c) /\ 1 + i.len <= rem /\ off + 1 + i.len <= Len(c)
    <3>1. off + 1 \in 1 .. Len(c) /\ off + 1 \in Nat
      BY <1>1, <2>1
    <3>2. i.len \in Nat
      BY <3>1, CellTypes
    <3>3. off + 1 + i.len \in Nat /\ rem - (1 + i.len) \in Nat
      BY <2>1, <3>2
    <3> DEFINE q == CASE i.op = "if_block"  -> t.if_block[off + 1][p]
                      [] i.op = "for_block" -> t.for_block[off + 1][p]
                      [] OTHER              -> Pure!exec_atomic(i, p)
    <3>4. q \in Pools
      <4>1. CASE i.op = "if_block"
        BY <1>1, <3>1, <4>1 DEF Typed, CellOf
      <4>2. CASE i.op = "for_block"
        BY <1>1, <3>1, <4>2 DEF Typed, CellOf
      <4>3. CASE i.op \notin {"if_block", "for_block"}
        <5>1. i \in Leaves /\ InPools(i)
          BY <3>1, <4>3, CellTypes DEF Meaningful
        <5>2. q = Pure!exec_atomic(i, p)
          BY <4>3
        <5>3. QED  BY <5>1, <5>2, LeafMeaning
      <4>4. QED  BY <4>1, <4>2, <4>3
    <3>5. Pure!scan_stmts(c, t, off, rem, p) = t.stmts[off + 1 + i.len][rem - (1 + i.len)][q]
      <4>1. ~(rem < 1 \/ off + 1 > Len(c)) /\ ~(1 + i.len > rem \/ off + 1 + i.len > Len(c))
        <5> HIDE DEF i
        <5> QED  BY <1>1, <2>1, <3>2
      <4>2. QED  BY <4>1, Zenon DEF Pure!scan_stmts
    <3> HIDE DEF q
    <3>6. \A o, r \in Nat : t.stmts[o][r][q] \in Pools
      BY <1>1, <3>4 DEF Typed
    <3>7. QED  BY <3>3, <3>5, <3>6
  <2>2. CASE ~(rem >= 1 /\ off + 1 <= Len(c) /\ 1 + i.len <= rem /\ off + 1 + i.len <= Len(c))
    <3>1. Pure!scan_stmts(c, t, off, rem, p) = p
      <4>1. CASE rem < 1 \/ off + 1 > Len(c)
        BY <4>1 DEF Pure!scan_stmts
      <4>2. CASE ~(rem < 1 \/ off + 1 > Len(c))
        <5>1. off + 1 \in 1 .. Len(c)
          BY <1>1, <4>2
        <5>2. i.len \in Nat
          BY <5>1, CellTypes
        <5>3. 1 + i.len > rem \/ off + 1 + i.len > Len(c)
          BY <1>1, <2>2, <4>2, <5>2
        <5>4. QED  BY <5>3 DEF Pure!scan_stmts
      <4>3. QED  BY ONLY <4>1, <4>2
    <3>2. QED  BY <3>1
  <2>3. QED  BY <2>1, <2>2
<1>5. ASSUME NEW off \in Nat, NEW len \in Nat, NEW left \in Nat, NEW idx \in IntSlots, NEW p \in Pools
      PROVE  Pure!exec_for_iter(t, off, len, idx, left, p) \in Pools
  <2>1. CASE left = 0
    BY <2>1 DEF Pure!exec_for_iter
  <2>2. CASE left # 0
    <3> DEFINE q == t.stmts[off][len][p]
    <3>1. left - 1 \in Nat /\ q \in Pools
      BY <1>1, <2>2 DEF Typed
    <3>2. Pure!exec_for_iter(t, off, len, idx, left, p) = t.for_iter[off][len][idx][left - 1][NextPool(q, idx)]
      BY <2>2, <3>1, Increment DEF Pure!exec_for_iter
    <3>3. NextPool(q, idx) \in Pools
      BY <3>1, Increment
    <3> HIDE DEF q
    <3>4. \A o, l, m \in Nat, x \in IntSlots, y \in Pools : t.for_iter[o][l][x][m][y] \in Pools
      BY <1>1 DEF Typed
    <3>5. QED  BY <3>1, <3>2, <3>3, <3>4
  <2>3. QED  BY <2>1, <2>2
<1>6. IntSlots \subseteq Nat
  BY InterpAssumption DEF IntSlots
<1>7. ASSUME NEW p \in Pools
      PROVE  /\ \A off, rem \in Nat : u.stmts[off][rem][p] = Pure!scan_stmts(c, t, off, rem, p)
             /\ \A off \in Nat : u.if_block[off][p] = Pure!exec_if_block(c, t, off, p)
             /\ \A off \in Nat : u.for_block[off][p] = Pure!exec_for_block(c, t, off, p)
             /\ \A off, len, idx, left \in Nat :
                   u.for_iter[off][len][idx][left][p] = Pure!exec_for_iter(t, off, len, idx, left, p)
  <2> HIDE DEF t, u
  <2>1. u = Level(c, gas) /\ t = Level(c, gas - 1)
    BY DEF t, u
  <2>2. \A off, rem \in Nat : u.stmts[off][rem][p] = Pure!scan_stmts(c, t, off, rem, p)
    BY <2>1, LevelFacts
  <2>3. \A off \in Nat : u.if_block[off][p] = Pure!exec_if_block(c, t, off, p)
    BY <2>1, LevelFacts
  <2>4. \A off \in Nat : u.for_block[off][p] = Pure!exec_for_block(c, t, off, p)
    BY <2>1, LevelFacts
  <2>5. ASSUME NEW off \in Nat, NEW len \in Nat, NEW idx \in Nat, NEW left \in Nat
        PROVE  u.for_iter[off][len][idx][left][p] = Pure!exec_for_iter(t, off, len, idx, left, p)
    <3>1. IterOf(c, gas, off, len, idx, left, p) = Pure!exec_for_iter(Level(c, gas - 1), off, len, idx, left, p)
      BY IterLevel
    <3>2. QED  BY <2>1, <3>1, Zenon DEF IterOf
  <2>6. QED  BY <2>2, <2>3, <2>4, <2>5
<1> HIDE DEF u
<1>8. \A off, rem \in Nat, p \in Pools : u.stmts[off][rem][p] \in Pools
  BY <1>4, <1>7
<1>9. \A off \in Nat, p \in Pools : CellOf(c, off, "if_block") => u.if_block[off][p] \in Pools
  BY <1>2, <1>7
<1>10. \A off \in Nat, p \in Pools : CellOf(c, off, "for_block") => u.for_block[off][p] \in Pools
  BY <1>3, <1>7
<1>11. \A off, len, left \in Nat, idx \in IntSlots, p \in Pools : u.for_iter[off][len][idx][left][p] \in Pools
  <2> SUFFICES ASSUME NEW off \in Nat, NEW len \in Nat, NEW left \in Nat, NEW idx \in IntSlots, NEW p \in Pools
               PROVE  u.for_iter[off][len][idx][left][p] \in Pools
    OBVIOUS
  <2>1. idx \in Nat
    BY <1>6
  <2>2. u.for_iter[off][len][idx][left][p] = Pure!exec_for_iter(t, off, len, idx, left, p)
    BY <1>7, <2>1
  <2>3. QED  BY <1>5, <2>2
<1>12. Typed(c, u)
  BY <1>8, <1>9, <1>10, <1>11 DEF Typed
<1>13. QED  BY <1>12 DEF u

LEMMA LevelTyped ==
    ASSUME NEW c \in Seq(Cells), Meaningful(c)
    PROVE  \A gas \in 0 .. Gas : Typed(c, Level(c, gas))
<1> DEFINE S == {gas \in 0 .. Gas : Typed(c, Level(c, gas))}
<1>1. 0 \in S
  <2>1. IntSlots \subseteq Nat /\ 0 \in 0 .. Gas
    BY InterpAssumption DEF IntSlots
  <2> DEFINE t == Level(c, 0)
  <2>2. ASSUME NEW p \in Pools
        PROVE  /\ \A off, rem \in Nat : t.stmts[off][rem][p] = p
               /\ \A off \in Nat : t.if_block[off][p] = p /\ t.for_block[off][p] = p
               /\ \A off, len, idx, left \in Nat : t.for_iter[off][len][idx][left][p] = p
    BY LevelZero, SMTT(30)
  <2> HIDE DEF t
  <2>3. \A off, len, left \in Nat, idx \in IntSlots, p \in Pools : t.for_iter[off][len][idx][left][p] \in Pools
    <3> SUFFICES ASSUME NEW off \in Nat, NEW len \in Nat, NEW left \in Nat, NEW idx \in IntSlots, NEW p \in Pools
                 PROVE  t.for_iter[off][len][idx][left][p] \in Pools
      OBVIOUS
    <3>1. idx \in Nat
      BY <2>1
    <3>2. t.for_iter[off][len][idx][left][p] = p
      BY <2>2, <3>1
    <3>3. QED  BY <3>2
  <2>4. Typed(c, t)
    BY <2>2, <2>3 DEF Typed
  <2>5. QED  BY <2>1, <2>4 DEF t
<1>2. ASSUME NEW k \in 0 .. Gas, k < Gas, k \in S PROVE k + 1 \in S
  <2>1. k + 1 \in 1 .. Gas /\ (k + 1) - 1 = k
    BY <1>2, InterpAssumption
  <2>2. QED  BY <1>2, <2>1, OneMoreTyped
<1>3. 0 .. Gas \subseteq S
  <2> HIDE DEF S
  <2> QED  BY <1>1, <1>2, BoundedInduction, InterpAssumption
<1>4. QED  BY <1>3

-----------------------------------------------------------------------------
(* What is left of a call takes the pool from p to Runs(c, f, p); a loop   *)
(* inside its body has to increment its variable first.                    *)
Runs(c, f, p) ==
    IF f.kind = "stmts" THEN Level(c, f.gas).stmts[f.off][f.rem][p]
    ELSE IF ~f.inside THEN IterOf(c, f.gas, f.off, f.rem, f.idx, f.left, p)
    ELSE IterOf(c, f.gas - 1, f.off, f.rem, f.idx, f.left - 1, NextPool(p, f.idx))

(* The pending calls, the running one first, take the pool from p to r: v  *)
(* is the pool each of them is left with.                                  *)
Meaning(c, s, p, r) ==
    \E v \in [0 .. Len(s) -> Pools] :
        /\ v[Len(s)] = p /\ v[0] = r
        /\ \A k \in 1 .. Len(s) : v[k - 1] = Runs(c, s[k], v[k])

LEMMA RunsTyped ==
    ASSUME NEW c \in Seq(Cells), Meaningful(c), NEW f, Good(c, f), NEW p \in Pools
    PROVE  Runs(c, f, p) \in Pools
<1>1. f \in Frames /\ f.off \in Nat /\ f.rem \in Nat /\ f.gas \in 0 .. Gas
  BY DEF Good, Frames
<1>2. CASE f.kind = "stmts"
  BY <1>1, <1>2, LevelTyped DEF Runs, Typed
<1>3. CASE f.kind # "stmts"
  <2>1. f.kind = "iter" /\ f.idx \in IntSlots /\ f.left \in Nat /\ f.inside \in BOOLEAN
    BY <1>1, <1>3 DEF Frames
  <2>2. \A gas \in 0 .. Gas, left \in Nat, q \in Pools :
           IterOf(c, gas, f.off, f.rem, f.idx, left, q) \in Pools
    BY <1>1, <2>1, LevelTyped DEF Typed, IterOf
  <2>3. CASE ~f.inside
    BY <1>1, <1>3, <2>1, <2>2, <2>3 DEF Runs
  <2>4. CASE f.inside
    <3>1. f.gas - 1 \in 0 .. Gas /\ f.left - 1 \in Nat
      BY <1>1, <2>1, <2>4, InterpAssumption DEF Good
    <3>2. NextPool(p, f.idx) \in Pools
      BY <2>1, Increment
    <3>3. IterOf(c, f.gas - 1, f.off, f.rem, f.idx, f.left - 1, NextPool(p, f.idx)) \in Pools
      BY <2>2, <3>1, <3>2
    <3>4. QED  BY <1>3, <2>4, <3>3 DEF Runs
  <2>5. QED  BY <2>1, <2>3, <2>4
<1>4. QED  BY <1>2, <1>3

(* The three changes of the stack: a call returns, goes on as another one, *)
(* or makes a call.                                                        *)
LEMMA PopMeans ==
    ASSUME IInv, NEW r, Meaning(code, stack, pool, r), stack # <<>>, Pop,
           Runs(code, top, pool) = pool'
    PROVE  Meaning(code, stack', pool', r)
<1>1. PICK v \in [0 .. Len(stack) -> Pools] :
        /\ v[Len(stack)] = pool /\ v[0] = r
        /\ \A k \in 1 .. Len(stack) : v[k - 1] = Runs(code, stack[k], v[k])
  BY DEF Meaning
<1>2. Len(stack) \in Nat \ {0} /\ stack \in Seq(Frames)
  BY TopIsGood DEF IInv, StackGood
<1>3. Len(stack) - 1 \in Nat /\ Len(stack) - 1 <= Len(stack)
  BY <1>2
<1>4. /\ Len(stack') = Len(stack) - 1
      /\ \A k \in 1 .. Len(stack) - 1 : stack'[k] = stack[k]
  BY <1>2, <1>3, PrefixProperties DEF Pop
<1> DEFINE w == [k \in 0 .. Len(stack) - 1 |-> v[k]]
<1>5. w \in [0 .. Len(stack') -> Pools] /\ \A k \in 0 .. Len(stack) - 1 : w[k] = v[k]
  BY <1>2, <1>4
<1> HIDE DEF w
<1>6. w[0] = r
  BY <1>1, <1>2, <1>5
<1>7. w[Len(stack')] = pool'
  <2>1. v[Len(stack) - 1] = Runs(code, stack[Len(stack)], v[Len(stack)])
    BY <1>1, <1>2
  <2>2. v[Len(stack) - 1] = pool'
    BY <1>1, <2>1 DEF top
  <2>3. Len(stack) - 1 \in 0 .. Len(stack) - 1
    BY <1>2
  <2>4. QED  BY <1>4, <1>5, <2>2, <2>3
<1>8. ASSUME NEW k \in 1 .. Len(stack') PROVE w[k - 1] = Runs(code, stack'[k], w[k])
  <2>1. k \in 1 .. Len(stack) /\ k \in 1 .. Len(stack) - 1 /\ k \in 0 .. Len(stack) - 1
        /\ k - 1 \in 0 .. Len(stack) - 1
    BY <1>2, <1>4
  <2>2. v[k - 1] = Runs(code, stack[k], v[k])
    BY <1>1, <2>1
  <2>3. QED  BY <1>4, <1>5, <2>1, <2>2
<1>9. QED  BY <1>5, <1>6, <1>7, <1>8 DEF Meaning

LEMMA BecomeMeans ==
    ASSUME IInv, NEW r, Meaning(code, stack, pool, r), stack # <<>>,
           NEW f, Good(code, f), Become(f), pool' \in Pools,
           Runs(code, f, pool') = Runs(code, top, pool)
    PROVE  Meaning(code, stack', pool', r)
<1>1. PICK v \in [0 .. Len(stack) -> Pools] :
        /\ v[Len(stack)] = pool /\ v[0] = r
        /\ \A k \in 1 .. Len(stack) : v[k - 1] = Runs(code, stack[k], v[k])
  BY DEF Meaning
<1>2. Len(stack) \in Nat \ {0} /\ stack \in Seq(Frames) /\ f \in Frames
  BY TopIsGood DEF IInv, StackGood, Good
<1>3. Len(stack') = Len(stack)
      /\ \A k \in 1 .. Len(stack) : stack'[k] = IF k = Len(stack) THEN f ELSE stack[k]
  BY <1>2 DEF Become
<1> DEFINE w == [v EXCEPT ![Len(stack)] = pool']
<1>4. w \in [0 .. Len(stack') -> Pools]
      /\ \A k \in 0 .. Len(stack) : w[k] = IF k = Len(stack) THEN pool' ELSE v[k]
  BY <1>2, <1>3
<1> HIDE DEF w
<1>5. w[0] = r /\ w[Len(stack')] = pool'
  BY <1>1, <1>2, <1>3, <1>4
<1>6. ASSUME NEW k \in 1 .. Len(stack') PROVE w[k - 1] = Runs(code, stack'[k], w[k])
  <2>1. k \in 1 .. Len(stack) /\ k \in 0 .. Len(stack) /\ k - 1 \in 0 .. Len(stack)
        /\ k - 1 # Len(stack)
    BY <1>2, <1>3
  <2>2. v[k - 1] = Runs(code, stack[k], v[k]) /\ w[k - 1] = v[k - 1]
    BY <1>1, <1>4, <2>1
  <2>3. CASE k = Len(stack)
    BY <1>1, <1>3, <1>4, <2>1, <2>2, <2>3 DEF top
  <2>4. CASE k # Len(stack)
    BY <1>3, <1>4, <2>1, <2>2, <2>4
  <2>5. QED  BY <2>3, <2>4
<1>7. QED  BY <1>4, <1>5, <1>6 DEF Meaning

LEMMA CallMeans ==
    ASSUME IInv, NEW r, Meaning(code, stack, pool, r), stack # <<>>, Meaningful(code),
           NEW f, NEW g, Good(code, f), Good(code, g), Call(f, g), pool' \in Pools,
           Runs(code, g, Runs(code, f, pool')) = Runs(code, top, pool)
    PROVE  Meaning(code, stack', pool', r)
<1>1. PICK v \in [0 .. Len(stack) -> Pools] :
        /\ v[Len(stack)] = pool /\ v[0] = r
        /\ \A k \in 1 .. Len(stack) : v[k - 1] = Runs(code, stack[k], v[k])
  BY DEF Meaning
<1> DEFINE n == Len(stack)
           q == Runs(code, f, pool')
<1>2. n \in Nat \ {0} /\ stack \in Seq(Frames) /\ f \in Frames /\ g \in Frames /\ code \in Seq(Cells)
  BY TopIsGood DEF IInv, StackGood, Good
<1>3. q \in Pools
  BY <1>2, RunsTyped
<1>4. Len(stack') = n + 1
      /\ \A k \in 1 .. n + 1 : stack'[k] = IF k = n + 1 THEN f ELSE IF k = n THEN g ELSE stack[k]
  BY <1>2 DEF Call
<1> HIDE DEF q
<1> DEFINE w == [k \in 0 .. n + 1 |-> IF k = n + 1 THEN pool' ELSE IF k = n THEN q ELSE v[k]]
<1>5. w \in [0 .. Len(stack') -> Pools]
      /\ \A k \in 0 .. n + 1 : w[k] = IF k = n + 1 THEN pool' ELSE IF k = n THEN q ELSE v[k]
  BY <1>2, <1>3, <1>4
<1> HIDE DEF w
<1>6. w[0] = r /\ w[Len(stack')] = pool'
  BY <1>1, <1>2, <1>4, <1>5
<1>7. ASSUME NEW k \in 1 .. Len(stack') PROVE w[k - 1] = Runs(code, stack'[k], w[k])
  <2>1. k \in 1 .. n + 1 /\ k \in 0 .. n + 1 /\ k - 1 \in 0 .. n + 1
    BY <1>2, <1>4
  <2>2. CASE k = n + 1
    <3>1. w[k - 1] = q /\ w[k] = pool' /\ stack'[k] = f
      BY <1>2, <1>4, <1>5, <2>1, <2>2
    <3>2. QED  BY <3>1 DEF q
  <2>3. CASE k = n
    <3>1. w[k - 1] = v[n - 1] /\ w[k] = q /\ stack'[k] = g /\ v[n - 1] = Runs(code, stack[n], v[n])
      BY <1>1, <1>2, <1>4, <1>5, <2>1, <2>3
    <3>2. v[n - 1] = Runs(code, top, pool)
      BY <1>1, <3>1 DEF top
    <3>3. QED  BY <3>1, <3>2 DEF q
  <2>4. CASE k # n + 1 /\ k # n
    <3>1. k \in 1 .. n /\ k - 1 # n /\ k - 1 # n + 1
      BY <1>2, <2>1, <2>4
    <3>2. v[k - 1] = Runs(code, stack[k], v[k])
      BY <1>1, <3>1
    <3>3. QED  BY <1>4, <1>5, <2>1, <2>4, <3>1, <3>2
  <2>5. QED  BY <2>2, <2>3, <2>4
<1>8. QED  BY <1>5, <1>6, <1>7 DEF Meaning

-----------------------------------------------------------------------------
(* One lemma for each action: what the frames it leaves do to the pool it  *)
(* leaves is what the frame it found did to the pool it found.             *)
MInv(r) == IInv /\ Meaningful(code) /\ Meaning(code, stack, pool, r)

LEMMA StmtsReturnMeans ==
    ASSUME NEW r, MInv(r), exec_stmts_return PROVE Meaning(code, stack', pool', r)
<1>1. IInv /\ Running("stmts") /\ ~Fits(top) /\ Pop /\ pool' = pool /\ Meaning(code, stack, pool, r)
  BY DEF MInv, exec_stmts_return
<1>2. /\ stack # <<>> /\ Good(code, top) /\ top.kind = "stmts"
      /\ top.off \in Nat /\ top.rem \in Nat /\ top.gas \in 0 .. Gas
      /\ Len(code) \in Nat /\ code \in Seq(Cells) /\ pool \in Pools
  BY <1>1, StmtsOnTop
<1>3. Level(code, top.gas).stmts[top.off][top.rem][pool] = pool
  <2>1. CASE top.gas = 0
    BY <1>2, <2>1, LevelZero
  <2>2. CASE top.gas # 0
    <3> DEFINE t == Level(code, top.gas - 1)
    <3>1. top.gas \in 1 .. Gas
      BY <1>2, <2>2
    <3>2. Level(code, top.gas).stmts[top.off][top.rem][pool] = Pure!scan_stmts(code, t, top.off, top.rem, pool)
      BY <1>2, <3>1, StmtsLevel, SMTT(30)
    <3> HIDE DEF t
    <3>3. CASE top.rem < 1 \/ top.off + 1 > Len(code)
      BY <3>2, <3>3 DEF Pure!scan_stmts
    <3>4. CASE ~(top.rem < 1 \/ top.off + 1 > Len(code))
      <4>1. top.rem >= 1 /\ top.off + 1 <= Len(code) /\ top.off + 1 \in 1 .. Len(code)
        BY <1>2, <3>4
      <4>2. code[top.off + 1].len \in Nat
        BY <1>2, <4>1, CellTypes
      <4>3. ~(1 + code[top.off + 1].len <= top.rem) \/ ~(code[top.off + 1].len <= Len(code) - top.off - 1)
        BY <1>1, <2>2, <4>1 DEF Fits, Cell
      <4>4. 1 + code[top.off + 1].len > top.rem \/ top.off + 1 + code[top.off + 1].len > Len(code)
        BY <1>2, <4>2, <4>3
      <4>5. QED  BY <3>2, <4>4 DEF Pure!scan_stmts
    <3>5. QED  BY <3>3, <3>4
  <2>3. QED  BY <2>1, <2>2
<1>4. Runs(code, top, pool) = pool
  BY <1>2, <1>3 DEF Runs
<1>5. QED  BY <1>1, <1>2, <1>4, PopMeans

(* What the semantics makes of a statement that fits: q is the pool after  *)
(* it, and the rest runs from there.                                       *)
LEMMA StatementMeans ==
    ASSUME IInv, Running("stmts"), Fits(top)
    PROVE  LET i == Cell(top.off)
               t == Level(code, top.gas - 1)
           IN  Runs(code, top, pool) = Runs(code, Rest(top),
                   IF i.op = "if_block" THEN t.if_block[top.off + 1][pool]
                   ELSE IF i.op = "for_block" THEN t.for_block[top.off + 1][pool]
                   ELSE Pure!exec_atomic(i, pool))
<1> DEFINE i == Cell(top.off)
           t == Level(code, top.gas - 1)
           q == CASE i.op = "if_block"  -> t.if_block[top.off + 1][pool]
                  [] i.op = "for_block" -> t.for_block[top.off + 1][pool]
                  [] OTHER              -> Pure!exec_atomic(i, pool)
<1>1. /\ top.kind = "stmts" /\ top.off \in Nat /\ top.rem \in Nat /\ top.gas \in 1 .. Gas
      /\ Len(code) \in Nat /\ code \in Seq(Cells) /\ pool \in Pools
      /\ top.off + 1 <= Len(code)
  BY StmtsOnTop, StatementFits
<1>2. i = code[top.off + 1] /\ i.len \in Nat
  BY <1>1, CellTypes DEF Cell
<1>3. /\ top.rem >= 1 /\ 1 + i.len <= top.rem /\ i.len <= Len(code) - top.off - 1
  BY DEF Fits
<1>4. Runs(code, top, pool) = Pure!scan_stmts(code, t, top.off, top.rem, pool)
  BY <1>1, StmtsLevel DEF Runs
<1> HIDE DEF t
<1>5. Pure!scan_stmts(code, t, top.off, top.rem, pool) = t.stmts[top.off + 1 + i.len][top.rem - (1 + i.len)][q]
  <2>1. ~(top.rem < 1 \/ top.off + 1 > Len(code)) /\ ~(1 + i.len > top.rem \/ top.off + 1 + i.len > Len(code))
    <3> HIDE DEF i, q
    <3> QED  BY <1>1, <1>2, <1>3
  <2>2. ~(1 + code[top.off + 1].len > top.rem \/ top.off + 1 + code[top.off + 1].len > Len(code))
    BY <1>2, <2>1
  <2>3. QED  BY <1>2, <2>1, <2>2 DEF Pure!scan_stmts, Cell
<1>6. Runs(code, Rest(top), q) = t.stmts[top.off + 1 + i.len][top.rem - (1 + i.len)][q]
  BY DEF Runs, Rest, Stmts, t
<1>7. q = IF i.op = "if_block" THEN t.if_block[top.off + 1][pool]
          ELSE IF i.op = "for_block" THEN t.for_block[top.off + 1][pool]
          ELSE Pure!exec_atomic(i, pool)
  OBVIOUS
<1> HIDE DEF q
<1>8. QED  BY <1>4, <1>5, <1>6, <1>7 DEF t

LEMMA LeafMeans ==
    ASSUME NEW r, MInv(r), exec_leaf PROVE Meaning(code, stack', pool', r)
<1> DEFINE i == Cell(top.off)
<1>1. /\ IInv /\ Running("stmts") /\ Fits(top) /\ Become(Rest(top)) /\ stack # <<>>
      /\ Meaning(code, stack, pool, r) /\ i.op \in LeafTags
      /\ pool' = exec_fb_call_low(exec_simple_low(pool, i), i)
  BY DEF MInv, exec_leaf, Running
<1>2. /\ Good(code, Rest(top)) /\ i \in Cells /\ pool \in Pools
      /\ top.off + 1 \in 1 .. Len(code)
  BY <1>1, StatementFits DEF IInv
<1>3. i \in Leaves /\ i.op \notin {"if_block", "for_block"}
  BY <1>1, <1>2 DEF Cells, IfBlocks, ForBlocks, LeafTags, BoolTags, IntTags, CmpTags
<1>4. InPools(i)
  BY <1>2 DEF MInv, Meaningful, Cell
<1>5. pool' = Pure!exec_atomic(i, pool) /\ pool' \in Pools
  BY <1>1, <1>2, <1>3, <1>4, LeafMeaning
<1>6. Runs(code, top, pool) = Runs(code, Rest(top), pool')
  BY <1>1, <1>3, <1>5, StatementMeans
<1>7. QED  BY <1>1, <1>2, <1>5, <1>6, BecomeMeans

LEMMA IfMeans ==
    ASSUME NEW r, MInv(r), exec_if_block PROVE Meaning(code, stack', pool', r)
<1> DEFINE i == Cell(top.off)
           h == top.off + 1
           t == Stmts(h, i.then, top.gas - 2)
           e == Stmts(h + i.then, i.els, top.gas - 2)
           u == Level(code, top.gas - 2)
           q == Level(code, top.gas - 1).if_block[h][pool]
<1>1. /\ IInv /\ Running("stmts") /\ Fits(top) /\ stack # <<>> /\ Meaningful(code)
      /\ Meaning(code, stack, pool, r) /\ i.op = "if_block" /\ pool' = pool
  BY DEF MInv, exec_if_block, Running
<1>2. /\ top.off \in Nat /\ top.gas \in 0 .. Gas /\ top.gas > 0 /\ Len(code) \in Nat
      /\ code \in Seq(Cells) /\ pool \in Pools /\ h \in 1 .. Len(code) /\ i = code[h]
      /\ Good(code, Rest(top))
  BY <1>1, StatementFits DEF IInv, Cell
<1>3. i.then \in Nat /\ i.els \in Nat /\ i.len \in Nat
  BY <1>1, <1>2, CellTypes
<1>4. /\ i.cond \in BoolSlots /\ i.then + i.els <= i.len
  BY <1>1, <1>2 DEF Meaningful, WellFormed, InPools
<1>5. h + i.then + i.els <= Len(code)
  <2>1. i.len <= Len(code) - top.off - 1
    BY <1>1 DEF Fits
  <2> HIDE DEF i, t, e, u, q
  <2>2. QED  BY <1>2, <1>3, <1>4, <2>1, SMTT(30)
<1>6. IfRuns(i, top) <=> top.gas > 1
  BY <1>2, <1>3, <1>4, <1>5 DEF IfRuns
<1>7. Runs(code, top, pool) = Runs(code, Rest(top), q)
  BY <1>1, StatementMeans
<1>8. CASE top.gas > 1
  <2>1. top.gas - 1 \in 1 .. Gas /\ (top.gas - 1) - 1 = top.gas - 2 /\ top.gas - 2 \in 0 .. Gas
        /\ h \in Nat /\ h + i.then \in Nat
    <3>1. h \in Nat
      BY <1>2
    <3>2. h + i.then \in Nat
      <4> HIDE DEF h, i
      <4> QED  BY <1>3, <3>1
    <3>3. top.gas - 1 \in 1 .. Gas /\ (top.gas - 1) - 1 = top.gas - 2 /\ top.gas - 2 \in 0 .. Gas
      <4> DEFINE g == top.gas
      <4>1. g \in 0 .. Gas /\ g > 1 /\ Gas \in Nat
        BY <1>2, <1>8, InterpAssumption
      <4> HIDE DEF g
      <4>2. g - 1 \in 1 .. Gas /\ (g - 1) - 1 = g - 2 /\ g - 2 \in 0 .. Gas
        BY <4>1
      <4>3. QED  BY <4>2 DEF g
    <3>4. QED  BY <3>1, <3>2, <3>3
  <2>2. q = Pure!exec_if_block(code, u, h, pool)
    <3> DEFINE g == top.gas - 1
    <3>1. q = Level(code, g).if_block[h][pool] /\ g - 1 = top.gas - 2 /\ g \in 1 .. Gas
      BY <2>1
    <3> HIDE DEF g, q, i, t, e
    <3>2. Level(code, g).if_block[h][pool] = Pure!exec_if_block(code, Level(code, g - 1), h, pool)
      BY <1>2, <2>1, <3>1, IfLevel, SMTT(30)
    <3>3. QED  BY <3>1, <3>2
  <2>3. Pure!get_bool(pool, i.cond) = pool.bools[i.cond] /\ pool.bools[i.cond] \in BOOLEAN
    BY <1>2, <1>4, PureSlots DEF Pure!get_bool, Pools
  <2>4. ~(h + i.then > Len(code)) /\ ~(h + i.then + i.els > Len(code))
    BY <1>2, <1>3, <1>5
  <2>5. /\ pool.bools[i.cond] => q = Runs(code, t, pool)
        /\ ~pool.bools[i.cond] /\ i.els # 0 => q = Runs(code, e, pool)
        /\ ~pool.bools[i.cond] /\ i.els = 0 => q = pool
    <3>1. pool.bools[i.cond] => q = u.stmts[h][i.then][pool]
      BY <1>2, <2>2, <2>3, <2>4 DEF Pure!exec_if_block
    <3>2. ~pool.bools[i.cond] /\ i.els # 0 => q = u.stmts[h + i.then][i.els][pool]
      BY <1>2, <2>2, <2>3, <2>4 DEF Pure!exec_if_block
    <3>3. ~pool.bools[i.cond] /\ i.els = 0 => q = pool
      BY <1>2, <2>2, <2>3, <2>4 DEF Pure!exec_if_block
    <3>4. Runs(code, t, pool) = u.stmts[h][i.then][pool] /\ Runs(code, e, pool) = u.stmts[h + i.then][i.els][pool]
      BY DEF Runs, Stmts
    <3>5. QED  BY <3>1, <3>2, <3>3, <3>4
  <2>6. Good(code, t) /\ Good(code, e)
    <3>1. h + i.then <= Len(code)
      BY <1>2, <1>3, <1>5, <2>1
    <3> HIDE DEF h, i
    <3>2. QED  BY <1>3, <1>5, <2>1, <3>1, StmtsGood
  <2>7. \/ pool.bools[i.cond] /\ Call(t, Rest(top))
        \/ ~pool.bools[i.cond] /\ i.els > 0 /\ Call(e, Rest(top))
        \/ ~pool.bools[i.cond] /\ i.els = 0 /\ Become(Rest(top))
    BY <1>6, <1>8 DEF exec_if_block
  <2> HIDE DEF t, e, q, u, i
  <2>8. CASE pool.bools[i.cond] /\ Call(t, Rest(top))
    BY <1>1, <1>2, <1>7, <2>5, <2>6, <2>8, CallMeans
  <2>9. CASE ~pool.bools[i.cond] /\ i.els > 0 /\ Call(e, Rest(top))
    <3>1. q = Runs(code, e, pool)
      BY <2>5, <2>9, <1>3
    <3>2. QED  BY <1>1, <1>2, <1>7, <2>6, <2>9, <3>1, CallMeans
  <2>10. CASE ~pool.bools[i.cond] /\ i.els = 0 /\ Become(Rest(top))
    BY <1>1, <1>2, <1>7, <2>5, <2>10, BecomeMeans
  <2>11. QED  BY <2>7, <2>8, <2>9, <2>10
<1>9. CASE ~(top.gas > 1)
  <2>1. top.gas - 1 = 0 /\ h \in Nat
    BY <1>2, <1>9, InterpAssumption
  <2>2. q = pool
    BY <1>2, <2>1, BlockZero
  <2>3. Become(Rest(top))
    BY <1>6, <1>9 DEF exec_if_block
  <2>4. QED  BY <1>1, <1>2, <1>7, <2>2, <2>3, BecomeMeans
<1>10. QED  BY <1>8, <1>9

LEMMA ForMeans ==
    ASSUME NEW r, MInv(r), exec_for_block PROVE Meaning(code, stack', pool', r)
<1> DEFINE i == Cell(top.off)
           h == top.off + 1
           f == Iter(h, i.body, top.gas - 2, i.idx, Iters(i), FALSE)
           u == Level(code, top.gas - 2)
           q == Level(code, top.gas - 1).for_block[h][pool]
<1>1. /\ IInv /\ Running("stmts") /\ Fits(top) /\ stack # <<>> /\ Meaningful(code)
      /\ Meaning(code, stack, pool, r) /\ i.op = "for_block"
  BY DEF MInv, exec_for_block, Running
<1>2. /\ top.off \in Nat /\ top.gas \in 0 .. Gas /\ top.gas > 0 /\ Len(code) \in Nat
      /\ code \in Seq(Cells) /\ pool \in Pools /\ h \in 1 .. Len(code) /\ i = code[h]
      /\ Good(code, Rest(top))
  BY <1>1, StatementFits DEF IInv, Cell
<1>3. i.body \in Nat /\ i.start \in Int16 /\ i.len \in Nat /\ Iters(i) \in Nat
  BY <1>1, <1>2, CellTypes
<1>4. i.idx \in IntSlots /\ i.body <= i.len
  BY <1>1, <1>2 DEF Meaningful, WellFormed, InPools
<1>5. h + i.body <= Len(code)
  <2>1. i.len <= Len(code) - top.off - 1
    BY <1>1 DEF Fits
  <2>2. QED  BY <1>2, <1>3, <1>4, <2>1
<1>6. ForRuns(i, top) <=> top.gas > 1
  BY <1>2, <1>3, <1>4, <1>5 DEF ForRuns
<1>7. Runs(code, top, pool) = Runs(code, Rest(top), q)
  BY <1>1, StatementMeans
<1>8. CASE top.gas > 1
  <2>1. top.gas - 1 \in 1 .. Gas /\ (top.gas - 1) - 1 = top.gas - 2 /\ top.gas - 2 \in 0 .. Gas
        /\ h \in Nat
    BY <1>2, <1>8, GasLeft
  <2>2. q = Pure!exec_for_block(code, u, h, pool)
    BY <1>2, <2>1, ForLevel
  <2>3. /\ pool' = [pool EXCEPT !.ints[i.idx] = i.start] /\ Call(f, Rest(top))
    BY <1>6, <1>8 DEF exec_for_block
  <2>4. pool' = Pure!set_int(pool, i.idx, i.start) /\ pool' \in Pools
    <3>1. /\ Pure!set_int(pool, i.idx, i.start) = [pool EXCEPT !.ints[i.idx] = i.start]
          /\ Pure!set_int(pool, i.idx, i.start) \in Pools
      BY <1>2, <1>3, <1>4, SetIndex
    <3>2. QED  BY <2>3, <3>1
  <2>5. q = IterOf(code, top.gas - 2, h, i.body, i.idx, Iters(i), pool')
    <3>1. ~(h + i.body > Len(code))
      BY <1>2, <1>3, <1>5
    <3>2. QED  BY <1>2, <2>2, <2>4, <3>1 DEF Pure!exec_for_block, Iters, IterOf
  <2>6. q = Runs(code, f, pool')
    BY <2>5 DEF Runs, Iter
  <2>7. Good(code, f)
    BY <1>2, <1>3, <1>4, <1>5, <2>1, IterGood
  <2> HIDE DEF f, q, u, i
  <2>8. QED  BY <1>1, <1>2, <1>7, <2>3, <2>4, <2>6, <2>7, CallMeans
<1>9. CASE ~(top.gas > 1)
  <2>1. top.gas - 1 = 0 /\ h \in Nat
    BY <1>2, <1>9, InterpAssumption
  <2>2. q = pool
    BY <1>2, <2>1, BlockZero
  <2>3. Become(Rest(top)) /\ pool' = pool
    BY <1>6, <1>9 DEF exec_for_block
  <2>4. QED  BY <1>1, <1>2, <1>7, <2>2, <2>3, BecomeMeans
<1>10. QED  BY <1>8, <1>9

(* What the semantics makes of a loop that has iterations and gas left.    *)
LEMMA IterMeans ==
    ASSUME NEW c \in Seq(Cells), Meaningful(c), NEW f \in Frames, f.kind = "iter", f.gas # 0, ~f.inside,
           NEW p \in Pools
    PROVE  LET t == Level(c, f.gas - 1)
               q == t.stmts[f.off][f.rem][p]
           IN  /\ f.left = 0 => Runs(c, f, p) = p
               /\ f.left # 0 =>
                    Runs(c, f, p) = IterOf(c, f.gas - 1, f.off, f.rem, f.idx, f.left - 1, NextPool(q, f.idx))
<1> DEFINE t == Level(c, f.gas - 1)
           q == t.stmts[f.off][f.rem][p]
<1>1. /\ f.gas \in 1 .. Gas /\ f.gas - 1 \in 0 .. Gas /\ f.off \in Nat /\ f.rem \in Nat
      /\ f.idx \in IntSlots /\ f.idx \in Nat /\ f.left \in Nat
  BY InterpAssumption DEF Frames, IntSlots
<1>2. q \in Pools
  <2>1. Typed(c, t)
    BY <1>1, LevelTyped
  <2>2. \A o, m \in Nat : t.stmts[o][m][p] \in Pools
    BY <2>1 DEF Typed
  <2> HIDE DEF t
  <2>3. QED  BY <1>1, <2>2
<1>3. Runs(c, f, p) = Pure!exec_for_iter(t, f.off, f.rem, f.idx, f.left, p)
  <2>1. IterOf(c, f.gas, f.off, f.rem, f.idx, f.left, p) = Pure!exec_for_iter(t, f.off, f.rem, f.idx, f.left, p)
    BY <1>1, IterLevel, SMTT(30)
  <2>2. QED  BY <2>1 DEF Runs
<1>4. f.left = 0 => Pure!exec_for_iter(t, f.off, f.rem, f.idx, f.left, p) = p
  BY DEF Pure!exec_for_iter
<1>5. f.left # 0 => Pure!exec_for_iter(t, f.off, f.rem, f.idx, f.left, p)
                      = IterOf(c, f.gas - 1, f.off, f.rem, f.idx, f.left - 1, NextPool(q, f.idx))
  BY <1>1, <1>2, Increment DEF Pure!exec_for_iter, IterOf
<1>6. QED  BY <1>3, <1>4, <1>5

LEMMA ForReturnMeans ==
    ASSUME NEW r, MInv(r), exec_for_return PROVE Meaning(code, stack', pool', r)
<1>1. /\ IInv /\ Running("iter") /\ ~top.inside /\ Pop /\ pool' = pool /\ Meaning(code, stack, pool, r)
      /\ (top.gas = 0 \/ top.left = 0) /\ Meaningful(code) /\ code \in Seq(Cells) /\ pool \in Pools
      /\ top.kind = "iter"
  BY DEF MInv, exec_for_return, IInv, Running
<1>2. /\ stack # <<>> /\ Good(code, top) /\ top.off \in Nat /\ top.rem \in Nat /\ top.gas \in 0 .. Gas
      /\ top.idx \in IntSlots /\ top.idx \in Nat /\ top.left \in Nat
  BY <1>1, IterOnTop, InterpAssumption DEF IntSlots
<1>3. Runs(code, top, pool) = pool
  <2>1. CASE top.gas = 0
    <3>1. IterOf(code, 0, top.off, top.rem, top.idx, top.left, pool) = pool
      BY <1>1, <1>2, IterZero
    <3>2. QED  BY <1>1, <2>1, <3>1 DEF Runs
  <2>2. CASE top.gas # 0
    BY <1>1, <1>2, <2>2, IterMeans DEF Good
  <2>3. QED  BY <2>1, <2>2
<1>4. QED  BY <1>1, <1>2, <1>3, PopMeans

LEMMA ForBodyMeans ==
    ASSUME NEW r, MInv(r), exec_for_body PROVE Meaning(code, stack', pool', r)
<1> DEFINE f == Stmts(top.off, top.rem, top.gas - 1)
           g == [top EXCEPT !.inside = TRUE]
<1>1. /\ IInv /\ Running("iter") /\ ~top.inside /\ top.gas # 0 /\ top.left # 0 /\ Call(f, g)
      /\ pool' = pool /\ Meaning(code, stack, pool, r)
      /\ Meaningful(code) /\ code \in Seq(Cells) /\ pool \in Pools /\ top.kind = "iter"
  BY DEF MInv, exec_for_body, IInv, Running
<1>2. /\ stack # <<>> /\ Good(code, top) /\ top.off \in Nat /\ top.rem \in Nat /\ top.gas \in 0 .. Gas
      /\ top.idx \in IntSlots /\ top.left \in Nat /\ top.off + top.rem <= Len(code) /\ top \in Frames
  BY <1>1, IterOnTop DEF Good
<1>3. top.gas - 1 \in 0 .. Gas /\ top.gas \in 1 .. Gas
  BY <1>1, <1>2, GasLeft
<1>4. Good(code, f) /\ f.off = top.off /\ f.rem = top.rem /\ f.gas = top.gas - 1 /\ f.kind = "stmts"
  BY <1>2, <1>3, StmtsGood DEF Stmts
<1>5. /\ g \in Frames /\ g.off = top.off /\ g.rem = top.rem /\ g.left = top.left /\ g.gas = top.gas
      /\ g.idx = top.idx /\ g.kind = "iter" /\ g.inside = TRUE
  BY <1>1, <1>2 DEF Frames
<1>6. Good(code, g)
  BY <1>1, <1>2, <1>3, <1>5 DEF Good
<1> HIDE DEF f, g
<1> DEFINE q == Level(code, top.gas - 1).stmts[top.off][top.rem][pool]
<1>7. Runs(code, top, pool) = IterOf(code, top.gas - 1, top.off, top.rem, top.idx, top.left - 1, NextPool(q, top.idx))
  BY <1>1, <1>2, IterMeans
<1>8. Runs(code, f, pool) = q
  BY <1>4 DEF Runs
<1> HIDE DEF q
<1>9. Runs(code, g, q) = Runs(code, top, pool)
  BY <1>5, <1>7 DEF Runs
<1>10. QED  BY <1>1, <1>2, <1>4, <1>6, <1>8, <1>9, CallMeans

LEMMA ForNextMeans ==
    ASSUME NEW r, MInv(r), exec_for_next PROVE Meaning(code, stack', pool', r)
<1> DEFINE f == Iter(top.off, top.rem, top.gas - 1, top.idx, top.left - 1, FALSE)
<1>1. /\ IInv /\ Running("iter") /\ top.inside /\ Become(f) /\ Meaning(code, stack, pool, r)
      /\ pool' = NextPool(pool, top.idx) /\ pool \in Pools /\ top.kind = "iter"
  BY DEF MInv, exec_for_next, IInv, Running, NextPool
<1>2. /\ stack # <<>> /\ top.off \in Nat /\ top.rem \in Nat /\ top.idx \in IntSlots
      /\ top.gas \in 0 .. Gas /\ top.gas > 0 /\ top.left \in Nat /\ top.left > 0
      /\ top.off + top.rem <= Len(code)
  BY <1>1, IterOnTop
<1>3. top.gas - 1 \in 0 .. Gas /\ top.left - 1 \in Nat
  BY <1>2, InterpAssumption
<1>4. Good(code, f)
  BY <1>2, <1>3, IterGood
<1>5. pool' \in Pools
  BY <1>1, <1>2, Increment
<1>6. Runs(code, f, pool') = Runs(code, top, pool)
  BY <1>1 DEF Runs, Iter
<1> HIDE DEF f
<1>7. QED  BY <1>1, <1>2, <1>4, <1>5, <1>6, BecomeMeans

LEMMA StepMeans ==
    ASSUME NEW r, MInv(r), Step PROVE Meaning(code, stack', pool', r)
BY StmtsReturnMeans, LeafMeans, IfMeans, ForMeans, ForReturnMeans, ForBodyMeans, ForNextMeans DEF Step

(* A call that starts on a whole list of statements, and what a call that  *)
(* has returned has computed.                                              *)
LEMMA StartMeans ==
    ASSUME NEW c \in Seq(Cells), NEW p \in Pools, Meaningful(c), NEW off \in Nat, NEW rem \in Nat
    PROVE  Meaning(c, <<Stmts(off, rem, Gas)>>, p, Pure!exec_stmts(c, off, rem, p, Gas))
<1> DEFINE f == Stmts(off, rem, Gas)
           r == Pure!exec_stmts(c, off, rem, p, Gas)
           s == <<f>>
<1>1. r = Level(c, Gas).stmts[off][rem][p]
  BY DEF Pure!exec_stmts, Level
<1>2. Runs(c, f, p) = r
  BY <1>1 DEF Runs, Stmts
<1>3. r \in Pools
  <2>1. Gas \in 0 .. Gas
    BY InterpAssumption
  <2>2. Typed(c, Level(c, Gas))
    BY <2>1, LevelTyped
  <2>3. \A o, m \in Nat : Level(c, Gas).stmts[o][m][p] \in Pools
    BY <2>2 DEF Typed
  <2>4. QED  BY <1>1, <2>3
<1> HIDE DEF f, r
<1> DEFINE v == [k \in 0 .. 1 |-> IF k = 1 THEN p ELSE r]
<1>4. Len(s) = 1 /\ s[1] = f
  OBVIOUS
<1> HIDE DEF s
<1>5. v \in [0 .. Len(s) -> Pools] /\ v[Len(s)] = p /\ v[0] = r
  BY <1>3, <1>4
<1>6. \A k \in 1 .. Len(s) : v[k - 1] = Runs(c, s[k], v[k])
  BY <1>2, <1>4
<1> HIDE DEF v
<1>7. Meaning(c, s, p, r)
  BY <1>5, <1>6 DEF Meaning
<1>8. QED  BY <1>7 DEF r, s, f

LEMMA ReturnMeans ==
    ASSUME NEW r, Meaning(code, stack, pool, r), stack = <<>> PROVE pool = r
BY DEF Meaning

-----------------------------------------------------------------------------
(* The cycles.  Each pending call has a bound of its own, B; the cycles    *)
(* already spent and the bounds of the pending calls add up to no more     *)
(* than the bound of the call that started the scan.  The gas of a call    *)
(* decreases from one iteration of a loop to the next, and the bound       *)
(* counts them all with the gas of the first: it must not decrease with    *)
(* gas.                                                                    *)

-----------------------------------------------------------------------------
(* The table of the bound, gas by gas.                                     *)
Charge(c, m, gas) == wcet(c, m)[gas]

IsWcet(c, m, k, t) == t = [gas \in 0 .. k |-> IF gas = 0 THEN Free ELSE OneMore(c, t[gas - 1], m)]

LEMMA WcetExists ==
    ASSUME NEW c, NEW m PROVE \E t : IsWcet(c, m, Gas, t)
<1> DEFINE Eq(t, k) == IsWcet(c, m, k, t)
           S == {k \in Nat : \E t : Eq(t, k)}
<1>1. 0 \in S
  <2> DEFINE z == [gas \in 0 .. 0 |-> Free]
  <2>1. Eq(z, 0)
    BY DEF IsWcet
  <2>2. QED  BY <2>1
<1>2. ASSUME NEW k \in Nat, k \in S PROVE k + 1 \in S
  <2>1. PICK t : Eq(t, k)
    BY <1>2
  <2> DEFINE u == [gas \in 0 .. k + 1 |-> IF gas = k + 1 THEN OneMore(c, t[k], m) ELSE t[gas]]
  <2>2. ASSUME NEW gas \in 0 .. k + 1
        PROVE  u[gas] = IF gas = 0 THEN Free ELSE OneMore(c, u[gas - 1], m)
    <3>1. CASE gas = k + 1
      BY <3>1
    <3>2. CASE gas # k + 1
      <4>1. gas \in 0 .. k /\ (gas # 0 => gas - 1 \in 0 .. k /\ gas - 1 # k + 1)
        BY <3>2
      <4>2. u[gas] = t[gas] /\ (gas # 0 => u[gas - 1] = t[gas - 1])
        BY <4>1, <3>2
      <4> HIDE DEF u
      <4>3. QED  BY <2>1, <4>1, <4>2 DEF IsWcet
    <3>3. QED  BY <3>1, <3>2
  <2>3. Eq(u, k + 1)
    BY <2>2 DEF IsWcet
  <2>4. \E w : Eq(w, k + 1)
    <3> HIDE DEF u, Eq
    <3> QED  BY <2>3
  <2>5. QED  BY <2>4
<1>3. Gas \in S
  <2> HIDE DEF S
  <2> QED  BY <1>1, <1>2, SetInduction, InterpAssumption
<1>4. QED  BY <1>3

LEMMA WcetUnfolds ==
    ASSUME NEW c, NEW m
    PROVE  /\ Charge(c, m, 0) = Free
           /\ \A gas \in 1 .. Gas : Charge(c, m, gas) = OneMore(c, Charge(c, m, gas - 1), m)
<1> DEFINE t == wcet(c, m)
<1>1. t = [gas \in 0 .. Gas |-> IF gas = 0 THEN Free ELSE OneMore(c, t[gas - 1], m)]
  <2>1. \E u : IsWcet(c, m, Gas, u)
    BY WcetExists
  <2>2. QED  BY <2>1 DEF wcet, IsWcet
<1> HIDE DEF t
<1>2. t[0] = Free /\ \A gas \in 1 .. Gas : t[gas] = OneMore(c, t[gas - 1], m)
  BY <1>1, InterpAssumption
<1>3. QED  BY <1>2 DEF Charge, t

LEMMA NothingCharged ==
    ASSUME NEW c, NEW m, NEW off \in Nat, NEW rem \in Nat
    PROVE  /\ Charge(c, m, 0).stmts[off][rem] = 0
           /\ Charge(c, m, 0).if_block[off] = 0 /\ Charge(c, m, 0).for_block[off] = 0
<1>1. Free.stmts[off][rem] = 0 /\ Free.if_block[off] = 0 /\ Free.for_block[off] = 0
  BY DEF Free
<1>2. QED  BY <1>1, WcetUnfolds

LEMMA StmtsCharged ==
    ASSUME NEW c, NEW m, NEW gas \in 1 .. Gas, NEW off \in Nat, NEW rem \in Nat
    PROVE  Charge(c, m, gas).stmts[off][rem] = scan_cost(c, Charge(c, m, gas - 1), off, rem, m)
<1> DEFINE t == Charge(c, m, gas - 1)
<1>1. OneMore(c, t, m).stmts[off][rem] = scan_cost(c, t, off, rem, m)
  <2> HIDE DEF t
  <2> QED  BY DEF OneMore
<1>2. QED  BY <1>1, WcetUnfolds

LEMMA IfCharged ==
    ASSUME NEW c, NEW m, NEW gas \in 1 .. Gas, NEW off \in Nat
    PROVE  Charge(c, m, gas).if_block[off] = wcet_if_block(c, Charge(c, m, gas - 1), off)
<1> DEFINE t == Charge(c, m, gas - 1)
<1>1. OneMore(c, t, m).if_block[off] = wcet_if_block(c, t, off)
  <2> HIDE DEF t
  <2> QED  BY DEF OneMore
<1>2. QED  BY <1>1, WcetUnfolds

LEMMA ForCharged ==
    ASSUME NEW c, NEW m, NEW gas \in 1 .. Gas, NEW off \in Nat
    PROVE  Charge(c, m, gas).for_block[off] = wcet_for_block(c, Charge(c, m, gas - 1), off)
<1> DEFINE t == Charge(c, m, gas - 1)
<1>1. OneMore(c, t, m).for_block[off] = wcet_for_block(c, t, off)
  <2> HIDE DEF t
  <2> QED  BY DEF OneMore
<1>2. QED  BY <1>1, WcetUnfolds
-----------------------------------------------------------------------------
(* Every bound is a natural number.                                        *)
Counted(c, t) ==
    /\ \A off, rem \in Nat : t.stmts[off][rem] \in Nat
    /\ \A off \in Nat : CellOf(c, off, "if_block") => t.if_block[off] \in Nat
    /\ \A off \in Nat : CellOf(c, off, "for_block") => t.for_block[off] \in Nat

StatementCost(i, t, h) ==
    CASE i.op = "if_block"  -> t.if_block[h]
      [] i.op = "for_block" -> t.for_block[h]
      [] OTHER              -> Cost[i.op] + CostDispatch

(* A statement is whole: scan_cost adds the cost of the rest to its own.   *)
Whole(c, off, rem) ==
    /\ rem >= 1 /\ off + 1 <= Len(c)
    /\ 1 + c[off + 1].len <= rem /\ off + 1 + c[off + 1].len <= Len(c)

Rests(c, t, off, rem) == t.stmts[off + 1 + c[off + 1].len][rem - (1 + c[off + 1].len)]

LEMMA WholeCost ==
    ASSUME NEW c \in Seq(Cells), NEW t, NEW off \in Nat, NEW rem \in Nat, NEW m, Whole(c, off, rem)
    PROVE  /\ off + 1 \in 1 .. Len(c) /\ c[off + 1].len \in Nat
           /\ off + 1 + c[off + 1].len \in Nat /\ rem - (1 + c[off + 1].len) \in Nat
           /\ scan_cost(c, t, off, rem, m) =
                Word(StatementCost(c[off + 1], t, off + 1) + Rests(c, t, off, rem), m)
<1> DEFINE i == c[off + 1]
<1>1. off + 1 \in 1 .. Len(c)
  BY DEF Whole
<1>2. i.len \in Nat
  BY <1>1, CellTypes
<1>3. /\ ~(rem < 1 \/ off + 1 > Len(c)) /\ ~(1 + i.len > rem \/ off + 1 + i.len > Len(c))
      /\ off + 1 + i.len \in Nat /\ rem - (1 + i.len) \in Nat
  <2>1. /\ rem >= 1 /\ off + 1 <= Len(c) /\ 1 + i.len <= rem /\ off + 1 + i.len <= Len(c)
        /\ Len(c) \in Nat
    BY DEF Whole
  <2> HIDE DEF i
  <2>2. QED  BY <1>2, <2>1
<1>4. scan_cost(c, t, off, rem, m) =
        Word(StatementCost(i, t, off + 1) + Rests(c, t, off, rem), m)
  BY <1>3 DEF scan_cost, StatementCost, Rests
<1>5. QED  BY <1>1, <1>2, <1>3, <1>4

LEMMA PartCost ==
    ASSUME NEW c \in Seq(Cells), NEW t, NEW off \in Nat, NEW rem \in Nat, NEW m, ~Whole(c, off, rem)
    PROVE  scan_cost(c, t, off, rem, m) = 0
<1>1. Len(c) \in Nat
  OBVIOUS
<1>2. CASE rem < 1 \/ off + 1 > Len(c)
  BY <1>2 DEF scan_cost
<1>3. CASE ~(rem < 1 \/ off + 1 > Len(c))
  <2>1. off + 1 \in 1 .. Len(c)
    BY <1>1, <1>3
  <2>2. c[off + 1].len \in Nat
    BY <2>1, CellTypes
  <2>3. 1 + c[off + 1].len > rem \/ off + 1 + c[off + 1].len > Len(c)
    BY <1>1, <1>3, <2>2 DEF Whole
  <2>4. QED  BY <1>3, <2>3 DEF scan_cost
<1>4. QED  BY <1>2, <1>3

LEMMA StatementCounted ==
    ASSUME NEW c \in Seq(Cells), NEW t, Counted(c, t), NEW k \in 1 .. Len(c)
    PROVE  StatementCost(c[k], t, k) \in Nat
<1>1. k \in Nat
  OBVIOUS
<1>2. CASE c[k].op = "if_block"
  <2>1. t.if_block[k] \in Nat
    BY <1>1, <1>2 DEF Counted, CellOf
  <2>2. QED  BY <1>2, <2>1 DEF StatementCost
<1>3. CASE c[k].op = "for_block"
  <2>1. t.for_block[k] \in Nat
    BY <1>1, <1>3 DEF Counted, CellOf
  <2>2. QED  BY <1>3, <2>1 DEF StatementCost
<1>4. CASE c[k].op \notin {"if_block", "for_block"}
  <2>1. c[k].op \in LeafTags
    BY <1>4, CellTypes DEF Leaves
  <2>2. Cost[c[k].op] + CostDispatch \in Nat
    BY <2>1, InterpAssumption
  <2>3. QED  BY <1>4, <2>2 DEF StatementCost
<1>5. QED  BY <1>2, <1>3, <1>4

LEMMA ProductType == \A a, b \in Nat : a * b \in Nat
OBVIOUS

LEMMA OneMoreCounted ==
    ASSUME NEW c \in Seq(Cells), NEW m \in Nat, NEW gas \in 1 .. Gas, Counted(c, Charge(c, m, gas - 1))
    PROVE  Counted(c, Charge(c, m, gas))
<1> DEFINE t == Charge(c, m, gas - 1)
           u == Charge(c, m, gas)
<1>1. Counted(c, t) /\ Len(c) \in Nat
  OBVIOUS
<1> HIDE DEF t
<1>2. ASSUME NEW off \in Nat, NEW rem \in Nat PROVE u.stmts[off][rem] \in Nat
  <2> DEFINE i == c[off + 1]
  <2>1. u.stmts[off][rem] = scan_cost(c, t, off, rem, m)
    BY StmtsCharged DEF t
  <2>2. CASE Whole(c, off, rem)
    <3>1. /\ off + 1 \in 1 .. Len(c) /\ off + 1 + i.len \in Nat /\ rem - (1 + i.len) \in Nat
          /\ scan_cost(c, t, off, rem, m) = Word(StatementCost(i, t, off + 1) + Rests(c, t, off, rem), m)
      BY <2>2, WholeCost
    <3>2. StatementCost(i, t, off + 1) \in Nat
      BY <1>1, <3>1, StatementCounted
    <3>3. \A o, r \in Nat : t.stmts[o][r] \in Nat
      BY <1>1 DEF Counted
    <3>4. Rests(c, t, off, rem) \in Nat
      BY <3>1, <3>3 DEF Rests
    <3>5. \A n \in Nat : Word(n, m) \in Nat
      BY DEF Word
    <3>6. StatementCost(i, t, off + 1) + Rests(c, t, off, rem) \in Nat
      BY <3>2, <3>4
    <3>7. QED  BY <2>1, <3>1, <3>5, <3>6
  <2>3. CASE ~Whole(c, off, rem)
    BY <2>1, <2>3, PartCost
  <2>4. QED  BY <2>2, <2>3
<1>3. ASSUME NEW off \in Nat, CellOf(c, off, "if_block") PROVE u.if_block[off] \in Nat
  <2>1. u.if_block[off] = wcet_if_block(c, t, off)
    BY IfCharged DEF t
  <2>2. c[off].then \in Nat /\ c[off].els \in Nat /\ off + c[off].then \in Nat
    BY <1>3, CellTypes DEF CellOf
  <2>3. \A o, r \in Nat : t.stmts[o][r] \in Nat
    BY <1>1 DEF Counted
  <2>4. t.stmts[off][c[off].then] \in Nat /\ t.stmts[off + c[off].then][c[off].els] \in Nat
    BY <2>2, <2>3
  <2>5. \A a, b \in Nat : IfCost(a, b) \in Nat
    BY InterpAssumption DEF IfCost, Larger
  <2>6. IfCost(t.stmts[off][c[off].then], t.stmts[off + c[off].then][c[off].els]) \in Nat
    BY <2>4, <2>5
  <2>7. QED  BY <2>1, <2>6 DEF wcet_if_block
<1>4. ASSUME NEW off \in Nat, CellOf(c, off, "for_block") PROVE u.for_block[off] \in Nat
  <2>1. u.for_block[off] = wcet_for_block(c, t, off)
    BY ForCharged DEF t
  <2>2. c[off].body \in Nat /\ Iters(c[off]) \in Nat
    BY <1>4, CellTypes DEF CellOf
  <2>3. \A o, r \in Nat : t.stmts[o][r] \in Nat
    BY <1>1 DEF Counted
  <2>4. t.stmts[off][c[off].body] \in Nat
    BY <2>2, <2>3
  <2>5. t.stmts[off][c[off].body] + CostFor \in Nat /\ CostFor \in Nat
    <3> DEFINE x == t.stmts[off][c[off].body]
    <3>1. x \in Nat
      BY <2>4
    <3> HIDE DEF x
    <3>2. x + CostFor \in Nat /\ CostFor \in Nat
      BY <3>1, InterpAssumption
    <3>3. QED  BY <3>2 DEF x
  <2>6. Iters(c[off]) * (t.stmts[off][c[off].body] + CostFor) \in Nat
    BY <2>2, <2>5, ProductType
  <2>7. ForCost(c[off], t.stmts[off][c[off].body]) \in Nat
    BY <2>5, <2>6 DEF ForCost
  <2>8. QED  BY <2>1, <2>7 DEF wcet_for_block
<1> HIDE DEF u
<1>5. Counted(c, u)
  BY <1>2, <1>3, <1>4 DEF Counted
<1>6. QED  BY <1>5 DEF u

LEMMA AllCounted ==
    ASSUME NEW c \in Seq(Cells), NEW m \in Nat PROVE \A gas \in 0 .. Gas : Counted(c, Charge(c, m, gas))
<1> DEFINE S == {gas \in 0 .. Gas : Counted(c, Charge(c, m, gas))}
<1>1. 0 \in S
  <2>1. Counted(c, Charge(c, m, 0))
    BY NothingCharged DEF Counted
  <2>2. QED  BY <2>1, InterpAssumption
<1>2. ASSUME NEW k \in 0 .. Gas, k < Gas, k \in S PROVE k + 1 \in S
  <2>1. k + 1 \in 1 .. Gas /\ (k + 1) - 1 = k
    BY <1>2, InterpAssumption
  <2>2. QED  BY <1>2, <2>1, OneMoreCounted
<1>3. 0 .. Gas \subseteq S
  <2> HIDE DEF S
  <2> QED  BY <1>1, <1>2, BoundedInduction, InterpAssumption
<1>4. QED  BY <1>3

-----------------------------------------------------------------------------
(* More gas never makes a bound smaller.                                   *)
NoMore(c, t, u) ==
    /\ \A off, rem \in Nat : t.stmts[off][rem] <= u.stmts[off][rem]
    /\ \A off \in Nat : CellOf(c, off, "if_block") => t.if_block[off] <= u.if_block[off]
    /\ \A off \in Nat : CellOf(c, off, "for_block") => t.for_block[off] <= u.for_block[off]

LEMMA ProductGrows == ASSUME NEW n \in Nat, NEW a \in Nat, NEW b \in Nat, a <= b PROVE n * a <= n * b
<1>1. PICK d \in Nat : b = a + d
  <2>1. b - a \in Nat /\ b = a + (b - a)
    OBVIOUS
  <2>2. QED  BY <2>1
<1>2. n * b = n * a + n * d
  BY <1>1
<1>3. n * d \in Nat /\ n * a \in Nat
  BY ProductType
<1>4. QED  BY <1>2, <1>3

LEMMA ProductStep == ASSUME NEW n \in Nat, n # 0, NEW a \in Nat PROVE n * a = (n - 1) * a + a
OBVIOUS

LEMMA IfCostGrows ==
    ASSUME NEW a \in Nat, NEW b \in Nat, NEW x \in Nat, NEW y \in Nat, a <= x, b <= y
    PROVE  IfCost(a, b) <= IfCost(x, y)
BY InterpAssumption DEF IfCost, Larger

LEMMA ForCostGrows ==
    ASSUME NEW i, Iters(i) \in Nat, NEW a \in Nat, NEW x \in Nat, a <= x
    PROVE  ForCost(i, a) <= ForCost(i, x)
<1>1. a + CostFor \in Nat /\ x + CostFor \in Nat /\ a + CostFor <= x + CostFor /\ CostFor \in Nat
  BY InterpAssumption
<1>2. Iters(i) * (a + CostFor) <= Iters(i) * (x + CostFor)
  BY <1>1, ProductGrows
<1>3. Iters(i) * (a + CostFor) \in Nat /\ Iters(i) * (x + CostFor) \in Nat
  BY <1>1, ProductType
<1>4. QED  BY <1>1, <1>2, <1>3 DEF ForCost

LEMMA StatementGrows ==
    ASSUME NEW c \in Seq(Cells), NEW t, NEW u, NoMore(c, t, u), Counted(c, t), NEW k \in 1 .. Len(c)
    PROVE  StatementCost(c[k], t, k) <= StatementCost(c[k], u, k)
<1>1. k \in Nat
  OBVIOUS
<1>2. CASE c[k].op = "if_block"
  <2>1. t.if_block[k] <= u.if_block[k]
    BY <1>1, <1>2 DEF NoMore, CellOf
  <2>2. QED  BY <1>2, <2>1 DEF StatementCost
<1>3. CASE c[k].op = "for_block"
  <2>1. t.for_block[k] <= u.for_block[k]
    BY <1>1, <1>3 DEF NoMore, CellOf
  <2>2. QED  BY <1>3, <2>1 DEF StatementCost
<1>4. CASE c[k].op \notin {"if_block", "for_block"}
  <2>1. StatementCost(c[k], t, k) \in Nat
    BY StatementCounted
  <2>2. StatementCost(c[k], u, k) = StatementCost(c[k], t, k)
    BY <1>4 DEF StatementCost
  <2>3. QED  BY <2>1, <2>2
<1>5. QED  BY <1>2, <1>3, <1>4

LEMMA OneMoreGrows ==
    ASSUME NEW c \in Seq(Cells), NEW t, NEW u, NoMore(c, t, u), Counted(c, t), Counted(c, u)
    PROVE  /\ \A off, rem \in Nat : scan_cost(c, t, off, rem, 0) <= scan_cost(c, u, off, rem, 0)
           /\ \A off \in Nat : CellOf(c, off, "if_block") => wcet_if_block(c, t, off) <= wcet_if_block(c, u, off)
           /\ \A off \in Nat : CellOf(c, off, "for_block") => wcet_for_block(c, t, off) <= wcet_for_block(c, u, off)
<1>1. /\ \A o, r \in Nat : t.stmts[o][r] <= u.stmts[o][r]
      /\ \A o, r \in Nat : t.stmts[o][r] \in Nat
      /\ \A o, r \in Nat : u.stmts[o][r] \in Nat
  BY DEF NoMore, Counted
<1>2. ASSUME NEW off \in Nat, NEW rem \in Nat
      PROVE  scan_cost(c, t, off, rem, 0) <= scan_cost(c, u, off, rem, 0)
  <2> DEFINE i == c[off + 1]
             a == StatementCost(i, t, off + 1)
             b == StatementCost(i, u, off + 1)
  <2>1. CASE Whole(c, off, rem)
    <3>1. /\ off + 1 \in 1 .. Len(c) /\ off + 1 + i.len \in Nat /\ rem - (1 + i.len) \in Nat
          /\ scan_cost(c, t, off, rem, 0) = Word(a + Rests(c, t, off, rem), 0)
          /\ scan_cost(c, u, off, rem, 0) = Word(b + Rests(c, u, off, rem), 0)
      BY <2>1, WholeCost
    <3>2. a \in Nat /\ b \in Nat /\ a <= b
      BY <3>1, StatementCounted, StatementGrows
    <3>3. Rests(c, t, off, rem) \in Nat /\ Rests(c, u, off, rem) \in Nat /\ Rests(c, t, off, rem) <= Rests(c, u, off, rem)
      BY <1>1, <3>1 DEF Rests
    <3> HIDE DEF a, b
    <3>4. QED  BY <3>1, <3>2, <3>3 DEF Word
  <2>2. CASE ~Whole(c, off, rem)
    <3>1. scan_cost(c, t, off, rem, 0) = 0 /\ scan_cost(c, u, off, rem, 0) = 0
      BY <2>2, PartCost
    <3>2. QED  BY <3>1
  <2>3. QED  BY <2>1, <2>2
<1>3. ASSUME NEW off \in Nat, CellOf(c, off, "if_block")
      PROVE  wcet_if_block(c, t, off) <= wcet_if_block(c, u, off)
  <2> DEFINE i == c[off]
  <2>1. i.then \in Nat /\ i.els \in Nat /\ off + i.then \in Nat
    BY <1>3, CellTypes DEF CellOf
  <2>2. /\ t.stmts[off][i.then] \in Nat /\ u.stmts[off][i.then] \in Nat
        /\ t.stmts[off + i.then][i.els] \in Nat /\ u.stmts[off + i.then][i.els] \in Nat
        /\ t.stmts[off][i.then] <= u.stmts[off][i.then]
        /\ t.stmts[off + i.then][i.els] <= u.stmts[off + i.then][i.els]
    BY <1>1, <2>1
  <2>3. IfCost(t.stmts[off][i.then], t.stmts[off + i.then][i.els])
          <= IfCost(u.stmts[off][i.then], u.stmts[off + i.then][i.els])
    BY <2>2, IfCostGrows
  <2>4. CASE off + i.then + i.els > Len(c)
    BY <2>4 DEF wcet_if_block
  <2>5. CASE ~(off + i.then + i.els > Len(c))
    BY <2>3, <2>5 DEF wcet_if_block
  <2>6. QED  BY <2>4, <2>5
<1>4. ASSUME NEW off \in Nat, CellOf(c, off, "for_block")
      PROVE  wcet_for_block(c, t, off) <= wcet_for_block(c, u, off)
  <2> DEFINE i == c[off]
  <2>1. i.body \in Nat /\ Iters(i) \in Nat
    BY <1>4, CellTypes DEF CellOf
  <2>2. /\ t.stmts[off][i.body] \in Nat /\ u.stmts[off][i.body] \in Nat
        /\ t.stmts[off][i.body] <= u.stmts[off][i.body]
    BY <1>1, <2>1
  <2>3. ForCost(i, t.stmts[off][i.body]) <= ForCost(i, u.stmts[off][i.body])
    BY <2>1, <2>2, ForCostGrows
  <2>4. CASE off + i.body > Len(c)
    BY <2>4 DEF wcet_for_block
  <2>5. CASE ~(off + i.body > Len(c))
    BY <2>3, <2>5 DEF wcet_for_block
  <2>6. QED  BY <2>4, <2>5
<1>5. QED  BY <1>2, <1>3, <1>4

LEMMA LevelGrows ==
    ASSUME NEW c \in Seq(Cells), NEW gas \in 1 .. Gas
    PROVE  NoMore(c, Charge(c, 0, gas - 1), Charge(c, 0, gas))
<1> DEFINE L(k) == Charge(c, 0, k)
           S == {k \in 0 .. Gas : k < Gas => NoMore(c, L(k), L(k + 1))}
<1>1. 0 \in S
  <2>1. SUFFICES ASSUME 0 < Gas PROVE NoMore(c, L(0), L(1))
    BY InterpAssumption
  <2>2. 1 \in 0 .. Gas
    BY <2>1, InterpAssumption
  <2>3. Counted(c, L(1))
    BY <2>2, AllCounted
  <2>4. \A o, r \in Nat : L(0).stmts[o][r] = 0 /\ L(0).if_block[o] = 0 /\ L(0).for_block[o] = 0
    BY NothingCharged
  <2> HIDE DEF L
  <2>5. QED  BY <2>3, <2>4 DEF NoMore, Counted
<1>2. ASSUME NEW k \in 0 .. Gas, k < Gas, k \in S PROVE k + 1 \in S
  <2>1. SUFFICES ASSUME k + 1 < Gas PROVE NoMore(c, L(k + 1), L(k + 2))
    <3>1. k + 1 \in 0 .. Gas /\ (k + 1) + 1 = k + 2
      BY <1>2, InterpAssumption
    <3> QED  BY <3>1
  <2>2. /\ k + 1 \in 1 .. Gas /\ k + 2 \in 1 .. Gas /\ (k + 1) - 1 = k /\ (k + 2) - 1 = k + 1
        /\ k + 1 \in 0 .. Gas
    BY <1>2, <2>1, InterpAssumption
  <2>3. NoMore(c, L(k), L(k + 1))
    BY <1>2
  <2>4. Counted(c, L(k)) /\ Counted(c, L(k + 1))
    BY <2>2, AllCounted
  <2>5. /\ \A off, rem \in Nat : L(k + 1).stmts[off][rem] = scan_cost(c, L(k), off, rem, 0)
        /\ \A off \in Nat : L(k + 1).if_block[off] = wcet_if_block(c, L(k), off)
        /\ \A off \in Nat : L(k + 1).for_block[off] = wcet_for_block(c, L(k), off)
    BY <2>2, StmtsCharged, IfCharged, ForCharged
  <2>6. /\ \A off, rem \in Nat : L(k + 2).stmts[off][rem] = scan_cost(c, L(k + 1), off, rem, 0)
        /\ \A off \in Nat : L(k + 2).if_block[off] = wcet_if_block(c, L(k + 1), off)
        /\ \A off \in Nat : L(k + 2).for_block[off] = wcet_for_block(c, L(k + 1), off)
    BY <2>2, StmtsCharged, IfCharged, ForCharged
  <2> HIDE DEF L
  <2>7. /\ \A off, rem \in Nat : scan_cost(c, L(k), off, rem, 0) <= scan_cost(c, L(k + 1), off, rem, 0)
        /\ \A off \in Nat : CellOf(c, off, "if_block") => wcet_if_block(c, L(k), off) <= wcet_if_block(c, L(k + 1), off)
        /\ \A off \in Nat : CellOf(c, off, "for_block") => wcet_for_block(c, L(k), off) <= wcet_for_block(c, L(k + 1), off)
    BY <2>3, <2>4, OneMoreGrows
  <2>8. QED  BY <2>5, <2>6, <2>7 DEF NoMore
<1>3. 0 .. Gas \subseteq S
  <2> HIDE DEF S
  <2> QED  BY <1>1, <1>2, BoundedInduction, InterpAssumption
<1>4. gas - 1 \in 0 .. Gas /\ gas - 1 < Gas /\ (gas - 1) + 1 = gas
  BY InterpAssumption
<1>5. gas - 1 \in S
  <2> HIDE DEF S
  <2> QED  BY <1>3, <1>4
<1>6. NoMore(c, L(gas - 1), L((gas - 1) + 1))
  BY <1>4, <1>5
<1>7. QED  BY <1>4, <1>6
-----------------------------------------------------------------------------
(* The bound of a pending call.  A loop inside its body has one iteration  *)
(* less to count: that one is its body's.                                  *)
Bound(c, gas, off, rem) == Charge(c, 0, gas).stmts[off][rem]
B(c, f) ==
    IF f.kind = "stmts" THEN Bound(c, f.gas, f.off, f.rem)
    ELSE IF f.inside THEN (f.left - 1) * (Bound(c, f.gas, f.off, f.rem) + CostFor)
    ELSE f.left * (Bound(c, f.gas, f.off, f.rem) + CostFor)

(* After n cycles the pending calls fit into r: w is what may have been    *)
(* spent when each of them has returned.                                   *)
Paid(c, s, n, r) ==
    \E w \in [0 .. Len(s) -> Nat] :
        /\ n <= w[Len(s)] /\ w[0] = r
        /\ \A k \in 1 .. Len(s) : w[k] + B(c, s[k]) <= w[k - 1]

LEMMA BoundType ==
    ASSUME NEW c \in Seq(Cells), NEW gas \in 0 .. Gas, NEW off \in Nat, NEW rem \in Nat
    PROVE  Bound(c, gas, off, rem) \in Nat
<1>1. Counted(c, Charge(c, 0, gas))
  BY AllCounted
<1>2. QED  BY <1>1 DEF Counted, Bound

LEMMA BoundGrows ==
    ASSUME NEW c \in Seq(Cells), NEW gas \in 1 .. Gas, NEW off \in Nat, NEW rem \in Nat
    PROVE  Bound(c, gas - 1, off, rem) <= Bound(c, gas, off, rem)
<1>1. NoMore(c, Charge(c, 0, gas - 1), Charge(c, 0, gas))
  BY LevelGrows
<1>2. QED  BY <1>1 DEF NoMore, Bound

LEMMA BType == ASSUME NEW c \in Seq(Cells), NEW f, Good(c, f) PROVE B(c, f) \in Nat
<1>1. f \in Frames /\ f.off \in Nat /\ f.rem \in Nat /\ f.gas \in 0 .. Gas
  BY DEF Good, Frames
<1>2. Bound(c, f.gas, f.off, f.rem) \in Nat /\ Bound(c, f.gas, f.off, f.rem) + CostFor \in Nat
  <2>1. Bound(c, f.gas, f.off, f.rem) \in Nat
    BY <1>1, BoundType
  <2>2. QED  BY <2>1, InterpAssumption
<1>3. CASE f.kind = "stmts"
  BY <1>2, <1>3 DEF B
<1>4. CASE f.kind # "stmts"
  <2>1. f.left \in Nat /\ f.kind = "iter"
    BY <1>1, <1>4 DEF Frames
  <2>2. f.inside => f.left - 1 \in Nat
    BY <2>1 DEF Good
  <2>3. f.left * (Bound(c, f.gas, f.off, f.rem) + CostFor) \in Nat
    BY <1>2, <2>1, ProductType
  <2>4. f.inside => (f.left - 1) * (Bound(c, f.gas, f.off, f.rem) + CostFor) \in Nat
    BY <1>2, <2>2, ProductType
  <2>5. QED  BY <1>4, <2>3, <2>4 DEF B
<1>5. QED  BY <1>3, <1>4

LEMMA PopPays ==
    ASSUME IInv, NEW r, Paid(code, stack, spent, r), stack # <<>>, Pop, spent' = spent
    PROVE  Paid(code, stack', spent', r)
<1>1. PICK w \in [0 .. Len(stack) -> Nat] :
        /\ spent <= w[Len(stack)] /\ w[0] = r
        /\ \A k \in 1 .. Len(stack) : w[k] + B(code, stack[k]) <= w[k - 1]
  BY DEF Paid
<1>2. Len(stack) \in Nat \ {0} /\ stack \in Seq(Frames) /\ code \in Seq(Cells) /\ spent \in Nat
  BY TopIsGood DEF IInv, StackGood
<1>3. Len(stack) - 1 \in Nat /\ Len(stack) - 1 <= Len(stack)
  BY <1>2
<1>4. Len(stack') = Len(stack) - 1 /\ \A k \in 1 .. Len(stack) - 1 : stack'[k] = stack[k]
  BY <1>2, <1>3, PrefixProperties DEF Pop
<1> DEFINE v == [k \in 0 .. Len(stack) - 1 |-> w[k]]
<1>5. v \in [0 .. Len(stack') -> Nat] /\ \A k \in 0 .. Len(stack) - 1 : v[k] = w[k]
  BY <1>2, <1>4
<1> HIDE DEF v
<1>6. v[0] = r
  <2>1. 0 \in 0 .. Len(stack) - 1
    BY <1>2, <1>3
  <2>2. QED  BY <1>1, <1>5, <2>1
<1>7. spent' <= v[Len(stack')]
  <2>1. w[Len(stack)] + B(code, top) <= w[Len(stack) - 1]
    BY <1>1, <1>2 DEF top
  <2>2. B(code, top) \in Nat
    BY <1>2, TopIsGood, BType
  <2>3. w[Len(stack)] \in Nat /\ w[Len(stack) - 1] \in Nat
    <3>1. Len(stack) \in 0 .. Len(stack) /\ Len(stack) - 1 \in 0 .. Len(stack)
      BY <1>2
    <3>2. QED  BY <3>1
  <2>4. v[Len(stack')] = w[Len(stack) - 1]
    BY <1>2, <1>4, <1>5
  <2>5. QED  BY <1>1, <1>2, <2>1, <2>2, <2>3, <2>4
<1>8. ASSUME NEW k \in 1 .. Len(stack') PROVE v[k] + B(code, stack'[k]) <= v[k - 1]
  <2>1. /\ k \in 1 .. Len(stack) /\ k \in 1 .. Len(stack) - 1 /\ k \in 0 .. Len(stack) - 1
        /\ k - 1 \in 0 .. Len(stack) - 1
    BY <1>2, <1>4
  <2>2. w[k] + B(code, stack[k]) <= w[k - 1]
    BY <1>1, <2>1
  <2>3. QED  BY <1>4, <1>5, <2>1, <2>2
<1>9. QED  BY <1>5, <1>6, <1>7, <1>8 DEF Paid

LEMMA BecomePays ==
    ASSUME IInv, NEW r, Paid(code, stack, spent, r), stack # <<>>,
           NEW f, Good(code, f), Become(f), spent' \in Nat,
           spent' + B(code, f) <= spent + B(code, top)
    PROVE  Paid(code, stack', spent', r)
<1>1. PICK w \in [0 .. Len(stack) -> Nat] :
        /\ spent <= w[Len(stack)] /\ w[0] = r
        /\ \A k \in 1 .. Len(stack) : w[k] + B(code, stack[k]) <= w[k - 1]
  BY DEF Paid
<1> DEFINE n == Len(stack)
<1>2. n \in Nat \ {0} /\ stack \in Seq(Frames) /\ code \in Seq(Cells) /\ spent \in Nat /\ f \in Frames
  BY TopIsGood DEF IInv, StackGood, Good
<1>3. Len(stack') = n /\ \A k \in 1 .. n : stack'[k] = IF k = n THEN f ELSE stack[k]
  BY <1>2 DEF Become
<1> DEFINE v == [w EXCEPT ![n] = spent']
<1>4. v \in [0 .. Len(stack') -> Nat] /\ \A k \in 0 .. n : v[k] = IF k = n THEN spent' ELSE w[k]
  BY <1>2, <1>3
<1> HIDE DEF v
<1>5. v[0] = r /\ v[Len(stack')] = spent'
  BY <1>1, <1>2, <1>3, <1>4
<1>6. ASSUME NEW k \in 1 .. Len(stack') PROVE v[k] + B(code, stack'[k]) <= v[k - 1]
  <2>1. k \in 1 .. n /\ k \in 0 .. n /\ k - 1 \in 0 .. n /\ k - 1 # n
    BY <1>2, <1>3
  <2>2. w[k] + B(code, stack[k]) <= w[k - 1] /\ v[k - 1] = w[k - 1]
    BY <1>1, <1>4, <2>1
  <2>3. CASE k = n
    <3>1. w[n] + B(code, top) <= w[n - 1] /\ v[k] = spent' /\ stack'[k] = f
      BY <1>3, <1>4, <2>1, <2>2, <2>3 DEF top
    <3>2. B(code, top) \in Nat /\ B(code, f) \in Nat
      BY <1>2, TopIsGood, BType
    <3>3. w[n] \in Nat /\ w[n - 1] \in Nat
      BY <2>1, <2>3
    <3> HIDE DEF n
    <3>4. QED  BY <1>1, <1>2, <2>2, <2>3, <3>1, <3>2, <3>3 DEF n
  <2>4. CASE k # n
    BY <1>3, <1>4, <2>1, <2>2, <2>4
  <2>5. QED  BY <2>3, <2>4
<1>7. spent' <= v[Len(stack')]
  BY <1>5
<1>8. QED  BY <1>4, <1>5, <1>6, <1>7 DEF Paid

LEMMA ThusPaid ==
    \A a, s, x, y, z, b, l \in Nat : a + y + z <= s + b /\ s <= x /\ x + b <= l => a + y + z <= l
OBVIOUS

LEMMA CallPays ==
    ASSUME IInv, NEW r, Paid(code, stack, spent, r), stack # <<>>,
           NEW f, NEW g, Good(code, f), Good(code, g), Call(f, g), spent' \in Nat,
           spent' + B(code, f) + B(code, g) <= spent + B(code, top)
    PROVE  Paid(code, stack', spent', r)
<1>1. PICK w \in [0 .. Len(stack) -> Nat] :
        /\ spent <= w[Len(stack)] /\ w[0] = r
        /\ \A k \in 1 .. Len(stack) : w[k] + B(code, stack[k]) <= w[k - 1]
  BY DEF Paid
<1> DEFINE n == Len(stack)
           m == spent' + B(code, f)
<1>2. /\ n \in Nat \ {0} /\ stack \in Seq(Frames) /\ code \in Seq(Cells) /\ spent \in Nat
      /\ f \in Frames /\ g \in Frames
  BY TopIsGood DEF IInv, StackGood, Good
<1>3. B(code, top) \in Nat /\ B(code, f) \in Nat /\ B(code, g) \in Nat
  BY <1>2, TopIsGood, BType
<1>4. Len(stack') = n + 1
      /\ \A k \in 1 .. n + 1 : stack'[k] = IF k = n + 1 THEN f ELSE IF k = n THEN g ELSE stack[k]
  BY <1>2 DEF Call
<1>5. m \in Nat
  BY <1>3
<1> DEFINE v == [k \in 0 .. n + 1 |-> IF k = n + 1 THEN spent' ELSE IF k = n THEN m ELSE w[k]]
<1> HIDE DEF m
<1>6. v \in [0 .. Len(stack') -> Nat]
      /\ \A k \in 0 .. n + 1 : v[k] = IF k = n + 1 THEN spent' ELSE IF k = n THEN m ELSE w[k]
  BY <1>2, <1>4, <1>5
<1> HIDE DEF v
<1>7. v[0] = r /\ v[Len(stack')] = spent'
  BY <1>1, <1>2, <1>4, <1>6
<1>8. ASSUME NEW k \in 1 .. Len(stack') PROVE v[k] + B(code, stack'[k]) <= v[k - 1]
  <2>1. k \in 1 .. n + 1 /\ k \in 0 .. n + 1 /\ k - 1 \in 0 .. n + 1
    BY <1>2, <1>4
  <2>2. CASE k = n + 1
    <3>1. v[k] = spent' /\ v[k - 1] = m /\ stack'[k] = f
      BY <1>2, <1>4, <1>6, <2>1, <2>2
    <3>2. QED  BY <1>3, <3>1 DEF m
  <2>3. CASE k = n
    <3>1. v[k] = m /\ v[k - 1] = w[n - 1] /\ stack'[k] = g
      BY <1>2, <1>4, <1>6, <2>1, <2>3
    <3>2. w[n] + B(code, top) <= w[n - 1] /\ w[n] \in Nat /\ w[n - 1] \in Nat
      <4>1. n \in 1 .. n /\ n \in 0 .. n /\ n - 1 \in 0 .. n
        BY <1>2
      <4>2. w[n] + B(code, stack[n]) <= w[n - 1]
        BY <1>1, <4>1
      <4>3. QED  BY <4>1, <4>2 DEF top
    <3> HIDE DEF n
    <3>3. spent' + B(code, f) + B(code, g) <= w[n - 1]
      <4> DEFINE x == w[n]
                 y == B(code, f)
                 z == B(code, g)
                 b == B(code, top)
                 l == w[n - 1]
      <4>1. spent' + y + z <= spent + b /\ spent <= x /\ x + b <= l
        BY <1>1, <3>2 DEF n
      <4>2. /\ x \in Nat /\ y \in Nat /\ z \in Nat /\ b \in Nat /\ l \in Nat
            /\ spent \in Nat /\ spent' \in Nat
        BY <1>2, <1>3, <3>2
      <4> HIDE DEF x, y, z, b, l
      <4>3. spent' + y + z <= l
        BY <4>1, <4>2, ThusPaid, Zenon
      <4>4. QED  BY <4>3 DEF y, z, l
    <3>4. QED  BY <3>1, <3>3, Zenon DEF m
  <2>4. CASE k # n + 1 /\ k # n
    <3>1. k \in 1 .. n /\ k - 1 # n /\ k - 1 # n + 1
      BY <1>2, <2>1, <2>4
    <3>2. w[k] + B(code, stack[k]) <= w[k - 1]
      BY <1>1, <3>1
    <3>3. QED  BY <1>4, <1>6, <2>1, <2>4, <3>1, <3>2
  <2>5. QED  BY <2>2, <2>3, <2>4
<1>9. spent' <= v[Len(stack')]
  BY <1>7
<1>10. QED  BY <1>6, <1>7, <1>8, <1>9 DEF Paid

(* What has been spent is never more than r.                               *)
LEMMA PaidWithin ==
    ASSUME IInv, NEW r, Paid(code, stack, spent, r) PROVE spent <= r
<1>1. PICK w \in [0 .. Len(stack) -> Nat] :
        /\ spent <= w[Len(stack)] /\ w[0] = r
        /\ \A k \in 1 .. Len(stack) : w[k] + B(code, stack[k]) <= w[k - 1]
  BY DEF Paid
<1>2. Len(stack) \in Nat /\ code \in Seq(Cells) /\ spent \in Nat
      /\ \A k \in 1 .. Len(stack) : Good(code, stack[k])
  BY DEF IInv, StackGood
<1> DEFINE n == Len(stack)
           S == {k \in 0 .. n : w[k] <= r}
<1>3. w[0] \in Nat
  BY <1>2
<1>4. 0 \in S
  BY <1>1, <1>2, <1>3
<1>5. ASSUME NEW k \in 0 .. n, k < n, k \in S PROVE k + 1 \in S
  <2>1. k + 1 \in 1 .. n /\ k + 1 \in 0 .. n /\ (k + 1) - 1 = k
    BY <1>2, <1>5
  <2>2. w[k + 1] + B(code, stack[k + 1]) <= w[k]
    BY <1>1, <2>1
  <2>3. B(code, stack[k + 1]) \in Nat
    BY <1>2, <2>1, BType
  <2>4. w[k + 1] \in Nat /\ w[k] \in Nat /\ w[k] <= r /\ r \in Nat
    BY <1>1, <1>3, <1>5, <2>1
  <2>5. w[k + 1] <= r
    BY <2>2, <2>3, <2>4
  <2>6. QED  BY <2>1, <2>5
<1>6. 0 .. n \subseteq S
  <2> HIDE DEF S
  <2> QED  BY <1>2, <1>4, <1>5, BoundedInduction
<1>7. n \in 0 .. n /\ w[n] <= r /\ w[n] \in Nat
  BY <1>2, <1>6
<1>8. QED  BY <1>1, <1>2, <1>3, <1>7
-----------------------------------------------------------------------------
(* One lemma for each action: it spends no more than the bound it uses up. *)
PInv(r) == IInv /\ Paid(code, stack, spent, r)

LEMMA GasStep == ASSUME NEW g \in 0 .. Gas, g # 0 PROVE g - 1 \in 0 .. Gas /\ g \in 1 .. Gas
BY InterpAssumption

LEMMA GasTwice ==
    ASSUME NEW g \in 0 .. Gas, g > 1
    PROVE  g - 1 \in 1 .. Gas /\ (g - 1) - 1 = g - 2 /\ g - 2 \in 0 .. Gas
BY InterpAssumption

LEMMA StmtsReturnPays ==
    ASSUME NEW r, PInv(r), exec_stmts_return PROVE Paid(code, stack', spent', r)
BY PopPays DEF PInv, exec_stmts_return, Running

LEMMA ForReturnPays ==
    ASSUME NEW r, PInv(r), exec_for_return PROVE Paid(code, stack', spent', r)
BY PopPays DEF PInv, exec_for_return, Running

(* A statement that fits costs its own bound and that of the rest.         *)
LEMMA StatementPays ==
    ASSUME IInv, Running("stmts"), Fits(top)
    PROVE  B(code, top) = StatementCost(Cell(top.off), Charge(code, 0, top.gas - 1), top.off + 1)
                            + B(code, Rest(top))
<1> DEFINE t == Charge(code, 0, top.gas - 1)
           i == Cell(top.off)
<1>1. /\ top.kind = "stmts" /\ top.off \in Nat /\ top.rem \in Nat /\ top.gas \in 1 .. Gas
      /\ Len(code) \in Nat /\ code \in Seq(Cells) /\ top.off + 1 <= Len(code)
  BY StmtsOnTop, StatementFits
<1>2. i = code[top.off + 1] /\ i.len \in Nat
  BY <1>1, CellTypes DEF Cell
<1>3. Whole(code, top.off, top.rem)
  <2>1. top.rem >= 1 /\ 1 + i.len <= top.rem /\ i.len <= Len(code) - top.off - 1
    BY DEF Fits
  <2>2. top.off + 1 + i.len <= Len(code)
    <3> HIDE DEF i
    <3> QED  BY <1>1, <1>2, <2>1
  <2>3. QED  BY <1>1, <1>2, <2>1, <2>2 DEF Whole
<1>4. B(code, top) = scan_cost(code, t, top.off, top.rem, 0)
  BY <1>1, StmtsCharged DEF B, Bound
<1>5. scan_cost(code, t, top.off, top.rem, 0)
        = Word(StatementCost(code[top.off + 1], t, top.off + 1) + Rests(code, t, top.off, top.rem), 0)
  BY <1>1, <1>3, WholeCost
<1>6. B(code, Rest(top)) = Rests(code, t, top.off, top.rem)
  BY DEF B, Bound, Rest, Rests, Stmts, Cell
<1> HIDE DEF t
<1>7. QED  BY <1>2, <1>4, <1>5, <1>6 DEF Word, t

LEMMA LeafPays ==
    ASSUME NEW r, PInv(r), exec_leaf PROVE Paid(code, stack', spent', r)
<1> DEFINE i == Cell(top.off)
           k == Cost[i.op] + CostDispatch
<1>1. /\ IInv /\ Running("stmts") /\ Fits(top) /\ Become(Rest(top)) /\ stack # <<>>
      /\ Paid(code, stack, spent, r) /\ i.op \in LeafTags /\ spent' = spent + Cost[i.op] + CostDispatch
  BY DEF PInv, exec_leaf, Running
<1>2. Good(code, Rest(top)) /\ spent \in Nat /\ code \in Seq(Cells)
  BY <1>1, StatementFits DEF IInv
<1>3. B(code, Rest(top)) \in Nat
  BY <1>2, BType
<1>4. k \in Nat /\ Cost[i.op] \in Nat /\ CostDispatch \in Nat
  BY <1>1, InterpAssumption
<1>5. B(code, top) = k + B(code, Rest(top))
  <2>1. i.op \notin {"if_block", "for_block"}
    BY <1>1 DEF LeafTags, BoolTags, IntTags, CmpTags
  <2>2. StatementCost(i, Charge(code, 0, top.gas - 1), top.off + 1) = k
    BY <2>1 DEF StatementCost
  <2>3. QED  BY <1>1, <2>2, StatementPays
<1>6. spent' \in Nat /\ spent' = spent + k
  BY <1>1, <1>2, <1>4
<1> HIDE DEF k
<1>7. spent' + B(code, Rest(top)) <= spent + B(code, top)
  BY <1>2, <1>3, <1>4, <1>5, <1>6
<1>8. QED  BY <1>1, <1>2, <1>6, <1>7, BecomePays

LEMMA IfPays ==
    ASSUME NEW r, PInv(r), exec_if_block PROVE Paid(code, stack', spent', r)
<1> DEFINE i == Cell(top.off)
           h == top.off + 1
           t == Stmts(h, i.then, top.gas - 2)
           e == Stmts(h + i.then, i.els, top.gas - 2)
           u == Charge(code, 0, top.gas - 2)
           k == Charge(code, 0, top.gas - 1).if_block[h]
<1>1. /\ IInv /\ Running("stmts") /\ Fits(top) /\ stack # <<>>
      /\ Paid(code, stack, spent, r) /\ i.op = "if_block" /\ spent \in Nat
      /\ spent' = spent + IF IfRuns(i, top) THEN CostIf ELSE 0
      /\ \/ IfRuns(i, top) /\ Call(t, Rest(top))
         \/ IfRuns(i, top) /\ Call(e, Rest(top))
         \/ Become(Rest(top))
  BY DEF PInv, IInv, exec_if_block, Running
<1>2. /\ top.off \in Nat /\ top.gas \in 0 .. Gas /\ top.gas > 0 /\ Len(code) \in Nat
      /\ code \in Seq(Cells) /\ h \in 1 .. Len(code) /\ i = code[h] /\ h \in Nat
      /\ Good(code, Rest(top))
  BY <1>1, StatementFits DEF IInv, Cell
<1>3. i.then \in Nat /\ i.els \in Nat
  BY <1>1, <1>2, CellTypes
<1>4. B(code, Rest(top)) \in Nat
  BY <1>2, BType
<1>5. B(code, top) = k + B(code, Rest(top))
  <2>1. StatementCost(i, Charge(code, 0, top.gas - 1), h) = k
    BY <1>1 DEF StatementCost
  <2>2. QED  BY <1>1, <2>1, StatementPays
<1>6. k \in Nat
  <2>1. top.gas - 1 \in 0 .. Gas
    BY <1>2, InterpAssumption
  <2>2. Counted(code, Charge(code, 0, top.gas - 1))
    BY <1>2, <2>1, AllCounted
  <2>3. CellOf(code, h, "if_block")
    BY <1>1, <1>2 DEF CellOf
  <2>4. QED  BY <1>2, <2>2, <2>3 DEF Counted
<1>7. CASE IfRuns(i, top)
  <2>1. /\ top.gas > 1 /\ i.then <= Len(code) - h /\ i.els <= Len(code) - (h + i.then)
    BY <1>7 DEF IfRuns
  <2>2. /\ top.gas - 1 \in 1 .. Gas /\ (top.gas - 1) - 1 = top.gas - 2 /\ top.gas - 2 \in 0 .. Gas
    BY <1>2, <2>1, GasTwice
  <2>3. /\ h + i.then \in Nat /\ h + i.then <= Len(code) /\ h + i.then + i.els <= Len(code)
        /\ ~(h + i.then + i.els > Len(code))
    <3> HIDE DEF h, i
    <3> QED  BY <1>2, <1>3, <2>1
  <2>4. k = wcet_if_block(code, u, h)
    BY <1>2, <2>2, IfCharged
  <2>5. k = IfCost(u.stmts[h][i.then], u.stmts[h + i.then][i.els])
    BY <1>2, <2>3, <2>4 DEF wcet_if_block
  <2>6. B(code, t) = u.stmts[h][i.then] /\ B(code, e) = u.stmts[h + i.then][i.els]
    BY DEF B, Bound, Stmts
  <2>7. Good(code, t) /\ Good(code, e)
    <3> HIDE DEF h, i
    <3> QED  BY <1>2, <1>3, <2>2, <2>3, StmtsGood
  <2>8. B(code, t) \in Nat /\ B(code, e) \in Nat
    BY <1>2, <2>7, BType
  <2> HIDE DEF t, e, u, k, i, h
  <2>9. CostIf + B(code, t) <= k /\ CostIf + B(code, e) <= k
    BY <2>5, <2>6, <2>8, InterpAssumption DEF IfCost, Larger
  <2>10. spent' = spent + CostIf /\ CostIf \in Nat /\ spent' \in Nat
    BY <1>1, <1>7, InterpAssumption
  <2>11. /\ spent' + B(code, t) + B(code, Rest(top)) <= spent + B(code, top)
         /\ spent' + B(code, e) + B(code, Rest(top)) <= spent + B(code, top)
         /\ spent' + B(code, Rest(top)) <= spent + B(code, top)
    BY <1>1, <1>4, <1>5, <1>6, <2>8, <2>9, <2>10
  <2>12. CASE Call(t, Rest(top))
    BY <1>1, <1>2, <2>7, <2>10, <2>11, <2>12, CallPays
  <2>13. CASE Call(e, Rest(top))
    BY <1>1, <1>2, <2>7, <2>10, <2>11, <2>13, CallPays
  <2>14. CASE Become(Rest(top))
    BY <1>1, <1>2, <2>10, <2>11, <2>14, BecomePays
  <2>15. QED  BY <1>1, <2>12, <2>13, <2>14
<1>8. CASE ~IfRuns(i, top)
  <2>1. Become(Rest(top)) /\ spent' = spent
    BY <1>1, <1>8
  <2> HIDE DEF k
  <2>2. spent' + B(code, Rest(top)) <= spent + B(code, top)
    BY <1>1, <1>4, <1>5, <1>6, <2>1
  <2>3. QED  BY <1>1, <1>2, <2>1, <2>2, BecomePays
<1>9. QED  BY <1>7, <1>8

LEMMA ForPays ==
    ASSUME NEW r, PInv(r), exec_for_block PROVE Paid(code, stack', spent', r)
<1> DEFINE i == Cell(top.off)
           h == top.off + 1
           f == Iter(h, i.body, top.gas - 2, i.idx, Iters(i), FALSE)
           u == Charge(code, 0, top.gas - 2)
           k == Charge(code, 0, top.gas - 1).for_block[h]
<1>1. /\ IInv /\ Running("stmts") /\ Fits(top) /\ stack # <<>>
      /\ Paid(code, stack, spent, r) /\ i.op = "for_block" /\ spent \in Nat
      /\ \/ ForRuns(i, top) /\ spent' = spent + CostFor /\ Call(f, Rest(top))
         \/ spent' = spent /\ Become(Rest(top))
  BY DEF PInv, IInv, exec_for_block, Running
<1>2. /\ top.off \in Nat /\ top.gas \in 0 .. Gas /\ top.gas > 0 /\ Len(code) \in Nat
      /\ code \in Seq(Cells) /\ h \in 1 .. Len(code) /\ i = code[h] /\ h \in Nat
      /\ Good(code, Rest(top))
  BY <1>1, StatementFits DEF IInv, Cell
<1>3. i.body \in Nat /\ Iters(i) \in Nat
  BY <1>1, <1>2, CellTypes
<1>4. B(code, Rest(top)) \in Nat
  BY <1>2, BType
<1>5. B(code, top) = k + B(code, Rest(top))
  <2>1. StatementCost(i, Charge(code, 0, top.gas - 1), h) = k
    BY <1>1 DEF StatementCost
  <2>2. QED  BY <1>1, <2>1, StatementPays
<1>6. k \in Nat
  <2>1. top.gas - 1 \in 0 .. Gas
    BY <1>2, InterpAssumption
  <2>2. Counted(code, Charge(code, 0, top.gas - 1))
    BY <1>2, <2>1, AllCounted
  <2>3. CellOf(code, h, "for_block")
    BY <1>1, <1>2 DEF CellOf
  <2>4. QED  BY <1>2, <2>2, <2>3 DEF Counted
<1>7. CASE ForRuns(i, top) /\ spent' = spent + CostFor /\ Call(f, Rest(top))
  <2>1. top.gas > 1 /\ i.body <= Len(code) - h /\ i.idx \in IntSlots
    BY <1>7 DEF ForRuns
  <2>2. /\ top.gas - 1 \in 1 .. Gas /\ (top.gas - 1) - 1 = top.gas - 2 /\ top.gas - 2 \in 0 .. Gas
    BY <1>2, <2>1, GasTwice
  <2>3. h + i.body <= Len(code) /\ ~(h + i.body > Len(code))
    <3> HIDE DEF h, i
    <3> QED  BY <1>2, <1>3, <2>1
  <2>4. k = wcet_for_block(code, u, h)
    BY <1>2, <2>2, ForCharged
  <2>5. k = ForCost(i, u.stmts[h][i.body])
    BY <1>2, <2>3, <2>4 DEF wcet_for_block
  <2>6. B(code, f) = Iters(i) * (u.stmts[h][i.body] + CostFor)
    BY DEF B, Bound, Iter
  <2>7. Good(code, f)
    <3> HIDE DEF h
    <3> QED  BY <1>2, <1>3, <2>1, <2>2, <2>3, IterGood
  <2>8. B(code, f) \in Nat
    BY <1>2, <2>7, BType
  <2>9. k = CostFor + B(code, f)
    BY <2>5, <2>6 DEF ForCost
  <2>10. CostFor \in Nat /\ spent' = spent + CostFor /\ spent' \in Nat
    BY <1>1, <1>7, InterpAssumption
  <2> HIDE DEF f, u, k, i, h
  <2>11. spent' + B(code, f) + B(code, Rest(top)) <= spent + B(code, top)
    BY <1>1, <1>4, <1>5, <2>8, <2>9, <2>10
  <2>12. QED  BY <1>1, <1>2, <1>7, <2>7, <2>10, <2>11, CallPays
<1>8. CASE spent' = spent /\ Become(Rest(top))
  <2> HIDE DEF k
  <2>1. spent' + B(code, Rest(top)) <= spent + B(code, top)
    BY <1>1, <1>4, <1>5, <1>6, <1>8
  <2>2. QED  BY <1>1, <1>2, <1>8, <2>1, BecomePays
<1>9. QED  BY <1>1, <1>7, <1>8

LEMMA ForBodyPays ==
    ASSUME NEW r, PInv(r), exec_for_body PROVE Paid(code, stack', spent', r)
<1> DEFINE f == Stmts(top.off, top.rem, top.gas - 1)
           g == [top EXCEPT !.inside = TRUE]
           x == Bound(code, top.gas, top.off, top.rem)
<1>1. /\ IInv /\ Running("iter") /\ ~top.inside /\ top.gas # 0 /\ top.left # 0 /\ Call(f, g)
      /\ Paid(code, stack, spent, r) /\ spent' = spent + CostFor /\ spent \in Nat
      /\ code \in Seq(Cells) /\ top.kind = "iter"
  BY DEF PInv, exec_for_body, IInv, Running
<1>2. /\ stack # <<>> /\ Good(code, top) /\ top.off \in Nat /\ top.rem \in Nat /\ top.gas \in 0 .. Gas
      /\ top.idx \in IntSlots /\ top.left \in Nat /\ top.off + top.rem <= Len(code) /\ top \in Frames
  BY <1>1, IterOnTop DEF Good
<1>3. top.gas - 1 \in 0 .. Gas /\ top.gas \in 1 .. Gas
  BY <1>1, <1>2, GasStep
<1>4. Good(code, f) /\ B(code, f) = Bound(code, top.gas - 1, top.off, top.rem)
  BY <1>2, <1>3, StmtsGood DEF Stmts, B
<1>5. /\ g \in Frames /\ g.off = top.off /\ g.rem = top.rem /\ g.left = top.left /\ g.gas = top.gas
      /\ g.kind = "iter" /\ g.inside = TRUE
  BY <1>1, <1>2 DEF Frames
<1>6. Good(code, g)
  BY <1>1, <1>2, <1>3, <1>5 DEF Good
<1>7. x \in Nat /\ B(code, f) \in Nat /\ B(code, f) <= x /\ CostFor \in Nat
  <2>1. x \in Nat
    BY <1>1, <1>2, BoundType
  <2>2. B(code, f) \in Nat
    BY <1>1, <1>2, <1>3, <1>4, BoundType
  <2>3. B(code, f) <= x
    BY <1>1, <1>2, <1>3, <1>4, BoundGrows
  <2>4. QED  BY <2>1, <2>2, <2>3, InterpAssumption
<1>8. B(code, g) = (top.left - 1) * (x + CostFor) /\ B(code, top) = top.left * (x + CostFor)
  BY <1>1, <1>5 DEF B
<1> HIDE DEF f, g, x
<1>9. top.left * (x + CostFor) = (top.left - 1) * (x + CostFor) + (x + CostFor)
  <2>1. x + CostFor \in Nat
    BY <1>7
  <2>2. QED  BY <1>1, <1>2, <2>1, ProductStep
<1>10. B(code, g) \in Nat
  BY <1>1, <1>6, BType
<1>11. spent' \in Nat /\ spent' + B(code, f) + B(code, g) <= spent + B(code, top)
  <2>1. B(code, top) = B(code, g) + (x + CostFor)
    BY <1>8, <1>9
  <2>2. QED  BY <1>1, <1>7, <1>10, <2>1
<1>12. QED  BY <1>1, <1>2, <1>4, <1>6, <1>11, CallPays

LEMMA ForNextPays ==
    ASSUME NEW r, PInv(r), exec_for_next PROVE Paid(code, stack', spent', r)
<1> DEFINE f == Iter(top.off, top.rem, top.gas - 1, top.idx, top.left - 1, FALSE)
           x == Bound(code, top.gas, top.off, top.rem)
           y == Bound(code, top.gas - 1, top.off, top.rem)
<1>1. /\ IInv /\ Running("iter") /\ top.inside /\ Become(f) /\ Paid(code, stack, spent, r)
      /\ spent' = spent /\ spent \in Nat /\ code \in Seq(Cells) /\ top.kind = "iter"
  BY DEF PInv, exec_for_next, IInv, Running
<1>2. /\ stack # <<>> /\ top.off \in Nat /\ top.rem \in Nat /\ top.idx \in IntSlots
      /\ top.gas \in 0 .. Gas /\ top.gas > 0 /\ top.left \in Nat /\ top.left > 0
      /\ top.off + top.rem <= Len(code)
  BY <1>1, IterOnTop
<1>3. top.gas - 1 \in 0 .. Gas /\ top.gas \in 1 .. Gas /\ top.left - 1 \in Nat
  BY <1>2, InterpAssumption
<1>4. Good(code, f)
  BY <1>2, <1>3, IterGood
<1>5. x \in Nat /\ y \in Nat /\ y <= x /\ CostFor \in Nat
  BY <1>1, <1>2, <1>3, BoundGrows, BoundType, InterpAssumption
<1>6. B(code, f) = (top.left - 1) * (y + CostFor) /\ B(code, top) = (top.left - 1) * (x + CostFor)
  BY <1>1 DEF B, Iter
<1> HIDE DEF f, x, y
<1>7. (top.left - 1) * (y + CostFor) <= (top.left - 1) * (x + CostFor)
  <2>1. y + CostFor \in Nat /\ x + CostFor \in Nat /\ y + CostFor <= x + CostFor
    BY <1>5
  <2>2. QED  BY <1>3, <2>1, ProductGrows
<1>8. /\ (top.left - 1) * (y + CostFor) \in Nat /\ (top.left - 1) * (x + CostFor) \in Nat
  <2>1. y + CostFor \in Nat /\ x + CostFor \in Nat
    BY <1>5
  <2>2. QED  BY <1>3, <2>1, ProductType
<1>9. spent' + B(code, f) <= spent + B(code, top)
  BY <1>1, <1>6, <1>7, <1>8
<1>10. QED  BY <1>1, <1>2, <1>4, <1>9, BecomePays

LEMMA StepPays ==
    ASSUME NEW r, PInv(r), Step PROVE Paid(code, stack', spent', r)
BY StmtsReturnPays, LeafPays, IfPays, ForPays, ForReturnPays, ForBodyPays, ForNextPays DEF Step

LEMMA StartPays ==
    ASSUME NEW c \in Seq(Cells), NEW off \in Nat, NEW rem \in Nat
    PROVE  Paid(c, <<Stmts(off, rem, Gas)>>, 0, Bound(c, Gas, off, rem))
<1> DEFINE r == Bound(c, Gas, off, rem)
           f == Stmts(off, rem, Gas)
           s == <<f>>
<1>1. Gas \in 0 .. Gas
  BY InterpAssumption
<1>2. r \in Nat
  BY <1>1, BoundType
<1>3. B(c, f) = r
  BY DEF B, Stmts
<1> HIDE DEF r, f
<1> DEFINE w == [k \in 0 .. 1 |-> IF k = 1 THEN 0 ELSE r]
<1>4. Len(s) = 1 /\ s[1] = f
  OBVIOUS
<1> HIDE DEF s
<1>5. w \in [0 .. Len(s) -> Nat] /\ 0 <= w[Len(s)] /\ w[0] = r
  BY <1>2, <1>4
<1>6. \A k \in 1 .. Len(s) : w[k] + B(c, s[k]) <= w[k - 1]
  BY <1>2, <1>3, <1>4
<1> HIDE DEF w
<1>7. Paid(c, s, 0, r)
  BY <1>5, <1>6 DEF Paid
<1>8. QED  BY <1>7 DEF r, s, f

-----------------------------------------------------------------------------
(* A bound that the word can hold is computed without wrapping around: the *)
(* bounds it is made of are no larger.                                     *)
Agree(c, t, u) ==
    /\ \A off, rem \in Nat : t.stmts[off][rem] < WordMod => u.stmts[off][rem] = t.stmts[off][rem]
    /\ \A off \in Nat : CellOf(c, off, "if_block") /\ t.if_block[off] < WordMod => u.if_block[off] = t.if_block[off]
    /\ \A off \in Nat : CellOf(c, off, "for_block") /\ t.for_block[off] < WordMod => u.for_block[off] = t.for_block[off]

LEMMA Remainder == ASSUME NEW a \in Nat, NEW m \in Nat, a < m PROVE a % m = a
OBVIOUS

LEMMA PlusCostFor == CostFor \in Nat /\ \A n \in Nat : n + CostFor \in Nat
<1>1. CostFor \in Nat
  BY InterpAssumption
<1>2. QED  BY <1>1

LEMMA ProductHolds == ASSUME NEW n \in Nat, n # 0, NEW a \in Nat PROVE a <= n * a
<1>1. n * a = (n - 1) * a + a /\ (n - 1) * a \in Nat
  BY ProductStep, ProductType
<1>2. QED  BY <1>1

LEMMA StatementAgrees ==
    ASSUME NEW c \in Seq(Cells), NEW t, NEW u, Agree(c, t, u), NEW k \in 1 .. Len(c),
           StatementCost(c[k], t, k) < WordMod
    PROVE  StatementCost(c[k], u, k) = StatementCost(c[k], t, k)
<1>1. k \in Nat
  OBVIOUS
<1>2. CASE c[k].op = "if_block"
  <2>1. StatementCost(c[k], t, k) = t.if_block[k] /\ StatementCost(c[k], u, k) = u.if_block[k]
    BY <1>2 DEF StatementCost
  <2>2. QED  BY <1>1, <1>2, <2>1 DEF Agree, CellOf
<1>3. CASE c[k].op = "for_block"
  <2>1. StatementCost(c[k], t, k) = t.for_block[k] /\ StatementCost(c[k], u, k) = u.for_block[k]
    BY <1>3 DEF StatementCost
  <2>2. QED  BY <1>1, <1>3, <2>1 DEF Agree, CellOf
<1>4. CASE c[k].op \notin {"if_block", "for_block"}
  BY <1>4 DEF StatementCost
<1>5. QED  BY <1>2, <1>3, <1>4

LEMMA OneMoreAgrees ==
    ASSUME NEW c \in Seq(Cells), NEW t, NEW u, Counted(c, t), Counted(c, u), Agree(c, t, u)
    PROVE  /\ \A off, rem \in Nat : scan_cost(c, t, off, rem, 0) < WordMod =>
                 scan_cost(c, u, off, rem, WordMod) = scan_cost(c, t, off, rem, 0)
           /\ \A off \in Nat : CellOf(c, off, "if_block") /\ wcet_if_block(c, t, off) < WordMod =>
                 wcet_if_block(c, u, off) = wcet_if_block(c, t, off)
           /\ \A off \in Nat : CellOf(c, off, "for_block") /\ wcet_for_block(c, t, off) < WordMod =>
                 wcet_for_block(c, u, off) = wcet_for_block(c, t, off)
<1>1. /\ \A o, r \in Nat : t.stmts[o][r] < WordMod => u.stmts[o][r] = t.stmts[o][r]
      /\ \A o, r \in Nat : t.stmts[o][r] \in Nat
      /\ \A o, r \in Nat : u.stmts[o][r] \in Nat
      /\ WordMod \in Nat /\ WordMod # 0
  BY WcetAssumption DEF Agree, Counted
<1>2. ASSUME NEW off \in Nat, NEW rem \in Nat, scan_cost(c, t, off, rem, 0) < WordMod
      PROVE  scan_cost(c, u, off, rem, WordMod) = scan_cost(c, t, off, rem, 0)
  <2> DEFINE i == c[off + 1]
             a == StatementCost(i, t, off + 1)
             b == StatementCost(i, u, off + 1)
             x == Rests(c, t, off, rem)
             y == Rests(c, u, off, rem)
  <2>1. CASE Whole(c, off, rem)
    <3>1. /\ off + 1 \in 1 .. Len(c) /\ off + 1 + i.len \in Nat /\ rem - (1 + i.len) \in Nat
          /\ scan_cost(c, t, off, rem, 0) = Word(a + x, 0)
          /\ scan_cost(c, u, off, rem, WordMod) = Word(b + y, WordMod)
      <4>1. /\ off + 1 \in 1 .. Len(c) /\ off + 1 + i.len \in Nat /\ rem - (1 + i.len) \in Nat
            /\ scan_cost(c, t, off, rem, 0) = Word(a + x, 0)
        BY <2>1, WholeCost
      <4>2. scan_cost(c, u, off, rem, WordMod) = Word(b + y, WordMod)
        BY <2>1, WholeCost
      <4>3. QED  BY ONLY <4>1, <4>2
    <3>2. a \in Nat
      BY <3>1, StatementCounted
    <3>3. x \in Nat
      BY <1>1, <3>1 DEF Rests
    <3>4. Word(a + x, 0) = a + x
      BY DEF Word
    <3>5. a < WordMod /\ x < WordMod
      <4> HIDE DEF a, x
      <4> QED  BY <1>1, <1>2, <3>1, <3>2, <3>3, <3>4
    <3>6. b = a
      BY <3>1, <3>5, StatementAgrees
    <3>7. y = x
      BY <1>1, <3>1, <3>5 DEF Rests
    <3> HIDE DEF a, b, x, y
    <3>8. (a + x) % WordMod = a + x
      <4>1. a + x \in Nat /\ a + x < WordMod
        BY <1>2, <3>1, <3>2, <3>3, <3>4
      <4>2. QED  BY <1>1, <4>1, Remainder
    <3>9. QED  BY <1>1, <3>1, <3>4, <3>6, <3>7, <3>8 DEF Word
  <2>2. CASE ~Whole(c, off, rem)
    <3>1. scan_cost(c, t, off, rem, 0) = 0
      BY <2>2, PartCost
    <3>2. scan_cost(c, u, off, rem, WordMod) = 0
      BY <2>2, PartCost
    <3>3. QED  BY <3>1, <3>2
  <2>3. QED  BY <2>1, <2>2
<1>3. ASSUME NEW off \in Nat, CellOf(c, off, "if_block"), wcet_if_block(c, t, off) < WordMod
      PROVE  wcet_if_block(c, u, off) = wcet_if_block(c, t, off)
  <2> DEFINE i == c[off]
             a == t.stmts[off][i.then]
             b == t.stmts[off + i.then][i.els]
  <2>1. i.then \in Nat /\ i.els \in Nat /\ off + i.then \in Nat
    BY <1>3, CellTypes DEF CellOf
  <2>2. a \in Nat /\ b \in Nat
    BY <1>1, <2>1
  <2>3. CASE off + i.then + i.els > Len(c)
    BY <2>3 DEF wcet_if_block
  <2>4. CASE ~(off + i.then + i.els > Len(c))
    <3>1. wcet_if_block(c, t, off) = IfCost(a, b)
      BY <2>4 DEF wcet_if_block
    <3>2. a < WordMod /\ b < WordMod
      <4> HIDE DEF a, b
      <4> QED  BY <1>1, <1>3, <2>2, <3>1, InterpAssumption DEF IfCost, Larger
    <3>3. u.stmts[off][i.then] = a /\ u.stmts[off + i.then][i.els] = b
      BY <1>1, <2>1, <3>2
    <3>4. wcet_if_block(c, u, off) = IfCost(u.stmts[off][i.then], u.stmts[off + i.then][i.els])
      BY <2>4 DEF wcet_if_block
    <3>5. QED  BY <3>1, <3>3, <3>4
  <2>5. QED  BY <2>3, <2>4
<1>4. ASSUME NEW off \in Nat, CellOf(c, off, "for_block"), wcet_for_block(c, t, off) < WordMod
      PROVE  wcet_for_block(c, u, off) = wcet_for_block(c, t, off)
  <2> DEFINE i == c[off]
             a == t.stmts[off][i.body]
             b == u.stmts[off][i.body]
  <2>1. i.body \in Nat /\ Iters(i) \in Nat
    BY <1>4, CellTypes DEF CellOf
  <2>2. a \in Nat
    BY <1>1, <2>1
  <2>3. CASE off + i.body > Len(c)
    BY <2>3 DEF wcet_for_block
  <2>4. CASE ~(off + i.body > Len(c))
    <3>1. wcet_for_block(c, t, off) = ForCost(i, a) /\ wcet_for_block(c, u, off) = ForCost(i, b)
      BY <2>4 DEF wcet_for_block
    <3>2. CASE Iters(i) # 0
      <4>1. a + CostFor \in Nat /\ CostFor \in Nat
        BY <2>2, PlusCostFor
      <4>2. a + CostFor <= Iters(i) * (a + CostFor) /\ Iters(i) * (a + CostFor) \in Nat
        BY <2>1, <3>2, <4>1, ProductHolds, ProductType
      <4>3. a < WordMod
        <5> HIDE DEF a, i
        <5> QED  BY <1>1, <1>4, <2>2, <3>1, <4>1, <4>2 DEF ForCost
      <4>4. b = a
        BY <1>1, <2>1, <4>3
      <4>5. QED  BY <3>1, <4>4
    <3>3. CASE Iters(i) = 0
      <4>1. a + CostFor \in Nat /\ b + CostFor \in Nat
        BY <1>1, <2>1, PlusCostFor
      <4>2. 0 * (a + CostFor) = 0 /\ 0 * (b + CostFor) = 0
        <5> HIDE DEF a, b
        <5> QED  BY <4>1
      <4>3. QED  BY <3>1, <3>3, <4>2 DEF ForCost
    <3>4. QED  BY <3>2, <3>3
  <2>5. QED  BY <2>3, <2>4
<1>5. QED  BY <1>2, <1>3, <1>4

LEMMA AllAgree ==
    ASSUME NEW c \in Seq(Cells)
    PROVE  \A gas \in 0 .. Gas : Agree(c, Charge(c, 0, gas), Charge(c, WordMod, gas))
<1> DEFINE T(k) == Charge(c, 0, k)
           U(k) == Charge(c, WordMod, k)
           S == {k \in 0 .. Gas : Agree(c, T(k), U(k))}
<1>1. 0 \in S
  <2>1. \A o, r \in Nat : T(0).stmts[o][r] = 0 /\ T(0).if_block[o] = 0 /\ T(0).for_block[o] = 0
    BY NothingCharged
  <2>2. \A o, r \in Nat : U(0).stmts[o][r] = 0 /\ U(0).if_block[o] = 0 /\ U(0).for_block[o] = 0
    BY NothingCharged
  <2> HIDE DEF T, U
  <2>3. QED  BY <2>1, <2>2, InterpAssumption DEF Agree
<1>2. ASSUME NEW k \in 0 .. Gas, k < Gas, k \in S PROVE k + 1 \in S
  <2>1. k + 1 \in 1 .. Gas /\ k + 1 \in 0 .. Gas /\ (k + 1) - 1 = k
    BY <1>2, InterpAssumption
  <2>2. Counted(c, T(k)) /\ Counted(c, U(k)) /\ Agree(c, T(k), U(k))
    BY <1>2, AllCounted, WcetAssumption
  <2>3. /\ \A off, rem \in Nat : T(k + 1).stmts[off][rem] = scan_cost(c, T(k), off, rem, 0)
        /\ \A off \in Nat : T(k + 1).if_block[off] = wcet_if_block(c, T(k), off)
        /\ \A off \in Nat : T(k + 1).for_block[off] = wcet_for_block(c, T(k), off)
    <3>1. \A off, rem \in Nat : T(k + 1).stmts[off][rem] = scan_cost(c, T(k), off, rem, 0)
      BY <2>1, StmtsCharged
    <3>2. \A off \in Nat : T(k + 1).if_block[off] = wcet_if_block(c, T(k), off)
      BY <2>1, IfCharged
    <3>3. \A off \in Nat : T(k + 1).for_block[off] = wcet_for_block(c, T(k), off)
      BY <2>1, ForCharged
    <3>4. QED  BY <3>1, <3>2, <3>3
  <2>4. /\ \A off, rem \in Nat : U(k + 1).stmts[off][rem] = scan_cost(c, U(k), off, rem, WordMod)
        /\ \A off \in Nat : U(k + 1).if_block[off] = wcet_if_block(c, U(k), off)
        /\ \A off \in Nat : U(k + 1).for_block[off] = wcet_for_block(c, U(k), off)
    BY <2>1, StmtsCharged, IfCharged, ForCharged
  <2> HIDE DEF T, U
  <2>5. /\ \A off, rem \in Nat : scan_cost(c, T(k), off, rem, 0) < WordMod =>
              scan_cost(c, U(k), off, rem, WordMod) = scan_cost(c, T(k), off, rem, 0)
        /\ \A off \in Nat : CellOf(c, off, "if_block") /\ wcet_if_block(c, T(k), off) < WordMod =>
              wcet_if_block(c, U(k), off) = wcet_if_block(c, T(k), off)
        /\ \A off \in Nat : CellOf(c, off, "for_block") /\ wcet_for_block(c, T(k), off) < WordMod =>
              wcet_for_block(c, U(k), off) = wcet_for_block(c, T(k), off)
    BY <2>2, OneMoreAgrees
  <2>6. Agree(c, T(k + 1), U(k + 1))
    BY <2>3, <2>4, <2>5 DEF Agree
  <2>7. QED  BY <2>1, <2>6
<1>3. 0 .. Gas \subseteq S
  <2> HIDE DEF S
  <2> QED  BY <1>1, <1>2, BoundedInduction, InterpAssumption
<1>4. QED  BY <1>3

(* So the load computes the bound of every body whose bound a word holds.  *)
LEMMA WordHoldsBound ==
    ASSUME NEW c \in Seq(Cells), NEW off \in Nat, NEW rem \in Nat, ExactWcet(c, off, rem) < WordMod
    PROVE  wcet_stmts(c, off, rem) = Bound(c, Gas, off, rem)
<1>1. Agree(c, Charge(c, 0, Gas), Charge(c, WordMod, Gas))
  BY AllAgree, InterpAssumption
<1>2. ExactWcet(c, off, rem) = Charge(c, 0, Gas).stmts[off][rem]
      /\ wcet_stmts(c, off, rem) = Charge(c, WordMod, Gas).stmts[off][rem]
  BY DEF ExactWcet, wcet_stmts, Charge
<1>3. QED  BY <1>1, <1>2 DEF Agree, Bound
=============================================================================
