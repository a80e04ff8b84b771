----------------------------- MODULE IlAnalysis -----------------------------
(***************************************************************************)
(* The semantic checks of an Instruction List, stage3: who may follow      *)
(* whom, constant folding, and the three passes that give every            *)
(* instruction a data type.                                                *)
(*                                                                         *)
(* A list c is a sequence of instructions [op, arg, body, to]: an operator *)
(* with an operand or a parenthesised list, or a jump to the label at to.  *)
(* "EMPTY" is a label on a line of its own.  A node <<i, 0>> is a line,    *)
(* <<i, j>> the j-th instruction in its parentheses.  REALs, times, SAFE   *)
(* types, functions and parentheses inside parentheses are left out.       *)
(***************************************************************************)
EXTENDS Integers, Sequences, SequencesExt

-----------------------------------------------------------------------------
(* Arithmetic on constants (constant_folding.cc).  A value is kept as a    *)
(* BOOL, a signed and an unsigned integer at once, each of them valid, out *)
(* of range, not constant or undefined (absyntax.hh).                      *)
CONSTANT Top    \* 2^63 in the code: the signed integers are -Top .. Top - 1
ASSUME TopAssumption == Top \in Nat \ {0}

Int64Min == -Top
Int64Max == Top - 1
Uint64Max == 2 * Top - 1
Int64 == Int64Min .. Int64Max
Uint64 == 0 .. Uint64Max

Valid(n) == [is |-> "valid", n |-> n]
Overflow == [is |-> "overflow", n |-> 0]
Nonconst == [is |-> "nonconst", n |-> 0]
Undefined == [is |-> "undefined", n |-> 0]
IsValid(c) == c.is = "valid"
IsZero(c) == c = Valid(0)

NoValues == [bool |-> Undefined, int |-> Undefined, uint |-> Undefined]

(* The quotient of C, rounded towards zero, and its remainder.             *)
Quot(a, b) == LET Abs(n) == IF n < 0 THEN -n ELSE n
                  q == Abs(a) \div Abs(b)
              IN  IF (a < 0) = (b < 0) THEN q ELSE -q
Rem(a, b) == a - b * Quot(a, b)

(* The tests, made before the operation, of whether its result overflows.  *)
uint_sum_overflow(a, b) == Uint64Max - a < b
uint_sub_overflow(a, b) == b > a
uint_mul_overflow(a, b) == a # 0 /\ Quot(Uint64Max, a) < b
uint_neg_overflow(a) == a # 0
int_sum_overflow(a, b) == \/ b > 0 /\ a > Int64Max - b
                          \/ b < 0 /\ a < Int64Min - b
int_sub_overflow(a, b) == \/ b > 0 /\ a < Int64Min + b
                          \/ b < 0 /\ a > Int64Max + b
int_mul_overflow(a, b) == \/ a > 0 /\ b > 0 /\ a > Quot(Int64Max, b)
                          \/ a > 0 /\ b <= 0 /\ b < Quot(Int64Min, a)
                          \/ a <= 0 /\ b > 0 /\ a < Quot(Int64Min, b)
                          \/ a < 0 /\ b <= 0 /\ b < Quot(Int64Max, a)
int_div_overflow(a, b) == b = 0 \/ (a = Int64Min /\ b = -1)
int_mod_overflow(a, b) == a = Int64Min /\ b = -1
int_neg_overflow(a) == a = Int64Min

-----------------------------------------------------------------------------
Checked(overflows, n) == IF overflows THEN Overflow ELSE Valid(n)

(* DO_UNARY_OPER and DO_BINARY_OPER: res is looked at for valid operands.  *)
Unary(a, res) == IF IsValid(a) THEN res ELSE a
Binary(a, b, res) ==
    IF IsValid(a) /\ IsValid(b) THEN res
    ELSE IF Overflow \in {a, b} THEN Overflow
    ELSE IF Nonconst \in {a, b} THEN Nonconst
    ELSE Undefined

handle_neg(x) ==
    [NoValues EXCEPT !.uint = Unary(x.uint, Checked(uint_neg_overflow(x.uint.n), 0)),
                     !.int = Unary(x.int, Checked(int_neg_overflow(x.int.n), -x.int.n))]

handle_not(x) ==
    [NoValues EXCEPT !.bool = Unary(x.bool, Valid(1 - x.bool.n)),
                     !.uint = Unary(x.uint, Valid(Uint64Max - x.uint.n))]

handle_add(x, y) ==
    [NoValues EXCEPT
       !.uint = Binary(x.uint, y.uint, Checked(uint_sum_overflow(x.uint.n, y.uint.n), x.uint.n + y.uint.n)),
       !.int = Binary(x.int, y.int, Checked(int_sum_overflow(x.int.n, y.int.n), x.int.n + y.int.n))]

handle_sub(x, y) ==
    [NoValues EXCEPT
       !.uint = Binary(x.uint, y.uint, Checked(uint_sub_overflow(x.uint.n, y.uint.n), x.uint.n - y.uint.n)),
       !.int = Binary(x.int, y.int, Checked(int_sub_overflow(x.int.n, y.int.n), x.int.n - y.int.n))]

handle_mul(x, y) ==
    [NoValues EXCEPT
       !.uint = Binary(x.uint, y.uint, Checked(uint_mul_overflow(x.uint.n, y.uint.n), x.uint.n * y.uint.n)),
       !.int = Binary(x.int, y.int, Checked(int_mul_overflow(x.int.n, y.int.n), x.int.n * y.int.n))]

handle_div(x, y) ==
    [NoValues EXCEPT
       !.uint = IF IsZero(y.uint) THEN Overflow
                ELSE Binary(x.uint, y.uint, Valid(Quot(x.uint.n, y.uint.n))),
       !.int = IF IsZero(y.int) THEN Overflow
               ELSE Binary(x.int, y.int, Checked(int_div_overflow(x.int.n, y.int.n), Quot(x.int.n, y.int.n)))]

handle_mod(x, y) ==
    [NoValues EXCEPT
       !.uint = IF IsZero(y.uint) THEN Valid(0)
                ELSE Binary(x.uint, y.uint, Valid(Rem(x.uint.n, y.uint.n))),
       !.int = IF IsZero(y.int) THEN Valid(0)
               ELSE Binary(x.int, y.int, Checked(int_mod_overflow(x.int.n, y.int.n), Rem(x.int.n, y.int.n)))]

Truth(b) == Valid(IF b THEN 1 ELSE 0)

(* One operation per type, all into the BOOL value: the last one whose     *)
(* operands are not undefined stays.                                       *)
Compare(op, a, b) == CASE op = "GT" -> a > b [] op = "GE" -> a >= b [] op = "EQ" -> a = b
                       [] op = "LT" -> a < b [] op = "LE" -> a <= b [] op = "NE" -> a # b
handle_cmp(op, x, y) ==
    LET into(a, b, before) == IF Binary(a, b, Truth(TRUE)) = Undefined THEN before
                              ELSE Binary(a, b, Truth(Compare(op, a.n, b.n)))
    IN  [NoValues EXCEPT !.bool = into(x.int, y.int, into(x.uint, y.uint, into(x.bool, y.bool, Undefined)))]

(* A literal, and a literal with a sign, whose unsigned part may be the    *)
(* magnitude of the least integer.                                         *)
integer(n) == [NoValues EXCEPT !.uint = Checked(n > Uint64Max, n), !.int = Checked(n > Int64Max, n)]
neg_integer(n) ==
    LET exp == integer(n)
    IN  [handle_neg(exp) EXCEPT !.int = IF exp.uint = Valid(Int64Max + 1) THEN Valid(Int64Min) ELSE @]
boolean(b) == [NoValues EXCEPT !.bool = Truth(b)]

-----------------------------------------------------------------------------
(* Instructions and their data types.                                      *)
CONSTANT Widths     \* the widths of SINT, INT, DINT and LINT, in bits
ASSUME WidthsAssumption == /\ Widths \in Seq(Nat \ {0})
                           /\ Top = 2 ^ (Widths[Len(Widths)] - 1)

Logic == {"AND", "OR", "XOR", "ANDN", "ORN", "XORN"}
Arith == {"ADD", "SUB", "MUL", "DIV", "MOD"}
Cmp == {"GT", "GE", "EQ", "LT", "LE", "NE"}
Binaries == Logic \cup Arith \cup Cmp
Loads == {"LD", "LDN"}
Stores == {"ST", "STN"}
Latches == {"S", "R"}
Always == {"JMP", "RET", "CAL"}
Conditional == {"JMPC", "JMPCN", "RETC", "RETCN", "CALC", "CALCN"}

None == [k |-> "none", x |-> "", n |-> 0]
Levels == DOMAIN Widths

NULL == <<"null", 0>>
Invalid == <<"invalid", 0>>
BOOL == <<"bool", 0>>
FB == <<"fb", 0>>
IsBit(t) == t[1] \in {"bool", "bit"}
IsNum(t) == t[1] \in {"int", "uint"}
IsValidType(t) == t \notin {NULL, Invalid}
RangeOf(t) == CASE t = BOOL -> 0 .. 1
                [] t[1] = "int" -> -(2 ^ (Widths[t[2]] - 1)) .. 2 ^ (Widths[t[2]] - 1) - 1
                [] OTHER -> 0 .. 2 ^ Widths[t[2]] - 1

(* C: a value stored in a type wraps.                                      *)
Wrap(t, n) == LET size == IF t = BOOL THEN 2 ^ Widths[1] ELSE 2 ^ Widths[t[2]]
                  m == n % size
              IN  IF t[1] = "int" /\ m >= size \div 2 THEN m - size ELSE m
Flag(b) == IF b THEN 1 ELSE 0

-----------------------------------------------------------------------------
Instr(c, v) == IF v[2] = 0 THEN c[v[1]] ELSE c[v[1]].body[v[2]]
Lines(c) == [i \in DOMAIN c |-> <<i, 0>>]
BodyOf(c, i) == [j \in DOMAIN c[i].body |-> <<i, j>>]
(* Every node, those in parentheses before the line they are on.           *)
Order(c) == FlattenSeq([i \in DOMAIN c |-> Append(BodyOf(c, i), <<i, 0>>)])
NodesOf(c) == ToSet(Order(c))

(* flow_control_analysis: prev_il_instruction and next_il_instruction.  A  *)
(* jump to the line after it is there twice.                               *)
Falls(c, i) == c[i].op \notin {"JMP", "RET"}
Prev(c, v) ==
    LET i == v[1]
    IN  IF v[2] > 0 THEN IF v[2] > 1 THEN <<<<i, v[2] - 1>>>> ELSE <<>>
        ELSE (IF i > 1 /\ Falls(c, i - 1) THEN <<<<i - 1, 0>>>> ELSE <<>>)
             \o SelectSeq(Lines(c), LAMBDA u : c[u[1]].to = i)
NextOf(c, v) ==
    LET i == v[1]
    IN  IF v[2] > 0 THEN IF v[2] < Len(c[i].body) THEN <<<<i, v[2] + 1>>>> ELSE <<>>
        ELSE (IF i < Len(c) /\ Falls(c, i) THEN <<<<i + 1, 0>>>> ELSE <<>>)
             \o (IF c[i].to > 0 THEN <<<<c[i].to, 0>>>> ELSE <<>>)
flow_control_analysis(c) == [v \in NodesOf(c) |-> [prev |-> Prev(c, v), next |-> NextOf(c, v)]]

-----------------------------------------------------------------------------
(* constant_propagation.                                                   *)
literal(arg) == CASE arg.k = "int" -> integer(arg.n)
                  [] arg.k = "neg" -> neg_integer(arg.n)
                  [] arg.k = "bool" -> boolean(arg.n = 1)
                  [] OTHER -> NoValues

(* A line reached from several others has a value if all of them have it.  *)
(* Mutant: only the first of them is looked at.                            *)
intersect_prev_cvalues_first(prevs, cv) == cv[prevs[1]]
intersect_prev_cvalues(prevs, cv) ==
    LET meet(of(_)) == LET first == of(cv[prevs[1]])
                       IN  IF \A k \in 2 .. Len(prevs) : IsValid(first) /\ of(cv[prevs[k]]) = first
                           THEN first ELSE Nonconst
    IN  [bool |-> meet(LAMBDA x : x.bool), int |-> meet(LAMBDA x : x.int), uint |-> meet(LAMBDA x : x.uint)]

B == INSTANCE Bitwise
(* The bits of a logical operation; negative operands do not occur.        *)
Bits(op, a, b) == CASE op \in {"AND", "ANDN"} -> B!&(a, b)
                    [] op \in {"OR", "ORN"} -> B!|(a, b)
                    [] op \in {"XOR", "XORN"} -> B!^^(a, b)
handle_logic(op, x, y) ==
    [NoValues EXCEPT !.bool = Binary(x.bool, y.bool, Valid(Bits(op, x.bool.n, y.bool.n))),
                     !.uint = Binary(x.uint, y.uint, Valid(Bits(op, x.uint.n, y.uint.n)))]

(* The value of a binary operator; those with N negate the result.         *)
fold_binary(op, x, y) ==
    CASE op \in {"AND", "OR", "XOR"} -> handle_logic(op, x, y)
      [] op \in {"ANDN", "ORN", "XORN"} -> handle_not(handle_logic(op, x, y))
      [] op = "ADD" -> handle_add(x, y)
      [] op = "SUB" -> handle_sub(x, y)
      [] op = "MUL" -> handle_mul(x, y)
      [] op = "DIV" -> handle_div(x, y)
      [] op = "MOD" -> handle_mod(x, y)
      [] op \in Cmp -> handle_cmp(op, x, y)

(* The operand: a list in parentheses stands for its last instruction.     *)
HasOperand(in) == in.arg # None \/ in.body # <<>>
LastOf(in, v) == <<v[1], Len(in.body)>>

(* No operator takes a value where there is no instruction before it.      *)
node_value(in, v, prevs, cv) ==
    LET operand == IF in.body = <<>> THEN literal(in.arg) ELSE cv[LastOf(in, v)]
        with(before) ==
            CASE in.op \in Binaries /\ HasOperand(in) -> fold_binary(in.op, before, operand)
              [] in.op \in Binaries -> NoValues
              [] in.op = "NOT" -> handle_not(before)
              [] OTHER -> before
    IN  CASE in.op = "LD" -> operand
          [] in.op = "LDN" -> handle_not(operand)
          [] OTHER -> IF prevs = <<>> THEN NoValues ELSE with(intersect_prev_cvalues(prevs, cv))

constant_propagation(c, flow) ==
    FoldLeft(LAMBDA cv, v : [cv EXCEPT ![v] = node_value(Instr(c, v), v, flow[v].prev, cv)],
             [v \in NodesOf(c) |-> NoValues], Order(c))

-----------------------------------------------------------------------------
(* fill_candidate_datatypes: every type an instruction could produce, in   *)
(* an order that later decides between them.                               *)
(* Mutant: operands of one kind, whatever their widths.                    *)
widening_conversion_kinds(op, l, r) ==
    CASE l[1] # r[1] -> NULL [] op \in Cmp -> BOOL [] IF op \in Arith THEN IsNum(l) ELSE IsBit(l) -> l [] OTHER -> NULL
widening_conversion(op, l, r) ==
    CASE l # r -> NULL
      [] op \in Logic /\ IsBit(l) -> l
      [] op \in Arith /\ IsNum(l) -> l
      [] op \in Cmp /\ (IsBit(l) \/ IsNum(l)) -> BOOL
      [] OTHER -> NULL

add_datatype(list, t) == IF IsValidType(t) /\ ~Contains(list, t) THEN Append(list, t) ELSE list
AddAll(list, ts) == FoldLeft(add_datatype, list, ts)

(* A type stays a candidate unless a constant is known not to fit it.      *)
FitsIn(x, t) == LET val == IF t[1] = "int" THEN x.int ELSE x.uint
                IN  val # Overflow /\ (IsValid(val) => val.n \in RangeOf(t))
remove_incompatible(list, x) == SelectSeq(list, LAMBDA t : FitsIn(x, t))

OfKind(kind) == [k \in Levels |-> <<kind, k>>]
any_integer_typed == OfKind("bit") \o OfKind("int") \o OfKind("uint")   \* Mutant: no BOOL
any_integer == <<BOOL>> \o OfKind("bit") \o OfKind("int") \o OfKind("uint")
(* A negative literal is an INT first, then a SINT.                        *)
any_negative == IF Len(Widths) < 2 THEN OfKind("int")
                ELSE <<<<"int", 2>>, <<"int", 1>>>> \o SubSeq(OfKind("int"), 3, Len(Widths))
arg_datatypes(ty, arg) ==
    CASE arg.k = "var" -> <<ty[arg.x]>>
      [] arg.k = "bool" -> <<BOOL>>
      [] arg.k = "int" -> remove_incompatible(any_integer, literal(arg))
      [] arg.k = "neg" -> remove_incompatible(any_negative, literal(arg))
      [] OTHER -> <<>>
operand_datatypes(ty, in, v, cands) ==
    IF in.body = <<>> THEN arg_datatypes(ty, in.arg) ELSE cands[LastOf(in, v)]

intersect_prev_datatypes(prevs, cands) ==
    IF prevs = <<>> THEN <<>>
    ELSE SelectSeq(cands[prevs[1]], LAMBDA t : \A k \in 2 .. Len(prevs) : Contains(cands[prevs[k]], t))

(* The types of an operator, added to those it has from the pass before.   *)
fill_operator(in, x, old, before, operand) ==
    LET pairs(Result(_, _)) == FlattenSeq([i \in DOMAIN before |-> [j \in DOMAIN operand |-> Result(before[i], operand[j])]])
    IN  CASE in.op = "LD" -> AddAll(old, operand)
          [] in.op = "LDN" -> AddAll(old, SelectSeq(operand, IsBit))
          [] in.op = "NOT" -> IF HasOperand(in) THEN old ELSE AddAll(old, SelectSeq(before, IsBit))
          [] in.op = "ST" -> AddAll(old, pairs(LAMBDA l, r : IF l = r THEN l ELSE NULL))
          [] in.op = "STN" -> AddAll(old, pairs(LAMBDA l, r : IF l = r /\ IsBit(r) THEN l ELSE NULL))
          [] in.op \in Latches -> AddAll(old, pairs(LAMBDA l, r : IF l = BOOL /\ r = BOOL THEN l ELSE NULL))
          [] in.op \in Conditional -> AddAll(old, SelectSeq(before, LAMBDA t : t = BOOL))
          [] in.op \in Always -> before
          [] in.op \in Binaries ->
               remove_incompatible(AddAll(old, pairs(LAMBDA l, r : widening_conversion(in.op, l, r))), x)

fill_node(c, ty, v, prevs, cv, cands) ==
    LET in == Instr(c, v)
        before == intersect_prev_datatypes(prevs, cands)
    IN  IF in.op = "EMPTY" THEN IF prevs = <<>> THEN cands[v] ELSE before
        ELSE IF in.op \notin Loads /\ prevs = <<>> THEN cands[v]
        ELSE fill_operator(in, cv[v], cands[v], before, operand_datatypes(ty, in, v, cands))

Passes == 2
(* The whole list, forwards, as often as there are passes.                 *)
fill_candidate_datatypes(c, ty, flow, cv) ==
    LET pass(cands) == FoldLeft(LAMBDA cs, v : [cs EXCEPT ![v] = fill_node(c, ty, v, flow[v].prev, cv, cs)], cands, Order(c))
    IN  FoldLeft(LAMBDA cands, k : pass(cands), [v \in NodesOf(c) |-> <<>>], [k \in 1 .. Passes |-> k])

-----------------------------------------------------------------------------
(* narrow_candidate_datatypes, backwards: an instruction produces what the *)
(* next one asked it for.  d holds the type of each instruction (it), of   *)
(* its operator (op) and of its operand (arg), and whether the compiler    *)
(* stopped itself.  x is the context: c, ty, flow, cands, and forced for   *)
(* the pass that decides what is still open.                               *)
Undecided(c) == LET nulls == [v \in NodesOf(c) |-> NULL]
                IN  [it |-> nulls, op |-> nulls, arg |-> nulls, aborted |-> FALSE]

(* A second, different wish makes the type invalid.                        *)
set_datatype(x, t, v, d) ==
    IF t = NULL THEN d
    ELSE [d EXCEPT !.it[v] = IF Contains(x.cands[v], t) /\ @ \in {NULL, t} THEN t ELSE Invalid]
set_datatype_in_prev(x, t, v, d) ==
    IF x.forced /\ ~IsValidType(t) THEN d
    ELSE FoldLeft(LAMBDA e, u : set_datatype(x, t, u, e), d, x.flow[v].prev)

(* An operand is given its type once, the last instruction in parentheses  *)
(* with it.                                                                *)
RECURSIVE simple_instr_list(_, _, _)
set_il_operand_datatype(x, t, v, d) ==
    CASE ~HasOperand(Instr(x.c, v)) -> d
      [] d.arg[v] = NULL -> simple_instr_list(x, v, [d EXCEPT !.arg[v] = t])
      [] d.arg[v] # t -> [d EXCEPT !.aborted = TRUE]
      [] OTHER -> d

Before(x, v) == intersect_prev_datatypes(x.flow[v].prev, x.cands)
Operands(x, v) == operand_datatypes(x.ty, Instr(x.c, v), v, x.cands)

(* The first pair of types whose result is the one asked for.              *)
pairs_for(x, v, t) ==
    LET operands == Operands(x, v)
        row(l) == SelectSeq([j \in DOMAIN operands |-> <<l, operands[j]>>],
                            LAMBDA p : widening_conversion(Instr(x.c, v).op, p[1], p[2]) = t)
        before == Before(x, v)
    IN  IF IsValidType(t) THEN FlattenSeq([i \in DOMAIN before |-> row(before[i])]) ELSE <<>>
narrow_binary_operator(x, v, d) ==
    LET fits == pairs_for(x, v, d.op[v])
    IN  IF HasOperand(Instr(x.c, v)) /\ fits # <<>>
        THEN set_il_operand_datatype(x, fits[1][2], v, set_datatype_in_prev(x, fits[1][1], v, d))
        ELSE set_il_operand_datatype(x, NULL, v, d)

(* Conditional instructions ask for a BOOL even if nobody uses it after.   *)
narrow_conditional_operator(x, v, d) ==
    LET t == IF d.op[v] # NULL THEN d.op[v] ELSE IF Contains(x.cands[v], BOOL) THEN BOOL ELSE Invalid
    IN  set_datatype_in_prev(x, t, v, [d EXCEPT !.op[v] = t])

narrow_S_and_R_operator(x, v, d) ==
    LET e == narrow_conditional_operator(x, v, d)
    IN  IF Operands(x, v) # <<>> THEN set_il_operand_datatype(x, Operands(x, v)[1], v, e) ELSE e

(* A store takes the type of its variable, for the line it is on too.      *)
narrow_store_operator(x, v, d) ==
    LET t == x.cands[v][1]
        e == IF Len(x.cands[v]) # 1 THEN d
             ELSE [set_datatype_in_prev(x, t, v, [d EXCEPT !.op[v] = t]) EXCEPT !.it[<<v[1], 0>>] = t]
    IN  set_il_operand_datatype(x, e.op[v], v, e)

narrow_operator(x, v, d) ==
    LET op == Instr(x.c, v).op
    IN  CASE op \in Loads -> set_il_operand_datatype(x, d.op[v], v, d)
          [] op \in Stores -> narrow_store_operator(x, v, d)
          [] op \in Latches -> narrow_S_and_R_operator(x, v, d)
          [] op \in Conditional -> narrow_conditional_operator(x, v, d)
          [] op \in Binaries -> narrow_binary_operator(x, v, d)
          [] OTHER -> set_datatype_in_prev(x, d.op[v], v, d)

(* forced_narrow_candidate_datatypes: what nobody asked for takes its      *)
(* first candidate once an instruction after it is decided.                *)
(* Mutant: only an instruction that nothing follows is decided.            *)
forced_narrow_il_instruction_last(x, v, d) ==
    IF x.forced /\ d.it[v] = NULL /\ x.flow[v].next = <<>> /\ x.cands[v] # <<>>
    THEN [d EXCEPT !.it[v] = x.cands[v][1]] ELSE d
forced_narrow_il_instruction(x, v, d) ==
    LET next == x.flow[v].next
        known == SelectSeq(next, LAMBDA u : d.it[u] # NULL)
    IN  CASE ~x.forced \/ d.it[v] # NULL -> d
          [] x.cands[v] = <<>> -> [d EXCEPT !.it[v] = Invalid]
          [] next = <<>> \/ (known # <<>> /\ d.it[known[Len(known)]] # Invalid) ->
               [d EXCEPT !.it[v] = x.cands[v][1]]
          [] OTHER -> d

narrow_node(x, v, d) ==
    IF d.aborted THEN d
    ELSE LET e == forced_narrow_il_instruction(x, v, d)
         IN  IF Instr(x.c, v).op = "EMPTY" THEN set_datatype_in_prev(x, e.it[v], v, e)
             ELSE narrow_operator(x, v, [e EXCEPT !.op[v] = e.it[v]])

(* The list in the parentheses of a line v, backwards.                     *)
simple_instr_list(x, v, d) ==
    LET body == IF v[2] = 0 THEN BodyOf(x.c, v[1]) ELSE <<>>
    IN  IF body = <<>> \/ d.aborted THEN d
        ELSE FoldLeft(LAMBDA e, u : narrow_node(x, u, e),
                      [d EXCEPT !.it[<<v[1], Len(body)>>] = d.arg[v]], Reverse(body))
narrow_line(x, v, d) == simple_instr_list(x, v, narrow_node(x, v, d))

narrow_datatypes(x, d) ==
    LET pass(e) == FoldLeft(LAMBDA f, v : narrow_line(x, v, f), e, Reverse(Lines(x.c)))
    IN  FoldLeft(LAMBDA e, k : pass(e), d, [k \in 1 .. Passes |-> k])

-----------------------------------------------------------------------------
(* print_datatypes_error: the errors that keep a program from stage 4.     *)
node_error(x, v, d) ==
    LET in == Instr(x.c, v)
        nothing == x.cands[v] = <<>>
    IN  \/ in.arg # None /\ Operands(x, v) = <<>>
        \/ in.op \in Loads \cup Stores \cup Latches \cup Binaries
             /\ (~HasOperand(in) \/ (nothing /\ Operands(x, v) # <<>>))
        \/ in.op = "NOT" /\ (HasOperand(in) \/ nothing)
        \/ in.op \in Conditional /\ ~IsValidType(d.op[v])
print_datatypes_error(x, d) == \E v \in NodesOf(x.c) : node_error(x, v, d)
=============================================================================
