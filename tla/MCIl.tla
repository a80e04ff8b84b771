-------------------------------- MODULE MCIl --------------------------------
(* Short lists for the compiler, and the language they are written in.     *)
EXTENDS IlCompiler, FiniteSetsExt

MCWidths == <<2, 3>>

Var(x) == [k |-> "var", x |-> x, n |-> 0]
Lit(n) == [k |-> IF n < 0 THEN "neg" ELSE "int", x |-> "", n |-> IF n < 0 THEN -n ELSE n]
True == [k |-> "bool", x |-> "", n |-> 1]
Op(op, arg) == [op |-> op, arg |-> arg, body |-> <<>>, to |-> 0]
Bare(op) == Op(op, None)
Jump(op, to) == [Bare(op) EXCEPT !.to = to]
Paren(op, body) == [Bare(op) EXCEPT !.body = body]

(* Control: BOOL variables a and b, a block f, every pair of instructions  *)
(* between a load and a store, with jumps to every line but past the end.  *)
Control == {Op(op, Var("b")) : op \in {"LDN", "ANDN", "OR", "ST", "S", "R"}}
             \cup {Bare(op) : op \in {"NOT", "EMPTY", "RET", "RETC"}}
             \cup {Op(op, Var("f")) : op \in {"CAL", "CALCN"}}
             \cup {Jump(op, to) : op \in {"JMP", "JMPC", "JMPCN"}, to \in 1 .. 4}
Flow == [lists |-> {<<Op("LD", Var("a")), x, y, Op("ST", Var("b"))>> : x \in Control, y \in Control},
         types |-> [a |-> BOOL, b |-> BOOL, f |-> FB],
         memories |-> [a : {0, 1}, b : {0, 1}, f : {0}]]

(* Numbers: a SINT i, an INT j, a WORD w and a BOOL a, and literals about  *)
(* the limits of their types.                                              *)
Given4 == {Var(x) : x \in {"a", "i", "j", "w"}}
Givens == Given4 \cup {Lit(n) : n \in {-4, -1, 0, 3}}
Targets == {"a", "i", "j", "w"}
St(x) == Op("ST", Var(x))
Expressions ==
    {<<Op("LD", x), Op(op, y), St(z)>> : op \in Binaries, x \in Givens \cup {True}, y \in Givens \cup {True}, z \in Targets}
      \cup {<<Op(ld, x), Op(op, Var(z))>> : ld \in Loads, x \in Givens, op \in {"ST", "STN", "S"}, z \in Targets}
(* Constants on constants, and a constant that goes round a loop.          *)
Ops3 == {"ADD", "SUB", "MUL", "DIV", "MOD", "EQ", "GT"}
Constants == {<<Op("LD", Lit(x)), Op(op, Lit(y)), Op(p, Lit(z)), St("j")>> :
                 op \in Ops3, p \in Ops3, x \in {0, 3}, y \in {-1, 2, 3}, z \in {-4, 0, 2}}
Loops == {<<Op("LD", x), Op(op, y), St(z), Jump("JMP", to)>> :
             op \in {"ADD", "SUB", "EQ", "XOR"}, x \in Givens, y \in Givens, z \in Targets, to \in 1 .. 3}
(* Two loads whose results meet at a label.                                *)
Joins == {<<Op("LD", Var("a")), Jump("JMPC", 5), Op("LD", x), Jump("JMP", 6), Op("LD", y), Op(op, c), St(z)>> :
             op \in {"ADD", "LT", "AND"}, x \in Givens, y \in Givens, c \in {Var("j"), Lit(1)}, z \in Targets}
(* An operand in parentheses.                                              *)
Parens == {<<Op("LD", x), Paren(op, <<Op("LD", y), Op(p, c)>>), St(z)>> :
              op \in {"SUB", "GE", "ORN"}, p \in {"ADD", "NE", "ANDN"}, x \in Givens, y \in Givens,
              c \in {Var("j"), Var("a"), Lit(1)}, z \in Targets}
Arithmetic == [lists |-> Expressions \cup Constants \cup Loops \cup Joins \cup Parens,
               types |-> [a |-> BOOL, i |-> <<"int", 1>>, j |-> <<"int", 2>>, w |-> <<"bit", 2>>],
               memories |-> {[a |-> 0, i |-> 1, j |-> -3, w |-> 6], [a |-> 1, i |-> -2, j |-> 2, w |-> 3]}]

MCDialects == {Flow, Arithmetic}

-----------------------------------------------------------------------------
(* The language: a current result, a number n with the types it may have   *)
(* (one for a variable, for a literal all that can hold it) and those of   *)
(* them that could hold it so far.  No type is an error; a value out of    *)
(* range, a division by zero, the complement of an untyped literal and the *)
(* remainder by -1 of the least integer are left open.                     *)
AllTypes == {BOOL} \cup {<<kind, k>> : kind \in {"int", "uint", "bit"}, k \in Levels}
Number(n, T) == [n |-> n, types |-> T, fits |-> T]
NoResult == Number(0, {})
Typed(t, n) == Number(n, {t})
Untyped(n) == Number(n, {t \in AllTypes : n \in RangeOf(t)})

Given(arg, mem) == CASE arg.k = "var" -> Typed(ty[arg.x], mem[arg.x])
                     [] arg.k = "bool" -> Typed(BOOL, arg.n)
                     [] arg.k = "neg" -> Untyped(-arg.n)
                     [] OTHER -> Untyped(arg.n)

Say(r, what) == [r EXCEPT !.says = what]
(* x is a result if a type is left and the type can hold it.               *)
Result(r, x) == CASE x.types = {} -> Say(r, "mistyped")
                  [] x.fits = {} -> Say(r, "open")
                  [] OTHER -> [r EXCEPT !.cr = x]

Not(r, x) == LET T == {t \in x.types : IsBit(t)}
             IN  IF Cardinality(T) > 1 THEN Say(r, "open")
                 ELSE Result(r, Number(Max({0} \cup UNION {RangeOf(t) : t \in T}) - x.n, T))

KindOf(op) == IF op \in Logic THEN {t \in AllTypes : IsBit(t)}
              ELSE IF op \in Arith THEN {t \in AllTypes : IsNum(t)} ELSE AllTypes
LangOperator(r, op, a, b, T, F) ==
    CASE T = {} \/ F = {} -> Result(r, [n |-> 0, types |-> T, fits |-> F])
      [] op \in Cmp -> Result(r, Typed(BOOL, Flag(Compare(op, a, b))))
      [] op \in {"DIV", "MOD"} /\ (b = 0 \/ (b = -1 /\ a = Int64Min)) -> Say(r, "open")
      [] OTHER -> LET n == IF op \in Logic THEN Bits(op, a, b) ELSE c_operator(NULL, op, a, b)
                  IN  Result(r, [n |-> n, types |-> T, fits |-> {t \in F : n \in RangeOf(t)}])
LangBinary(r, op, x) ==
    LangOperator(r, op, r.cr.n, x.n, KindOf(op) \cap r.cr.types \cap x.types, KindOf(op) \cap r.cr.fits \cap x.fits)

(* A store and a condition give the current result its type.               *)
Store(r, x, v, on) ==
    CASE ty[x] \notin v.types -> Say(r, "mistyped")
      [] ty[x] \in v.fits -> [r EXCEPT !.mem[x] = IF on THEN v.n ELSE @, !.cr.types = {ty[x]}, !.cr.fits = {ty[x]}]
      [] OTHER -> Say(r, "open")
If(r, Then(_)) == IF BOOL \in r.cr.types THEN [Then(r.cr.n = 1) EXCEPT !.cr = Typed(BOOL, r.cr.n)] ELSE Say(r, "mistyped")
Negated(r, x, Then(_)) == LET n == Not(r, x) IN IF n.says = "" THEN Then(n.cr) ELSE n

Instruction(r, in, x) ==
    CASE in.op = "LD" -> [r EXCEPT !.cr = x]
      [] in.op = "LDN" -> Not(r, x)
      [] in.op = "NOT" -> Not(r, r.cr)
      [] in.op = "ST" -> Store(r, in.arg.x, r.cr, TRUE)
      [] in.op = "STN" -> Negated(r, r.cr, LAMBDA n : Store(r, in.arg.x, n, TRUE))
      [] in.op \in Latches ->
           If(r, LAMBDA on : Store(r, in.arg.x, Typed(BOOL, Flag(in.op = "S")), on))
      [] in.op \in {"ANDN", "ORN", "XORN"} -> Negated(r, x, LAMBDA n : LangBinary(r, in.op, n))
      [] in.op \in Binaries -> LangBinary(r, in.op, x)
      [] in.op = "CAL" -> [r EXCEPT !.mem[in.arg.x] = 1 - @]
      [] in.op \in {"CALC", "CALCN"} ->
           If(r, LAMBDA on : IF on = (in.op = "CALC") THEN [r EXCEPT !.mem[in.arg.x] = 1 - @] ELSE r)
      [] in.op \in Conditional -> If(r, LAMBDA on : r)
      [] OTHER -> r

(* A list in parentheses is an operand: it has a result of its own.        *)
Leaves(op, on) == op \in {"JMP", "RET"} \/ (op \in {"JMPC", "RETC"} /\ on) \/ (op \in {"JMPCN", "RETCN"} /\ ~on)
LangLine(r) ==
    LET in == code[r.pc]
        run(q, e) == IF q.says = "" THEN Instruction(q, e, Given(e.arg, q.mem)) ELSE q
        inner == FoldLeft(run, [r EXCEPT !.cr = NoResult], in.body)
        after == IF in.body = <<>> THEN run(r, in)
                 ELSE IF inner.says = "" THEN Instruction([inner EXCEPT !.cr = r.cr], in, inner.cr) ELSE inner
        to == IF in.to > 0 THEN in.to ELSE Len(code) + 1
    IN  [after EXCEPT !.pc = IF Leaves(in.op, after.cr.n = 1) THEN to ELSE @ + 1]

VARIABLES lang      \* what the language makes of the list: [pc, mem, cr, says]
hvars == <<vars, lang>>

Idle == [pc |-> 0, mem |-> Nothing, cr |-> NoResult, says |-> ""]
HInit == Init /\ lang = Idle
HNext == /\ Next
         /\ lang' = CASE phase = "generated" -> [Idle EXCEPT !.pc = 1, !.mem = cpu'.mem]
                      [] phase = "running" /\ lang.says = "" -> LangLine(lang)
                      [] OTHER -> lang
HSpec == HInit /\ [][HNext]_hvars

-----------------------------------------------------------------------------
(* As long as the language says what a list does, the generated program    *)
(* does it: the same variables and the same line after every line, and the *)
(* same current result once its type is known.                             *)
ScanAsLanguage ==
    phase = "running" /\ lang.says = "" =>
        /\ cpu.fault = "none" /\ cpu.pc = lang.pc /\ cpu.mem = lang.mem
        /\ Cardinality(lang.cr.types) = 1 => cpu.defvar[2] = lang.cr.n

(* A list that is compiled never meets a type error when it runs, and all  *)
(* the lines before one left the accumulator in the type it is read with   *)
(* (generate_c_il.cc:733), through every jump and every loop.              *)
WellTyped == phase = "running" => lang.says # "mistyped" /\ cpu.fault # "garbled"

(* What the language makes of a list that starts with the memory m.        *)
LangEnds(m) ==
    FoldLeft(LAMBDA r, k : IF r.says = "" /\ r.pc <= Len(code) THEN LangLine(r) ELSE r,
             [Idle EXCEPT !.pc = 1, !.mem = m], [k \in 1 .. MaxSteps |-> k])
Memories == UNION {D.memories : D \in {E \in Dialects : code \in E.lists}}
Backward == {i \in DOMAIN code : code[i].to \in 1 .. i}

(* A list is rejected only if it goes wrong on some memory: so it is for   *)
(* lists without loops in which one line comes before each.                *)
RejectedIsWrong ==
    phase = "rejected" /\ Backward = {} /\ (\A i \in 2 .. Len(code) : Len(flow[<<i, 0>>].prev) = 1)
        => \E m \in Memories : LangEnds(m).says # ""

(* A list without errors becomes C code that names a type wherever it uses *)
(* the accumulator: so it is if at most one jump goes back, on a condition *)
(* (two passes suffice: fill_candidate_datatypes.cc:1697).                 *)
AcceptedIsC ==
    Cardinality(Backward) <= 1 /\ (\A i \in Backward : code[i].op # "JMP") => phase \notin {"internal_error", "not_c"}

(* A value folded from constants is the value of the line each time it is  *)
(* executed.  (The folding of ANDN, ORN and XORN negates the result.)      *)
Folded(x, t) == CASE t = BOOL -> x.bool [] t[1] = "int" -> x.int [] OTHER -> x.uint
ConstantsHold ==
    [][phase = "running" /\ cpu'.fault = "none" =>
         LET v == <<cpu.pc, 0>>
             t == data.it[v]
         IN  IsValidType(t) /\ cpu'.defvar[1] = t /\ IsValid(Folded(cvalues[v], t))
               /\ Folded(cvalues[v], t).n \in RangeOf(t) /\ (\A u \in NodesOf(code) : Instr(code, u).op \notin {"ANDN", "ORN", "XORN"})
             => cpu'.defvar[2] = Folded(cvalues[v], t).n]_vars
=============================================================================
