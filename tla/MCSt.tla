-------------------------------- MODULE MCSt --------------------------------
(* Short programs for the compiler, and the language they are written in.  *)
EXTENDS StCompiler, FiniteSetsExt

MCWidths == <<2, 3>>
SINT == <<"int", 1>>
INT == <<"int", 2>>
BYTE == <<"bit", 1>>
WORD == <<"bit", 2>>

-----------------------------------------------------------------------------
(* Declarations.                                                           *)
Decl(type, class) == [type |-> type, class |-> class]
Param(name, dir, type) == [name |-> name, dir |-> dir, type |-> type, default |-> 0]
Function(name, id, params, type) == [name |-> name, id |-> id, params |-> params, type |-> type]
Names == [bool |-> {"a", "b", "t.Q"}, sint |-> {"i"}, byte |-> {"d"}, word |-> {"w"},
          int |-> {"j", "k", "c", "x", "t.P", "t.R", "t.S", "u.P", "u.Q"}]
Variables == [v \in UNION {Names[ty] : ty \in DOMAIN Names} |->
                Decl(CASE v \in Names.bool -> BOOL [] v \in Names.sint -> SINT [] v \in Names.byte -> BYTE [] v \in Names.word -> WORD [] OTHER -> INT,
                     CASE v \in {"t.Q", "u.Q"} -> "output" [] v = "c" -> "constant" [] v = "x" -> "external" [] OTHER -> "var")]
MCEnv == [vars |-> Variables,
          functions |-> <<Function("F", "F", <<Param("P", "in", INT), Param("Q", "out", INT)>>, BOOL),
                          Function("G", "G", <<Param("P", "in", INT), Param("R", "inout", INT)>>, INT),
                          Function("E", "E", <<Param("EN", "in", BOOL), Param("P", "in", BOOL)>>, BOOL),
                          Function("ABS", "ABS__SINT", <<Param("IN", "in", SINT)>>, SINT),
                          Function("ABS", "ABS__INT", <<Param("IN", "in", INT)>>, INT)>>,
          blocks |-> [t |-> <<Param("P", "in", INT), Param("R", "inout", INT), Param("S", "in", INT), Param("Q", "out", BOOL)>>,
                      u |-> <<Param("X", "extref", INT), Param("P", "in", INT), Param("Q", "out", INT)>>]]

(* F hands its input on, G adds to what it is given and E does nothing     *)
(* unless it is enabled.  t counts while P is positive, u adds to the external. *)
Saturated(n) == IF n > 3 THEN 3 ELSE IF n < -4 THEN -4 ELSE n
MCFunctionBody(id, v) ==
    CASE id = "F" -> [result |-> Flag(v["P"] > 0), outs |-> [Q |-> v["P"]]]
      [] id = "G" -> LET n == Saturated(v["P"] + IF "R" \in DOMAIN v THEN v["R"] ELSE 0) IN [result |-> n, outs |-> [R |-> Saturated(n + 1)]]
      [] id = "E" -> [result |-> IF v["EN"] = 1 THEN 1 - v["P"] ELSE 0, outs |-> <<>>]
      [] OTHER -> [result |-> IF v["IN"] < 0 THEN Wrap(IF id = "ABS__SINT" THEN SINT ELSE INT, -v["IN"]) ELSE v["IN"], outs |-> <<>>]
MCBlockBody(fb, m) ==
    IF fb = "t" THEN [m EXCEPT !["t.R"] = IF m["t.P"] > 0 THEN Saturated(@ + m["t.S"]) ELSE @, !["t.Q"] = Flag(m["t.R"] > 1)]
    ELSE [m EXCEPT !["x"] = Saturated(@ + m["u.P"]), !["u.Q"] = m["x"]]

-----------------------------------------------------------------------------
(* Programs.                                                               *)
Expr(op, sub) == Node(op, "", 0, sub, <<>>)
Var(x) == Node("var", x, 0, <<>>, <<>>)
Lit(n) == Node(IF n < 0 THEN "neg" ELSE "int", "", IF n < 0 THEN -n ELSE n, <<>>, <<>>)
True == Node("bool", "", 1, <<>>, <<>>)
Vars(names) == {Var(x) : x \in names}
Lits(ns) == {Lit(n) : n \in ns}
Pos(e) == Expr("pos", <<e>>)
In(p, e) == Node(":=", p, 0, <<e>>, <<>>)
ToVar(p, e) == Node("=>", p, 0, <<e>>, <<>>)
Call(f, params) == Node("call", f, 0, params, <<>>)
Set(x, e) == Expr("set", <<Var(x), e>>)
Invoke(fb, params) == Node("fbcall", fb, 0, params, <<>>)
Arm(cond, block) == Node("arm", "", 0, cond, block)
If(cond, yes) == Node("if", "", 0, <<>>, <<Arm(<<cond>>, yes)>>)
IfElse(cond, yes, other, maybe, no) == Node("if", "", 0, <<>>, <<Arm(<<cond>>, yes), Arm(<<other>>, maybe), Arm(<<>>, no)>>)
Case(of, labels, yes, more, maybe, no) ==
    Node("case", "", 0, <<of>>, <<Node("element", "", 0, labels, yes), Node("element", "", 0, more, maybe), Node("else", "", 0, <<>>, no)>>)
For(x, bounds, block) == Node("for", "", 0, <<Var(x)>> \o bounds, block)
While(cond, block) == Node("while", "", 0, <<cond>>, block)
Repeat(block, cond) == Node("repeat", "", 0, <<cond>>, block)
Stmt(op) == Node(op, "", 0, <<>>, <<>>)
Inc(x) == Set(x, Expr("ADD", <<Var(x), Lit(1)>>))
Lt(x, n) == Expr("LT", <<Var(x), Lit(n)>>)

(* An operator on variables of every type and literals at their limits.    *)
Atoms == Vars({"a", "i", "j", "w"}) \cup Lits({-1, 0, 3}) \cup {True}
Operands2 == Vars({"a", "j", "w", "d"}) \cup {Lit(1)}
Signs(e) == {Expr("NEG", <<e>>), Expr("NOT", <<e>>)}
Expressions ==
    {<<Set(z, Expr(op, <<l, r>>))>> : op \in {"AND", "OR", "XOR"} \cup Arith \cup Cmp,
                                      l \in Atoms, r \in Atoms, z \in {"a", "j", "w"}}
      \cup {<<Set(z, Expr(op, <<Expr(p, <<l, m>>), r>>))>> : op \in {"OR", "MUL", "GE"}, p \in {"SUB", "XOR", "NE"},
                                      l \in Operands2, m \in Operands2, r \in Operands2, z \in {"a", "j"}}
      \cup {<<Set(z, e)>> : e \in UNION {Signs(m) : m \in Atoms \cup Vars({"d"}) \cup Lits({-2, 1})}, z \in {"a", "i", "j", "d", "w"}}
      \cup {<<Set("a", Expr("EQ", <<Expr("NOT", <<l>>), r>>))>> : l \in Operands2, r \in Operands2}

(* Branches and loops, with jumps out of them.                             *)
Jumping == {Stmt(op) : op \in {"exit", "continue", "return"}}
Bodies == {<<Set("k", Expr("SUB", <<Var("j"), Lit(1)>>))>>, <<Inc("i")>>, <<Set("b", Expr("NOT", <<Var("b")>>))>>}
            \cup {<<If(Expr("EQ", <<Var("j"), Lit(1)>>), <<s>>), Inc("k")>> : s \in Jumping}
Bounds == {<<m, n>> : m \in Lits({-1, 0, 2}) \cup Vars({"k"}), n \in Lits({1, 3}) \cup Vars({"k", "j", "i"})}
            \cup {<<m, n, by>> : m \in Lits({-1, 2}), n \in Lits({-2, 2}) \cup Vars({"k"}), by \in Lits({-1, 0, 2}) \cup Vars({"k", "a"})}
Fors == {For("j", bounds, body) : bounds \in Bounds, body \in Bodies}
Span(low, high) == Expr("..", <<Lit(low), Lit(high)>>)
Labels == {<<Lit(0)>>, <<Lit(-1), Lit(2)>>, <<Span(-2, 0)>>, <<Span(1, 3), Lit(-4)>>, <<True>>,
           <<Span(1, -2)>>, <<Span(2, 2), Lit(2)>>, <<Span(-4, 3)>>, <<Span(7, -1)>>, <<Span(-4, 7)>>}
NestedCase == {<<>>, <<Case(Var("k"), <<Lit(0), Lit(1)>>, <<Inc("k")>>, <<Lit(1)>>, <<>>, <<>>)>>}
Control ==
    {<<f>> : f \in Fors}
      \cup {<<While(Lt("j", n), <<s, Inc("j")>>)>> : n \in {1, 3}, s \in Jumping \cup {Inc("k"), If(Var("a"), <<Stmt("exit")>>)}}
      \cup {<<Repeat(<<Inc("j"), s>>, Expr("GT", <<Var("j"), Lit(n)>>))>> :
               n \in {-2, 1}, s \in Jumping \cup {Inc("k"), If(Var("a"), <<Stmt("continue")>>)}}
      \cup {<<While(Var("a"), <<For("j", <<Lit(0), Lit(1)>>, <<s>>), Set("a", Expr("NOT", <<Var("a")>>)), Inc("k")>>)>> : s \in Jumping}
      \cup {<<Case(Var(z), l, <<Inc("k")>>, m, <<Set("a", True)>>, <<Set("b", True), Stmt("return")>>)>> :
               z \in {"i", "j"}, l \in Labels, m \in Labels}
      \cup {<<Case(Var("j"), <<Lit(0)>>, m, <<Lit(1)>>, <<>>, n)>> : m \in NestedCase, n \in NestedCase}
      \cup {<<IfElse(l, <<Set("b", True)>>, r, <<Inc("k")>>, <<s>>), Inc("j")>> :
               l \in Vars({"a", "j"}), r \in {Var("b"), Lt("j", 0), Lt("a", 0)}, s \in Jumping \cup {Set("c", Lit(1)), Inc("x")}}

(* Calls of functions that write, in every place an expression may be.     *)
CallsF == {Call("F", params) : params \in {<<In("P", Var("j")), ToVar("Q", Var("k"))>>, <<Pos(Var("j")), Pos(Var("k"))>>,
             <<ToVar("Q", Var("k")), In("P", Lit(1))>>, <<Pos(Var("j"))>>, <<In("P", Var("j")), In("Q", Var("k"))>>,
             <<In("P", Var("a"))>>, <<In("P", Var("j")), In("P", Var("k"))>>, <<Pos(Var("j")), Pos(Var("k")), Pos(Lit(1))>>,
             <<Pos(Call("G", <<Pos(Lit(1)), Pos(Var("x"))>>)), Pos(Var("k"))>>}}
CallsG == {Call("G", params) : params \in {<<In("P", Lit(1)), In("R", Var("x"))>>, <<Pos(Var("j")), Pos(Var("k"))>>, <<Pos(Lit(1)), Pos(Lit(2))>>,
             <<Pos(Var("j")), Pos(Var("c"))>>, <<Pos(Var("j")), Pos(Var("t.Q"))>>}}
OfBool(e) == {<<Set("b", e)>>, <<Set("a", Expr("AND", <<Var("b"), e>>))>>, <<Set("a", Expr("XOR", <<e, Var("b")>>))>>,
              <<IfElse(Var("a"), <<Set("a", e)>>, e, <<Inc("x")>>, <<Set("b", e)>>)>>, <<While(e, <<Set("j", Expr("SUB", <<Var("j"), Lit(1)>>))>>)>>,
              <<Set("b", Expr("NOT", <<Call("E", <<In("EN", True), In("P", e)>>)>>))>>}
OfInt(e) == {<<Set("x", e)>>, <<Set("j", Expr("MOD", <<e, Lit(2)>>)), Set("k", e)>>, <<For("k", <<Lit(0), e>>, <<Inc("i")>>)>>,
             <<For("k", <<e, Lit(1)>>, <<Inc("j")>>)>>,
             <<For("k", <<Lit(0), e, Lit(1)>>, <<Inc("i")>>), Set("x", e)>>, <<Case(e, <<Lit(1)>>, <<Set("j", e)>>, <<Lit(3)>>, <<Set("x", e)>>, <<Inc("k")>>)>>,
             <<Set("a", Expr("GT", <<e, Var("k")>>))>>}
Calling == UNION {OfBool(e) : e \in CallsF} \cup UNION {OfInt(e) : e \in CallsG}
      \cup {<<Repeat(<<Set("a", e)>>, Expr("GT", <<g, Lit(1)>>)), Set("j", g)>> : e \in CallsF, g \in CallsG}
      \cup {<<If(Expr(op, <<e, Expr("GT", <<g, Lit(1)>>)>>), <<Set("k", g)>>)>> : op \in {"AND", "OR"}, e \in CallsF, g \in CallsG}
      \cup {<<Set(z, Call("ABS", <<Pos(e)>>))>> : z \in {"i", "j", "w"}, e \in Vars({"i", "j", "a"}) \cup Lits({-1, 3}) \cup {Call("ABS", <<In("IN", Lit(-2))>>)}}
      \cup {<<Set(z, Expr("ADD", <<Call("ABS", <<In("IN", e)>>), g>>))>> : z \in {"i", "j"}, e \in Vars({"i"}) \cup Lits({-1}), g \in CallsG \cup Lits({0})}
      \cup {<<Set("b", Call("E", params))>> : params \in {<<Pos(Var("a"))>>, <<In("P", Var("a"))>>, <<Pos(True), Pos(Var("a"))>>, <<In("EN", Var("b")), In("P", Var("a"))>>}}

(* Calls of blocks, their members, and what must not be written.           *)
TParams == {<<In("P", e), In("R", Var(r)), In("S", s), ToVar("Q", Var(q))>> :
              e \in {Var("j"), Call("G", <<Pos(Lit(1)), Pos(Var("k"))>>)}, r \in {"x", "c"}, q \in {"b", "j"},
              s \in {Lit(2), Call("G", <<Pos(Lit(1)), Pos(Var("j"))>>)}}
Blocks == UNION {{<<Invoke("t", p), Set("a", Var("t.Q"))>>, <<Invoke("t", Reverse(p))>>, <<Invoke("t", [q \in DOMAIN p |-> Pos(Value(p[q]))])>>} : p \in TParams}
            \cup {<<Invoke("t", p), Inc("k"), Invoke("t", <<>>), Set("x", Var("t.R"))>> : p \in {<<Pos(Lit(1))>>, <<In("P", Var("j")), In("S", Var("k"))>>, <<In("P", Var("a"))>>}}
            \cup {<<Invoke("u", p)>> : p \in {<<Pos(Var("j"))>>, <<Pos(Var("j")), Pos(Var("k"))>>, <<Pos(Var("x")), Pos(Lit(2)), Pos(Var("j"))>>, <<In("P", Var("j")), ToVar("Q", Var("k"))>>}}
            \cup {<<Set(z, Lit(0))>> : z \in {"c", "x", "t.Q", "t.R", "j"}}
            \cup {<<For(z, <<Lit(0), Lit(1)>>, <<s>>)>> : z \in {"j", "c", "x", "a"}, s \in {Inc("j"), Inc("x"), If(Var("a"), <<Inc("j")>>),
                    Set("a", Call("F", <<Pos(Lit(1)), Pos(Var("j"))>>)), Invoke("t", <<In("R", Var("j"))>>), For("j", <<Lit(0), Lit(1)>>, <<>>)}}

Memory(n, on) == [v \in DOMAIN Variables |-> CASE Variables[v].type = BOOL -> on [] v \in {"c", "i"} -> 1 [] v = "w" -> 6 [] v = "d" -> 2
                                               [] v \in {"j", "x"} -> n [] v = "k" -> 1 [] OTHER -> 0]
MCPrograms == Expressions \cup Control \cup Calling \cup Blocks
MCMemories == {Memory(-2, 0), Memory(2, 1)}

-----------------------------------------------------------------------------
(* The language: the types an expression may have.  A literal has all that *)
(* can hold it, and an expression of literals all that can hold its value. *)
AllTypes == {BOOL} \cup {<<kind, n>> : kind \in {"int", "uint", "bit"}, n \in Levels}
Nums == {t \in AllTypes : IsNum(t)}
BitStrings == {t \in AllTypes : IsBit(t)}
Fitting(n) == {t \in AllTypes : n \in RangeOf(t)}
KindOf(op) == IF op \in Logic THEN BitStrings ELSE IF op \in Arith THEN Nums ELSE AllTypes
Calculate(op, m, n) ==
    CASE op \in Cmp -> Flag(Compare(op, m, n))
      [] op \in Logic -> Bits(op, m, n)
      [] op = "ADD" -> m + n [] op = "SUB" -> m - n [] op = "MUL" -> m * n
      [] op = "DIV" -> Quot(m, n)
      [] op = "MOD" -> IF n = 0 THEN 0 ELSE Rem(m, n)

(* The value of an expression of literals: a set, empty for any other.     *)
RECURSIVE Constant(_)
Constant(e) ==
    CASE e.op \in {"int", "bool"} -> {e.n}
      [] e.op = "neg" -> {-e.n}
      [] e.op = "NEG" -> {-n : n \in Constant(e.sub[1])}
      [] e.op \in Binaries /\ e.op \notin Cmp ->
           {Calculate(e.op, p[1], p[2]) : p \in {q \in Constant(e.sub[1]) \X Constant(e.sub[2]) : e.op # "DIV" \/ q[2] # 0}}
      [] OTHER -> {}
Undividable(e) == e.op = "DIV" /\ 0 \in Constant(e.sub[2])

Named(x) == SelectSeq(env.functions, LAMBDA f : f.name = x)
Passable(declared) == SelectSeq(declared, LAMBDA p : p.name \notin Hidden /\ p.dir # "extref")
(* The parameter the j-th argument of a call is for.                       *)
Receives(params, declared, j) ==
    IF params[j].op = "pos" THEN IF j <= Len(Passable(declared)) THEN <<Passable(declared)[j]>> ELSE <<>>
    ELSE search(declared, params[j].x)

RECURSIVE Types(_)
Fits(params, declared) ==
    \A j \in DOMAIN params :
      LET p == Receives(params, declared, j)
      IN  /\ p # <<>> /\ p[1].type \in Types(Value(params[j]))
          /\ params[j].op # "pos" => Directed(params[j], p[1].dir) /\ ~Repeated(params, j)
Types(e) ==
    CASE e.op = "var" -> {env.vars[e.x].type}
      [] e.op = "bool" -> {BOOL}
      [] e.op = "int" -> Fitting(e.n)
      [] e.op = "neg" -> {t \in Fitting(-e.n) : t[1] = "int"}
      [] e.op = "NEG" -> {t \in Types(e.sub[1]) : t[1] = "int" /\ Constant(e) \subseteq RangeOf(t)}
      [] e.op = "NOT" -> Types(e.sub[1]) \cap BitStrings
      [] e.op \in Binaries -> LET T == Types(e.sub[1]) \cap Types(e.sub[2]) \cap KindOf(e.op)
                              IN  IF T = {} \/ Undividable(e) THEN {} ELSE IF e.op \in Cmp THEN {BOOL} ELSE {t \in T : Constant(e) \subseteq RangeOf(t)}
      [] e.op = "call" -> {f.type : f \in {g \in ToSet(Named(e.x)) : Fits(e.sub, g.params)}}

(* What may be written: a variable, no output of a block, no constant, and *)
(* not the control variable of a loop in it.                               *)
Writable(v, controls) == v.op = "var" /\ v.x \notin controls /\ env.vars[v.x].class \in {"var", "external"}
DeclaredOf(e) == IF e.op = "fbcall" THEN env.blocks[e.x] ELSE Named(e.x)[1].params
Written_by(e) == {Value(e.sub[j]) : j \in {m \in DOMAIN e.sub :
                     LET p == Receives(e.sub, DeclaredOf(e), m) IN p # <<>> /\ Written(p[1].dir)}}
CallsIn(e) == {f \in Under(e) : f.op \in {"call", "fbcall"}}
Given_to_write(e, controls) == \A f \in CallsIn(e) : \A v \in Written_by(f) : Writable(v, controls)

Condition(e, controls) == BOOL \in Types(e) /\ Given_to_write(e, controls)
RECURSIVE Legal(_, _, _)
Block(list, controls, looping) == \A m \in DOMAIN list : Legal(list[m], controls, looping)
Legal(e, controls, looping) ==
    CASE e.op = "set" -> /\ Types(e.sub[1]) \cap Types(e.sub[2]) # {}
                         /\ Writable(e.sub[1], controls) /\ Given_to_write(e.sub[2], controls)
      [] e.op = "fbcall" -> Fits(e.sub, env.blocks[e.x]) /\ Given_to_write(e, controls)
      [] e.op \in {"if", "else"} -> Block(e.block, controls, looping)
      [] e.op = "arm" -> Block(e.block, controls, looping) /\ \A m \in DOMAIN e.sub : Condition(e.sub[m], controls)
      [] e.op = "case" -> /\ Types(e.sub[1]) \cap Nums # {} /\ Given_to_write(e.sub[1], controls)
                          /\ Block(e.block, controls, looping)
      [] e.op = "element" -> Block(e.block, controls, looping)
      [] e.op = "for" -> LET t == env.vars[e.sub[1].x].type
                         IN  /\ IsNum(t) /\ Writable(e.sub[1], controls)
                             /\ \A m \in 2 .. Len(e.sub) : t \in Types(e.sub[m]) /\ Given_to_write(e.sub[m], controls)
                             /\ Block(e.block, controls \cup {e.sub[1].x}, TRUE)
      [] e.op = "while" -> Condition(e.sub[1], controls) /\ Block(e.block, controls, TRUE)
      [] e.op = "repeat" -> Condition(e.sub[1], controls) /\ Block(e.block, controls, TRUE)
      [] e.op \in {"exit", "continue"} -> looping
      [] OTHER -> TRUE
(* A label has the type of the selector, and a subrange a first value.      *)
LabelsOf(e) == UNION {ToSet(e.block[m].sub) : m \in DOMAIN e.block}
Labelled(e) == \A f \in Under(e) : f.op = "case" =>
                 \A l \in LabelsOf(f) : \A q \in Under(l) : q.op # ".." => Types(f.sub[1]) \cap Types(q) \cap Nums # {}
Ordered(e) == \A f \in Under(e) : f.op = ".." => \A m \in Constant(f.sub[1]), n \in Constant(f.sub[2]) : m <= n
LegalProgram == Block(program, {}, FALSE) /\ \A m \in DOMAIN program : Labelled(program[m]) /\ Ordered(program[m])
Everywhere == UNION {Under(program[m]) : m \in DOMAIN program}

-----------------------------------------------------------------------------
(* The language: what a program does.  A number n comes with the types     *)
(* that could hold it all along.  A value out of the range of its type, a  *)
(* division by zero, the least integer MOD -1, the complement of an        *)
(* untyped literal, a choice between functions that differ and a loop that *)
(* goes past its limits are left open.                                     *)
Ending(n, fits, s) == [n |-> n, fits |-> fits, s |-> s]
Result(n, fits, s) == Ending(n, fits, [s EXCEPT !.open = @ \/ fits = {}])
Going(s) == s.fate = "go" /\ ~s.open

RECURSIVE Says(_, _)
(* The arguments in the order of the call: the value of each.              *)
Arguments(es, s) ==
    FoldLeft(LAMBDA outs, e : UNION {{[args |-> Append(o.args, r), s |-> r.s] : r \in Says(e, o.s)} : o \in outs}, {[args |-> <<>>, s |-> s]}, es)
Resolve(e, args) ==
    LET fs == Named(e.x)
    IN  IF Len(fs) = 1 THEN ToSet(fs) ELSE {f \in ToSet(fs) : f.params[1].type \in args[1].fits}
(* What a function is given: its inputs, the default if there is none, and *)
(* the variables it writes.                                                *)
Handed(e, f, args, mem) ==
    LET at(p) == {m \in DOMAIN e.sub : Receives(e.sub, f.params, m) = <<p>>}
        value(p) == IF at(p) = {} THEN p.default ELSE args[CHOOSE m \in at(p) : TRUE].n
        name(p) == p.name
        taken == {p \in ToSet(f.params) : p.dir = "in" \/ at(p) # {}}
    IN  [q \in {name(p) : p \in taken} |-> value(CHOOSE p \in taken : p.name = q)]
Write(e, declared, outs, mem) ==
    FoldLeft(LAMBDA m, j : LET p == Receives(e.sub, declared, j)
                           IN  IF Written(p[1].dir) THEN [m EXCEPT ![Value(e.sub[j]).x] = outs[p[1].name]] ELSE m,
             mem, [j \in DOMAIN e.sub |-> j])
SaysCall(e, o) ==
    LET fs == Resolve(e, o.args)
        made(f) == FunctionBody(f.id, Handed(e, f, o.args, o.s.mem))
        results == {made(f).result : f \in fs}
        f1 == CHOOSE f \in fs : TRUE
    IN  IF Cardinality(results) # 1 THEN Result(0, {}, o.s)
        ELSE Result(CHOOSE n \in results : TRUE, {f.type : f \in fs}, [o.s EXCEPT !.mem = Write(e, f1.params, made(f1).outs, @)])
SaysBinary(op, l, r) ==
    LET T == l.fits \cap r.fits \cap KindOf(op)
        s == r.s
        n == Calculate(op, l.n, r.n)
    IN  IF op \in {"DIV", "MOD"} /\ ((op = "DIV" /\ r.n = 0) \/ (r.n = -1 /\ l.n = Int64Min)) THEN Result(0, {}, s)
        ELSE IF op \in Cmp THEN Result(n, IF T = {} THEN {} ELSE {BOOL}, s)
        ELSE Result(n, {t \in T : n \in RangeOf(t)}, s)
(* The right side of AND and OR need not be looked at if the left decides. *)
Decides(op, l) == l.fits = {BOOL} /\ ((op = "AND" /\ l.n = 0) \/ (op = "OR" /\ l.n = 1))
Complement(r) ==
    LET T == r.fits \cap BitStrings
    IN  IF Cardinality(T) # 1 THEN Result(0, {}, r.s) ELSE Result(Max(UNION {RangeOf(t) : t \in T}) - r.n, T, r.s)
Says(e, s) ==
    CASE e.op = "var" -> {Result(s.mem[e.x], Types(e), s)}
      [] e.op \in {"int", "bool"} -> {Result(e.n, Types(e), s)}
      [] e.op = "neg" -> {Result(-e.n, Types(e), s)}
      [] e.op = "NEG" -> {Result(-r.n, {t \in r.fits : t[1] = "int" /\ -r.n \in RangeOf(t)}, r.s) : r \in Says(e.sub[1], s)}
      [] e.op = "NOT" -> {Complement(r) : r \in Says(e.sub[1], s)}
      [] e.op = "call" -> {SaysCall(e, o) : o \in Arguments([j \in DOMAIN e.sub |-> Value(e.sub[j])], s)}
      [] OTHER -> UNION {{SaysBinary(e.op, l, r) : r \in Says(e.sub[2], l.s)} \cup (IF Decides(e.op, l) THEN {l} ELSE {}) : l \in Says(e.sub[1], s)}

Assign(x, r) == IF env.vars[x].type \in r.fits THEN [r.s EXCEPT !.mem[x] = r.n] ELSE [r.s EXCEPT !.open = TRUE]
SaysInvoke(e, o) ==
    LET given == FoldLeft(LAMBDA s, j : LET p == Receives(e.sub, env.blocks[e.x], j)
                                        IN  IF p[1].dir = "out" THEN s ELSE Assign(Member(e.x, p[1]), [o.args[j] EXCEPT !.s = s]),
                          o.s, [j \in DOMAIN e.sub |-> j])
        after == BlockBody(e.x, given.mem)
        outs == [q \in {p.name : p \in ToSet(env.blocks[e.x])} |-> IF e.x \o "." \o q \in DOMAIN after THEN after[e.x \o "." \o q] ELSE 0]
    IN  [given EXCEPT !.mem = Write(e, env.blocks[e.x], outs, after)]

RECURSIVE Does(_, _)
DoesBlock(list, s) == FoldLeft(LAMBDA ss, e : UNION {IF Going(t) THEN Does(e, t) ELSE {t} : t \in ss}, {s}, list)
RECURSIVE DoesArms(_, _, _)
DoesArms(arms, m, s) ==
    IF m > Len(arms) THEN {s}
    ELSE IF arms[m].sub = <<>> THEN DoesBlock(arms[m].block, s)
    ELSE UNION {IF r.n = 1 THEN DoesBlock(arms[m].block, r.s) ELSE DoesArms(arms, m + 1, r.s) : r \in Says(arms[m].sub[1], s)}
Matches(l, n) == \E m \in DOMAIN l : LET of(e) == CHOOSE v \in Constant(e) : TRUE
                                     IN  IF l[m].op = ".." THEN n \in of(l[m].sub[1]) .. of(l[m].sub[2]) ELSE n = of(l[m])
DoesCase(elements, n, s) ==
    LET hit == SelectSeq(elements, LAMBDA a : a.op # "element" \/ Matches(a.sub, n))
    IN  IF hit = <<>> THEN {s} ELSE DoesBlock(hit[1].block, s)

Round(s) == [s EXCEPT !.fate = "go", !.fuel = @ - 1, !.open = s.fuel = 0]
RECURSIVE DoesFor(_, _, _, _), DoesLoop(_, _)
(* end and by are what they were when the loop was entered.                *)
DoesFor(e, end, by, s) ==
    LET x == e.sub[1].x
        n == s.mem[x]
        next(t) == IF n + by \in RangeOf(env.vars[x].type) THEN DoesFor(e, end, by, [Round(t) EXCEPT !.mem[x] = n + by]) ELSE {[t EXCEPT !.open = TRUE]}
        after(t) == CASE t.open \/ t.fate = "return" -> {t} [] t.fate = "exit" -> {[t EXCEPT !.fate = "go"]} [] OTHER -> next(t)
    IN  IF s.open \/ (IF by > 0 THEN n > end ELSE n < end) THEN {s} ELSE UNION {after(t) : t \in DoesBlock(e.block, s)}
After(t, Again(_)) ==
    CASE t.open \/ t.fate = "return" -> {t}
      [] t.fate = "exit" -> {[t EXCEPT !.fate = "go"]}
      [] OTHER -> Again(Round(t))
DoesLoop(e, s) ==
    LET tested(t, on) == UNION {IF r.n # on THEN {r.s} ELSE UNION {After(q, LAMBDA z : DoesLoop(e, z)) : q \in DoesBlock(e.block, r.s)} :
                                   r \in Says(e.sub[1], t)}
        test_after(t) == UNION {IF r.n = 1 \/ r.s.open THEN {r.s} ELSE DoesLoop(e, Round(r.s)) : r \in Says(e.sub[1], t)}
    IN  IF e.op = "while" THEN IF s.open THEN {s} ELSE tested(s, 1)
        ELSE UNION {IF t.open \/ t.fate \in {"exit", "return"} THEN {IF t.fate = "exit" THEN [t EXCEPT !.fate = "go"] ELSE t}
                    ELSE test_after([t EXCEPT !.fate = "go"]) : t \in IF s.open THEN {s} ELSE DoesBlock(e.block, s)}

Does(e, s) ==
    CASE e.op = "set" -> {Assign(e.sub[1].x, r) : r \in Says(e.sub[2], s)}
      [] e.op = "fbcall" -> {SaysInvoke(e, o) : o \in Arguments([j \in DOMAIN e.sub |-> Value(e.sub[j])], s)}
      [] e.op = "if" -> DoesArms(e.block, 1, s)
      [] e.op = "case" -> UNION {DoesCase(e.block, r.n, r.s) : r \in Says(e.sub[1], s)}
      [] e.op = "for" -> UNION {LET start == Assign(e.sub[1].x, [o.args[1] EXCEPT !.s = o.s])
                                IN  DoesFor(e, o.args[2].n, IF Len(o.args) > 2 THEN o.args[3].n ELSE 1, start) :
                                  o \in Arguments(Tail(e.sub), s)}
      [] e.op \in {"while", "repeat"} -> DoesLoop(e, s)
      [] OTHER -> {[s EXCEPT !.fate = e.op]}

LangScan(mem) == DoesBlock(program, [mem |-> mem, fate |-> "go", open |-> FALSE, fuel |-> MaxLoops])

-----------------------------------------------------------------------------
(* Where the generated code is known not to do what the language says.     *)
Effectful(e) == \E f \in CallsIn(e) : Written_by(f) # {}
Writes(e) == {v.x : v \in UNION {Written_by(f) : f \in CallsIn(e)}} \cup {f.sub[1].x : f \in {g \in Under(e) : g.op \in {"set", "for"}}}
Touches(e) == {v.x : v \in {f \in Under(e) : f.op = "var"}}

(* C may evaluate two operands, or two arguments, in any order.            *)
Interfering == \E e \in Everywhere :
    /\ e.op \in Binaries \cup {"call", "fbcall"} /\ ~(e.op \in {"AND", "OR"} /\ e.type = BOOL)
    /\ \E m, n \in DOMAIN e.sub : m # n /\ Writes(e.sub[m]) \cap Touches(e.sub[n]) # {}

(* A call is printed as often as its place is, a wrapper once, and none    *)
(* for a call in the parameters of another.                                *)
Misprinted == \E e \in Everywhere :
    \/ e.op = "call" /\ \E m \in DOMAIN e.sub : Effectful(e.sub[m])
    \/ (e.op = "MOD" \/ (e.op = "XOR" /\ e.type = BOOL)) /\ \E m \in DOMAIN e.sub : Effectful(e.sub[m])
    \/ e.op = "for" /\ Len(e.sub) = 4 /\ (Effectful(e.sub[3]) \/ Effectful(e.sub[4]))
    \/ /\ e.op = "fbcall" /\ Cardinality({m \in DOMAIN e.sub : Effectful(e.sub[m])}) > 1
       /\ \E m, n \in DOMAIN e.sub : m < n /\ Positional(e.sub) = <<>> /\
            \E p, q \in DOMAIN env.blocks[e.x] : q < p /\ env.blocks[e.x][p].name = e.sub[m].x /\ env.blocks[e.x][q].name = e.sub[n].x

(* An explicit EN takes the first argument, a VAR_EXTERNAL takes its own.  *)
Miscounted == \E f \in Everywhere :
    f.op \in {"call", "fbcall"} /\ Positional(f.sub) # <<>> /\ Passable(DeclaredOf(f)) # DeclaredOf(f)

(* The end and the step of a FOR loop are evaluated each time round.       *)
Reevaluated == \E e \in Everywhere : e.op = "for" /\
    \E m \in 3 .. Len(e.sub) : Effectful(e.sub[m]) \/ Touches(e.sub[m]) \cap ({e.sub[1].x} \cup UNION {Writes(e.block[n]) : n \in DOMAIN e.block}) # {}

(* The complement of a narrow bit string is an int with all its high bits  *)
(* set until it is stored.                                                 *)
Widened == \E e \in Everywhere : e.op \in Cmp /\ \E f \in Under(e) : f.op = "NOT" /\ f.type = BYTE

(* A scan ends in the memory the language says it ends in.                 *)
StScanAsLanguage ==
    [][cpu'.scans > cpu.scans /\ LegalProgram /\ ~(Interfering \/ Misprinted \/ Miscounted \/ Reevaluated \/ Widened) =>
         LET says == LangScan(cpu.mem)
         IN  (\A o \in says : ~o.open) => cpu'.fault = "none" /\ \E o \in says : o.mem = cpu'.mem]_vars

(* A program is accepted exactly if it is typed and writes what it may:    *)
(* but for what is not looked at, the labels of a CASE, what the bounds of *)
(* a FOR loop write and whether a jump is in a loop, and for the limits of *)
(* a constant with a sign.                                                 *)
SignedConstant == \E e \in Everywhere : e.op \in {"NEG", "NOT"} /\ Constant(e.sub[1]) # {}
Overlooked == \E e \in Everywhere :
    \/ e.op \in {"exit", "continue"} \/ ~Labelled(e)
    \/ e.op = "for" /\ \E m \in 2 .. Len(e.sub) : Effectful(e.sub[m])
(* A subrange of all the integers has a value more than a uint64 counts.   *)
Widest == \E e \in Everywhere : e.op = ".." /\
    \E m \in Constant(e.sub[1]), n \in Constant(e.sub[2]) : n - m >= Uint64Max
StRejectsIllegal ==
    /\ phase = "rejected" => ~LegalProgram \/ Widest
    /\ phase \in {"compiled", "internal_error", "not_c"} => LegalProgram \/ SignedConstant \/ Miscounted \/ Overlooked

(* A CASE is warned about exactly if two of its labels share a value, but  *)
(* for one in the ELSE of another, which is not looked at.                 *)
Holds(l) == IF l.op = ".." THEN UNION {m .. n : m \in Constant(l.sub[1]), n \in Constant(l.sub[2])} ELSE Constant(l)
Shared(e) == LET labels == case_elements(e)
             IN  \E m, n \in DOMAIN labels : m < n /\ Holds(labels[m]) \cap Holds(labels[n]) # {}
Looked_at == UNION {cases(program[m]) : m \in DOMAIN program}
OverlapsAreFound ==
    phase = "generate" =>
      \A e \in {f \in Everywhere : f.op = "case" /\ Labelled(f)} :
        IF e \in Looked_at THEN case_elements_check(e) <=> Shared(e) ELSE \E f \in Everywhere : f.op = "else" /\ e \in Under(f)

(* A program without errors becomes C code that compiles and links.        *)
StAcceptedIsC == phase \in {"internal_error", "not_c"} /\ LegalProgram => Misprinted
=============================================================================
