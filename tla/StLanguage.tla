----------------------------- MODULE StLanguage -----------------------------
(***************************************************************************)
(* What a LowPLC-ST program means and how it is written, from              *)
(* analysis/lowplcst_spec.md: the reference the compiler is compared with. *)
(* A memory maps <<variable, "">>, <<instance, output>> and                *)
(* <<instance, "M">> (the memory of an R_TRIG) to their values.  Of the    *)
(* function blocks only R_TRIG has a meaning here.                         *)
(***************************************************************************)
EXTENDS LowPlcParser, Words, SequencesExt

-----------------------------------------------------------------------------
(* The text of a tree, with only the parentheses that the precedence of    *)
(* the operators (3.5) asks for.                                           *)
Tok(t) == <<[t |-> t, v |-> 0]>>
Word(t, v) == <<[t |-> t, v |-> v]>>
Level(x) == CASE x.k = "bin"   -> CHOOSE k \in 1 .. 7 : x.op \in LevelOps[k]
              [] x.k = "not"   -> 4
              [] x.k = "minus" -> 8
              [] OTHER         -> 9

RECURSIVE TextAt(_, _)
Bare(x) ==
    CASE x.k = "lit_bool" -> Word("BOOL_LIT", x.v)
      [] x.k = "lit_int"  -> Word("INT_LIT", x.v)
      [] x.k = "lit_time" -> Word("TIME_LIT", x.v)
      [] x.k = "ref"   -> Word("IDENT", x.obj)
                            \o IF x.field = "" THEN <<>> ELSE Tok(".") \o Word("IDENT", x.field)
      [] x.k = "not"   -> Tok("NOT") \o TextAt(x.x, 4)
      [] x.k = "minus" -> Tok("-") \o TextAt(x.x, 8)
      [] x.k = "bin"   -> TextAt(x.l, IF Level(x) = 5 THEN 6 ELSE Level(x))
                            \o Tok(x.op) \o TextAt(x.r, Level(x) + 1)
TextAt(x, k) == IF Level(x) < k THEN Tok("(") \o Bare(x) \o Tok(")") ELSE Bare(x)
ExprText(x) == TextAt(x, 1)

RECURSIVE StmtsText(_)
StmtText(s) ==
    CASE s.k = "assign" -> Word("IDENT", s.target) \o Tok(":=") \o ExprText(s.x) \o Tok(";")
      [] s.k = "call"   ->
            Word("IDENT", s.fb) \o Tok("(")
              \o FlattenSeq([k \in DOMAIN s.args |->
                    Word("IDENT", s.args[k].name) \o Tok(":=") \o ExprText(s.args[k].x)
                      \o IF k = Len(s.args) THEN <<>> ELSE Tok(",")])
              \o Tok(")") \o Tok(";")
      [] s.k = "if"     ->
            Tok("IF") \o ExprText(s.cond) \o Tok("THEN") \o StmtsText(s.then)
              \o FlattenSeq([k \in DOMAIN s.elsifs |->
                    Tok("ELSIF") \o ExprText(s.elsifs[k].cond) \o Tok("THEN") \o StmtsText(s.elsifs[k].body)])
              \o (IF s.els = <<>> THEN <<>> ELSE Tok("ELSE") \o StmtsText(s.els))
              \o Tok("END_IF") \o Tok(";")
      [] s.k = "for"    ->
            Tok("FOR") \o Word("IDENT", s.var) \o Tok(":=") \o ExprText(s.from) \o Tok("TO")
              \o ExprText(s.to) \o Tok("DO") \o StmtsText(s.body) \o Tok("END_FOR") \o Tok(";")
StmtsText(b) == FlattenSeq([k \in DOMAIN b |-> StmtText(b[k])])

TextOf(prog) ==
    Tok("PROGRAM") \o Word("IDENT", "main") \o Tok("VAR")
      \o FlattenSeq([k \in DOMAIN prog.vars |->
            Word("IDENT", prog.vars[k].name) \o Tok(":") \o Tok(prog.vars[k].type)
              \o (IF prog.vars[k].init = None THEN <<>> ELSE Tok(":=") \o ExprText(prog.vars[k].init))
              \o Tok(";")])
      \o Tok("END_VAR") \o StmtsText(prog.body) \o Tok("END_PROGRAM")
      \o Tok("CONFIGURATION") \o Tok("TASK") \o Tok("INTERVAL") \o Tok(":=")
      \o Word("TIME_LIT", prog.tick_ms) \o Tok("END_CONFIGURATION") \o Tok("EOF")

-----------------------------------------------------------------------------
RECURSIVE eval(_, _)
eval(x, m) ==
    CASE x.k \in {"lit_bool", "lit_time"} -> x.v
      [] x.k = "lit_int" -> wrap_i16(x.v)
      [] x.k = "ref"     -> m[<<x.obj, x.field>>]
      [] x.k = "not"     -> ~eval(x.x, m)
      [] x.k = "minus"   -> wrap_i16(-eval(x.x, m))
      [] x.k = "bin"     ->
            LET l == eval(x.l, m)
                r == eval(x.r, m)
            IN  CASE x.op = "AND" -> l /\ r   [] x.op = "OR" -> l \/ r   [] x.op = "XOR" -> l # r
                  [] x.op = "="   -> l = r    [] x.op = "<>" -> l # r
                  [] x.op = "<"   -> l < r    [] x.op = ">"  -> l > r
                  [] x.op = "<="  -> l <= r   [] x.op = ">=" -> l >= r
                  [] x.op = "+"   -> add_wrap(l, r) [] x.op = "-" -> sub_wrap(l, r)
                  [] x.op = "*"   -> mul_wrap(l, r)

RECURSIVE run(_, _)
RECURSIVE while(_, _)
choose(s, m) ==
    IF eval(s.cond, m) THEN s.then
    ELSE LET true == {k \in DOMAIN s.elsifs : eval(s.elsifs[k].cond, m)}
         IN  IF true = {} THEN s.els ELSE s.elsifs[CHOOSE k \in true : \A j \in true : k <= j].body
run_stmt(s, m) ==
    CASE s.k = "assign" -> [m EXCEPT ![<<s.target, "">>] = eval(s.x, m)]
      [] s.k = "call"   -> LET clk == eval(s.args[1].x, m)
                           IN  [m EXCEPT ![<<s.fb, "Q">>] = clk /\ ~m[<<s.fb, "M">>], ![<<s.fb, "M">>] = clk]
      [] s.k = "if"     -> run(choose(s, m), m)
      [] s.k = "for"    -> while(s, [m EXCEPT ![<<s.var, "">>] = eval(s.from, m)])
while(s, m) ==
    IF m[<<s.var, "">>] > eval(s.to, m) THEN m
    ELSE while(s, [run(s.body, m) EXCEPT ![<<s.var, "">>] = add_wrap(@, 1)])
run(b, m) == FoldLeft(LAMBDA n, s : run_stmt(s, n), m, b)

(* The memory before the first scan: declared initial values, else 0.      *)
Initial(prog) ==
    LET keys == {<<prog.vars[k].name, f>> : k \in DOMAIN prog.vars, f \in {"", "Q", "M"}}
        decl(key) == prog.vars[CHOOSE k \in DOMAIN prog.vars : prog.vars[k].name = key[1]]
        none == [x \in {} |-> 0]
    IN  [key \in keys |->
            CASE key[2] # "" -> FALSE
              [] decl(key).init # None -> eval(decl(key).init, none)
              [] decl(key).type = "BOOL" -> FALSE
              [] OTHER -> 0]
=============================================================================
