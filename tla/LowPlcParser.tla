---------------------------- MODULE LowPlcParser ----------------------------
(***************************************************************************)
(* The parser and the type checker of the compiler, classes Parser and     *)
(* TypeChecker of tools/lowplcst_parser.py.  The parser descends           *)
(* recursively over the tokens of a program.  A token has a type t and a   *)
(* value v.  A parse function takes the tokens and the position self       *)
(* stands at, and returns the tree and the new position, or Bad: a syntax  *)
(* error ends the compilation.                                             *)
(***************************************************************************)
EXTENDS Integers, Sequences

Bad == [ok |-> FALSE, x |-> <<>>, p |-> 0]
Got(x, p) == [ok |-> TRUE, x |-> x, p |-> p]
(* One parse function after another.                                       *)
Then(r, Rest(_)) == IF r.ok THEN Rest(r) ELSE Bad

At(ts, p, t) == ts[p].t = t
(* A run of tokens that must have these types.                             *)
Expect(ts, p, types) == p + Len(types) - 1 <= Len(ts)
                          /\ \A k \in 1 .. Len(types) : ts[p + k - 1].t = types[k]
(* The tokens of these types at p, then r.                                 *)
After(ts, p, types, r) == IF Expect(ts, p, types) THEN r ELSE Bad

None == [k |-> "none"]
LitBool(v) == [k |-> "lit_bool", v |-> v]
LitInt(v) == [k |-> "lit_int", v |-> v]
LitTime(ms) == [k |-> "lit_time", v |-> ms]
(* A variable, or an output of a function block.                           *)
Ref(obj, field) == [k |-> "ref", obj |-> obj, field |-> field]
Not(x) == [k |-> "not", x |-> x]
Minus(x) == [k |-> "minus", x |-> x]
Bin(op, l, r) == [k |-> "bin", op |-> op, l |-> l, r |-> r]

-----------------------------------------------------------------------------
(* Expressions, by level of precedence: 1 OR, 2 XOR, 3 AND, 4 NOT,         *)
(* 5 comparison, 6 + -, 7 *, 8 unary minus, 9 atom.                        *)
CmpOps == {"=", "<>", "<", ">", "<=", ">="}
LevelOps == <<{"OR"}, {"XOR"}, {"AND"}, {}, CmpOps, {"+", "-"}, {"*"}, {}>>

RECURSIVE parse_level(_, _, _)
RECURSIVE parse_rest(_, _, _)

(* The while loop of a level of left-associative operators; comparisons do *)
(* not associate.                                                          *)
parse_rest(k, ts, left) ==
    IF ts[left.p].t \notin LevelOps[k] THEN left
    ELSE Then(parse_level(k + 1, ts, left.p + 1), LAMBDA right :
           Then(Got(Bin(ts[left.p].t, left.x, right.x), right.p), LAMBDA both :
             IF k = 5 THEN both ELSE parse_rest(k, ts, both)))

parse_atom(ts, p) ==
    CASE At(ts, p, "INT_LIT")  -> Got(LitInt(ts[p].v), p + 1)
      [] At(ts, p, "BOOL_LIT") -> Got(LitBool(ts[p].v), p + 1)
      [] At(ts, p, "TIME_LIT") -> Got(LitTime(ts[p].v), p + 1)
      [] At(ts, p, "IDENT")    ->
            IF ~At(ts, p + 1, ".") THEN Got(Ref(ts[p].v, ""), p + 1)
            ELSE IF At(ts, p + 2, "IDENT") THEN Got(Ref(ts[p].v, ts[p + 2].v), p + 3) ELSE Bad
      [] At(ts, p, "(") -> Then(parse_level(1, ts, p + 1), LAMBDA e : After(ts, e.p, <<")">>, Got(e.x, e.p + 1)))
      [] OTHER -> Bad

(* NOT takes a whole comparison; a minus sign takes one atom.              *)
parse_prefix(k, Op(_), ts, p) == Then(parse_level(k, ts, p + 1), LAMBDA e : Got(Op(e.x), e.p))

(* Mutant: NOT takes only the first operand of a comparison.               *)
parse_level_tight_not(k, ts, p) ==
    CASE k = 9 -> IF At(ts, p, "NOT") THEN parse_prefix(9, Not, ts, p) ELSE parse_atom(ts, p)
      [] k = 8 /\ At(ts, p, "-") -> parse_prefix(8, Minus, ts, p)
      [] OTHER -> Then(parse_level(k + 1, ts, p), LAMBDA left : parse_rest(k, ts, left))

parse_level(k, ts, p) ==
    CASE k = 9                     -> parse_atom(ts, p)
      [] k = 4 /\ At(ts, p, "NOT") -> parse_prefix(4, Not, ts, p)
      [] k = 8 /\ At(ts, p, "-")   -> parse_prefix(8, Minus, ts, p)
      [] OTHER                     -> Then(parse_level(k + 1, ts, p), LAMBDA left : parse_rest(k, ts, left))

parse_expr(ts, p) == parse_level(1, ts, p)

-----------------------------------------------------------------------------
(* Statements.                                                             *)
Assign(name, x) == [k |-> "assign", target |-> name, x |-> x]
FbCall(name, args) == [k |-> "call", fb |-> name, args |-> args]
If(cond, then, elsifs, els) ==
    [k |-> "if", cond |-> cond, then |-> then, elsifs |-> elsifs, els |-> els]
For(var, from, to, body) == [k |-> "for", var |-> var, from |-> from, to |-> to, body |-> body]

Stop == {"END_PROGRAM", "END_IF", "END_FOR", "ELSIF", "ELSE", "EOF"}

RECURSIVE parse_stmt_list(_, _)
RECURSIVE parse_args(_, _, _)
RECURSIVE parse_elsifs(_, _, _)

(* The arguments of a call; the comma between two is optional.             *)
parse_args(ts, p, args) ==
    IF At(ts, p, ")") THEN Got(args, p + 1)
    ELSE After(ts, p, <<"IDENT", ":=">>, Then(parse_expr(ts, p + 2), LAMBDA e :
           parse_args(ts, IF At(ts, e.p, ",") THEN e.p + 1 ELSE e.p,
                      Append(args, [name |-> ts[p].v, x |-> e.x]))))

parse_assign_or_fb_call(ts, p) ==
    IF Expect(ts, p, <<"IDENT", "(">>)
    THEN Then(parse_args(ts, p + 2, <<>>), LAMBDA a :
           After(ts, a.p, <<";">>, Got(FbCall(ts[p].v, a.x), a.p + 1)))
    ELSE After(ts, p, <<"IDENT", ":=">>, Then(parse_expr(ts, p + 2), LAMBDA e :
           After(ts, e.p, <<";">>, Got(Assign(ts[p].v, e.x), e.p + 1))))

(* An expression, the token t and a list of statements.                    *)
parse_guarded(ts, p, t) ==
    Then(parse_expr(ts, p), LAMBDA e :
      After(ts, e.p, <<t>>, Then(parse_stmt_list(ts, e.p + 1), LAMBDA b :
        Got([cond |-> e.x, body |-> b.x], b.p))))

parse_elsifs(ts, p, clauses) ==
    IF ~At(ts, p, "ELSIF") THEN Got(clauses, p)
    ELSE Then(parse_guarded(ts, p + 1, "THEN"), LAMBDA c : parse_elsifs(ts, c.p, Append(clauses, c.x)))

parse_else(ts, p) == IF At(ts, p, "ELSE") THEN parse_stmt_list(ts, p + 1) ELSE Got(<<>>, p)

parse_if(ts, p) ==
    Then(parse_guarded(ts, p + 1, "THEN"), LAMBDA c :
      Then(parse_elsifs(ts, c.p, <<>>), LAMBDA s :
        Then(parse_else(ts, s.p), LAMBDA e :
          After(ts, e.p, <<"END_IF", ";">>, Got(If(c.x.cond, c.x.body, s.x, e.x), e.p + 2)))))

parse_for(ts, p) ==
    After(ts, p, <<"FOR", "IDENT", ":=">>, Then(parse_expr(ts, p + 3), LAMBDA from :
      After(ts, from.p, <<"TO">>, Then(parse_guarded(ts, from.p + 1, "DO"), LAMBDA to :
        After(ts, to.p, <<"END_FOR", ";">>,
              Got(For(ts[p + 1].v, from.x, to.x.cond, to.x.body), to.p + 2))))))

parse_stmt(ts, p) == CASE At(ts, p, "IF")    -> parse_if(ts, p)
                       [] At(ts, p, "FOR")   -> parse_for(ts, p)
                       [] At(ts, p, "IDENT") -> parse_assign_or_fb_call(ts, p)
                       [] OTHER              -> Bad

parse_stmt_list(ts, p) ==
    IF ts[p].t \in Stop THEN Got(<<>>, p)
    ELSE Then(parse_stmt(ts, p), LAMBDA s :
           Then(parse_stmt_list(ts, s.p), LAMBDA rest : Got(<<s.x>> \o rest.x, rest.p)))

-----------------------------------------------------------------------------
(* The program: its variables, its body, and the interval of its task.     *)
TypeNames == {"BOOL", "INT", "TIME", "SR", "RS", "R_TRIG", "F_TRIG",
              "TON", "TOF", "TP", "CTU", "CTD", "CTUD"}

RECURSIVE parse_var_block(_, _, _)
parse_init(ts, p) == IF At(ts, p, ":=") THEN parse_expr(ts, p + 1) ELSE Got(None, p)
parse_var_block(ts, p, decls) ==
    IF At(ts, p, "END_VAR") THEN Got(decls, p + 1)
    ELSE IF ts[p + 2].t \notin TypeNames THEN Bad
    ELSE After(ts, p, <<"IDENT", ":">>, Then(parse_init(ts, p + 3), LAMBDA init :
           After(ts, init.p, <<";">>,
                 parse_var_block(ts, init.p + 1,
                   Append(decls, [name |-> ts[p].v, type |-> ts[p + 2].t, init |-> init.x])))))

DefaultTickMs == 10
(* TASK t(INTERVAL := T#..); its PRIORITY is not used.  The other names    *)
(* of the configuration are of no consequence.                             *)
parse_configuration(ts, p) ==
    IF ~At(ts, p, "CONFIGURATION") THEN Got(DefaultTickMs, p)
    ELSE After(ts, p, <<"CONFIGURATION", "TASK", "INTERVAL", ":=", "TIME_LIT", "END_CONFIGURATION">>,
               Got(ts[p + 4].v, p + 6))

parse(ts) ==
    After(ts, 1, <<"PROGRAM", "IDENT", "VAR">>, Then(parse_var_block(ts, 4, <<>>), LAMBDA vars :
      Then(parse_stmt_list(ts, vars.p), LAMBDA body :
        After(ts, body.p, <<"END_PROGRAM">>, Then(parse_configuration(ts, body.p + 1), LAMBDA task :
          After(ts, task.p, <<"EOF">>,
                Got([vars |-> vars.x, body |-> body.x, tick_ms |-> task.x], task.p)))))))

-----------------------------------------------------------------------------
(* The type checker, class TypeChecker.  It rejects undeclared names and   *)
(* assignments and conditions of the wrong type; it asks nothing of the    *)
(* operands of an operator and of the arguments of a call.                 *)
FB_TYPES == {"SR", "RS", "R_TRIG", "F_TRIG", "TON", "TOF", "TP", "CTU", "CTD", "CTUD"}
Timers == {"TON", "TOF", "TP"}
BoolOps == {"AND", "OR", "XOR"}
IntOps == {"+", "-", "*"}

(* FB_OUTPUT_TYPES, as pairs of a field and its type.                      *)
Outputs(fb) == CASE fb \in Timers                           -> {<<"Q", "BOOL">>, <<"ET", "TIME">>}
                 [] fb \in {"CTU", "CTD"}                   -> {<<"Q", "BOOL">>, <<"CV", "INT">>}
                 [] fb = "CTUD" -> {<<"QU", "BOOL">>, <<"QD", "BOOL">>, <<"CV", "INT">>}
                 [] fb \in {"R_TRIG", "F_TRIG"}             -> {<<"Q", "BOOL">>}
                 [] fb \in {"SR", "RS"}                     -> {<<"Q1", "BOOL">>}

(* The declared type of a name, the last declaration winning.              *)
Declared(prog, name) == \E k \in 1 .. Len(prog.vars) : prog.vars[k].name = name
TypeOf(prog, name) ==
    LET k == CHOOSE k \in 1 .. Len(prog.vars) :
                 /\ prog.vars[k].name = name
                 /\ \A j \in k + 1 .. Len(prog.vars) : prog.vars[j].name # name
    IN  prog.vars[k].type

Wrong == "wrong"    \* an error has been reported

RECURSIVE infer_expr(_, _)
infer_expr(prog, x) ==
    CASE x.k = "lit_bool" -> "BOOL"
      [] x.k = "lit_int"  -> "INT"
      [] x.k = "lit_time" -> "TIME"
      [] x.k = "ref" /\ x.field = "" ->
            IF Declared(prog, x.obj) /\ TypeOf(prog, x.obj) \notin FB_TYPES
            THEN TypeOf(prog, x.obj) ELSE Wrong
      [] x.k = "ref" /\ x.field # "" ->
            IF Declared(prog, x.obj) /\ TypeOf(prog, x.obj) \in FB_TYPES
               /\ \E o \in Outputs(TypeOf(prog, x.obj)) : o[1] = x.field
            THEN (CHOOSE o \in Outputs(TypeOf(prog, x.obj)) : o[1] = x.field)[2] ELSE Wrong
      [] x.k = "not"   -> IF infer_expr(prog, x.x) = Wrong THEN Wrong ELSE "BOOL"
      [] x.k = "minus" -> IF infer_expr(prog, x.x) = Wrong THEN Wrong ELSE "INT"
      [] x.k = "bin"   -> IF Wrong \in {infer_expr(prog, x.l), infer_expr(prog, x.r)} THEN Wrong
                          ELSE IF x.op \in IntOps THEN "INT" ELSE "BOOL"

RECURSIVE check_stmts(_, _)
check_stmt(prog, s) ==
    CASE s.k = "assign" -> /\ Declared(prog, s.target) /\ TypeOf(prog, s.target) \notin FB_TYPES
                           /\ infer_expr(prog, s.x) = TypeOf(prog, s.target)
      [] s.k = "call"   -> /\ Declared(prog, s.fb) /\ TypeOf(prog, s.fb) \in FB_TYPES
                           /\ \A k \in 1 .. Len(s.args) : infer_expr(prog, s.args[k].x) # Wrong
      [] s.k = "if"     -> /\ infer_expr(prog, s.cond) = "BOOL"
                           /\ check_stmts(prog, s.then) /\ check_stmts(prog, s.els)
                           /\ \A k \in 1 .. Len(s.elsifs) :
                                 /\ infer_expr(prog, s.elsifs[k].cond) = "BOOL"
                                 /\ check_stmts(prog, s.elsifs[k].body)
      [] s.k = "for"    -> /\ Declared(prog, s.var) /\ TypeOf(prog, s.var) = "INT"
                           /\ Wrong \notin {infer_expr(prog, s.from), infer_expr(prog, s.to)}
                           /\ check_stmts(prog, s.body)
check_stmts(prog, b) == \A k \in 1 .. Len(b) : check_stmt(prog, b[k])

check(prog) == check_stmts(prog, prog.body)
=============================================================================
