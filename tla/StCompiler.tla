----------------------------- MODULE StCompiler -----------------------------
(***************************************************************************)
(* A program in Structured Text from its source to the C code that runs:   *)
(* the passes of stage3.cc, the expressions and statements of              *)
(* stage4/generate_c/generate_c_st.cc, the wrappers for calls with outputs *)
(* of generate_c_inlinefcall.cc, and the execution of that code, one scan  *)
(* at a time.                                                              *)
(*                                                                         *)
(* A call that passes a variable to an OUT or IN_OUT is generated as a     *)
(* call of a wrapper, which copies the variable in and out.  Two passes    *)
(* over the program, one that writes the wrappers and one that writes the  *)
(* calls, number them independently.                                       *)
(***************************************************************************)
EXTENDS StAnalysis, FiniteSets

CONSTANTS Programs, Memories,    \* what is compiled, and what it starts on
          FunctionBody(_, _),    \* what a function makes of its inputs: [result, outs]
          BlockBody(_, _),       \* what an instance of a block makes of the memory
          MaxLoops, MaxScans     \* iterations in a scan, and scans, before a run is left alone

VARIABLES
    phase,       \* the pass to run next, or how the compiler ended
    program,     \* the statements, with what the passes noted down
    code,        \* the generated program: [body, wrappers]
    cpu          \* the running program: [mem, fault, scans]

vars == <<phase, program, code, cpu>>

-----------------------------------------------------------------------------
(* What a call gives the k-th declared parameter: a sequence with at most  *)
(* one value.                                                              *)
argument(params, declared, k) ==
    IF Positional(params) = <<>> THEN LET given == search_f(params, declared[k].name) IN [j \in DOMAIN given |-> Value(given[j])]
    ELSE IF k <= Len(params) THEN <<Value(params[k])>> ELSE <<>>
TooMany(params, declared) == Len(Positional(params)) > Len(declared)

(* The places an argument is written back to: [name, x].                   *)
outputs(params, declared) ==
    LET written == SelectSeq([k \in DOMAIN declared |-> k], LAMBDA k : Written(declared[k].dir) /\ argument(params, declared, k) # <<>>)
    IN  [j \in DOMAIN written |-> [name |-> declared[written[j]].name, x |-> argument(params, declared, written[j])[1].x]]
has_output_params(e) == outputs(e.sub, e.decl[1].params) # <<>>

-----------------------------------------------------------------------------
(* The C code: nodes [c, x, n, t, kids], the kids in the order they are    *)
(* printed in, a block of statements among them.                           *)
C(c, kids) == [c |-> c, x |-> "", n |-> 0, t |-> NULL, kids |-> kids]
Num(n) == [C("num", <<>>) EXCEPT !.n = n]
Get(x, t) == [C("get", <<>>) EXCEPT !.x = x, !.t = t]
Local(t) == [C("local", <<>>) EXCEPT !.t = t]
Cast(t, c) == [C("cast", <<c>>) EXCEPT !.t = t]
SetVar(x, t, c) == [C("set", <<c>>) EXCEPT !.x = x, !.t = t]
SetLocal(t, c) == [C("setlocal", <<c>>) EXCEPT !.t = t]
ERROR == C("ERROR", <<>>)

Operators == [AND |-> "&", OR |-> "|", XOR |-> "^", EQ |-> "==", NE |-> "!=", LT |-> "<", GT |-> ">",
              LE |-> "<=", GE |-> ">=", ADD |-> "+", SUB |-> "-", MUL |-> "*", DIV |-> "/"]
Logical == [AND |-> "&&", OR |-> "||"]

xor_expression(l, r) == C("||", <<C("&&", <<l, C("!", <<r>>)>>), C("&&", <<C("!", <<l>>), r>>)>>)
mod_expression(l, r) == C("?:", <<C("==", <<r, Num(0)>>), Num(0), C("%", <<l, r>>)>>)
binary_expression(e, l, r) ==
    IF e.op \in Logic /\ ~IsBit(e.type) THEN ERROR
    ELSE C(IF e.op \in {"AND", "OR"} /\ e.type = BOOL THEN Logical[e.op] ELSE Operators[e.op], <<l, r>>)

(* The inputs, each cast to the type of its parameter; a call with outputs *)
(* is marked for a number.                                                 *)
Inputs(params) == SelectSeq(params, LAMBDA p : p.dir = "in")
RECURSIVE expression(_)
input_value(params, declared, p) ==
    LET given == argument(params, declared, CHOOSE k \in DOMAIN declared : declared[k] = p)
    IN  Cast(p.type, IF given = <<>> THEN Num(p.default) ELSE expression(given[1]))
function_invocation(e, f) ==
    IF TooMany(e.sub, f.params) \/ \E j \in DOMAIN f.params : f.params[j].dir = "extref" THEN ERROR
    ELSE [C("call", [j \in DOMAIN Inputs(f.params) |-> input_value(e.sub, f.params, Inputs(f.params)[j])])
            EXCEPT !.x = f.id, !.t = f.type, !.n = Flag(has_output_params(e))]

operator(e, kids) ==
    CASE e.op = "XOR" /\ e.type = BOOL -> xor_expression(kids[1], kids[2])
      [] e.op = "MOD" -> mod_expression(kids[1], kids[2])
      [] e.op \in Binaries -> binary_expression(e, kids[1], kids[2])
      [] e.op = "NEG" -> C("neg", kids)
      [] e.op = "NOT" -> C(IF e.type = BOOL THEN "!" ELSE "~", kids)
expression(e) ==
    CASE e.op = "var" -> Get(e.x, env.vars[e.x].type)
      [] e.op = "neg" -> Num(-e.n)
      [] e.op \in {"int", "bool"} -> Num(e.n)
      [] e.op = "call" -> IF e.decl = <<>> THEN ERROR ELSE function_invocation(e, e.decl[1])
      [] OTHER -> operator(e, [k \in DOMAIN e.sub |-> expression(e.sub[k])])

-----------------------------------------------------------------------------
(* Statements: the nodes each of them becomes.                             *)
Member(fb, p) == fb \o "." \o p.name
Assigned(v, c) == SetVar(v, env.vars[v].type, c)

(* The inputs in the order they are declared, the block, its outputs.      *)
(* Mutant: what an IN_OUT holds after the call is not handed back.         *)
fb_invocation_in_out_kept(e, params) ==
    LET given(dirs) == SelectSeq([j \in DOMAIN params |-> j],
                                 LAMBDA j : params[j].dir \in dirs /\ argument(e.sub, params, j) # <<>>)
        value(j) == argument(e.sub, params, j)[1]
        give(j) == SetVar(Member(e.x, params[j]), params[j].type, expression(value(j)))
        take(j) == Assigned(value(j).x, Get(Member(e.x, params[j]), params[j].type))
    IN  [k \in DOMAIN given({"in", "inout"}) |-> give(given({"in", "inout"})[k])]
        \o <<[C("invoke", <<>>) EXCEPT !.x = e.x]>> \o [k \in DOMAIN given({"out"}) |-> take(given({"out"})[k])]
fb_invocation(e, params) ==
    LET given(dirs) == SelectSeq([j \in DOMAIN params |-> j],
                                 LAMBDA j : params[j].dir \in dirs /\ argument(e.sub, params, j) # <<>>)
        value(j) == argument(e.sub, params, j)[1]
        give(j) == SetVar(Member(e.x, params[j]), params[j].type, expression(value(j)))
        take(j) == Assigned(value(j).x, Get(Member(e.x, params[j]), params[j].type))
    IN  [k \in DOMAIN given({"in", "inout"}) |-> give(given({"in", "inout"})[k])]
        \o <<[C("invoke", <<>>) EXCEPT !.x = e.x]>>
        \o [k \in DOMAIN given({"out", "inout"}) |-> take(given({"out", "inout"})[k])]

RECURSIVE statement(_)
statement_list(list) == C("block", FlattenSeq([k \in DOMAIN list |-> statement(list[k])]))
(* IF: each condition is followed by what it guards.                       *)
if_statement(e) ==
    C("if", FlattenSeq([k \in DOMAIN e.block |->
              [j \in DOMAIN e.block[k].sub |-> expression(e.block[k].sub[j])] \o <<statement_list(e.block[k].block)>>]))

(* CASE: the selector is kept in a variable of the type it was given.      *)
subrange(t, low, high) == C("&&", <<C(">=", <<Local(t), low>>), C("<=", <<Local(t), high>>)>>)
case_label(t, e) ==
    IF e.op = ".." THEN subrange(t, expression(e.sub[1]), expression(e.sub[2])) ELSE C("==", <<Local(t), expression(e)>>)
case_list(t, labels) == FoldLeft(LAMBDA c, e : C("||", <<c, case_label(t, e)>>), Num(0), labels)
case_element(t, e) ==
    (IF e.op = "element" THEN <<case_list(t, e.sub)>> ELSE <<>>) \o <<statement_list(e.block)>>
case_statement(e, t) ==
    <<SetLocal(t, expression(e.sub[1])), C("if", FlattenSeq([k \in DOMAIN e.block |-> case_element(t, e.block[k])]))>>

(* FOR: an increment that is skipped the first time, a test, the body.     *)
increment(i, t, by) == C("block", <<SetVar(i, t, C("+", <<Get(i, t), by>>))>>)
for_test(i, end) == C("<=", <<i, end>>)
for_test_by(i, by, end) == C("?:", <<C(">", <<by, Num(0)>>), C("<=", <<i, end>>), C(">=", <<i, end>>)>>)
for_loop(i, t, ends, body) ==
    <<SetVar(i, t, ends[1]),
      C("for", IF Len(ends) = 2 THEN <<increment(i, t, Num(1)), for_test(Get(i, t), ends[2]), body>>
               ELSE <<increment(i, t, ends[3]), for_test_by(Get(i, t), ends[3], ends[2]), body>>)>>
for_statement(e) ==
    for_loop(e.sub[1].x, env.vars[e.sub[1].x].type, [k \in 1 .. Len(e.sub) - 1 |-> expression(e.sub[k + 1])], statement_list(e.block))

Jumps == [exit |-> "break", continue |-> "continue", return |-> "goto"]
statement(e) ==
    CASE e.op = "set" -> <<Assigned(e.sub[1].x, expression(e.sub[2]))>>
      [] e.op = "fbcall" -> fb_invocation(e, env.blocks[e.x])
      [] e.op = "if" -> <<if_statement(e)>>
      [] e.op = "case" -> case_statement(e, e.sub[1].type)
      [] e.op = "for" -> for_statement(e)
      [] e.op = "while" -> <<C("while", <<expression(e.sub[1]), statement_list(e.block)>>)>>
      [] e.op = "repeat" -> <<C("do", <<statement_list(e.block), C("!", <<expression(e.sub[1])>>)>>)>>
      [] OTHER -> <<C(Jumps[e.op], <<>>)>>

(* fcall_number: the calls of wrappers are numbered as they are printed.   *)
Marked(c) == c.c = "call" /\ c.n > 0
RECURSIVE Count(_)
Count(c) == FoldLeft(LAMBDA n, kid : n + Count(kid), Flag(Marked(c)), c.kids)
Count_all(cs) == FoldLeft(LAMBDA n, c : n + Count(c), 0, cs)
RECURSIVE numbered(_, _)
numbered_kids(c, n, k) ==
    [c EXCEPT !.n = n, !.kids = [j \in DOMAIN @ |-> numbered(@[j], k + Count_all(SubSeq(@, 1, j - 1)))]]
numbered(c, k) == IF Marked(c) THEN numbered_kids(c, k + 1, k + 1) ELSE numbered_kids(c, c.n, k)

-----------------------------------------------------------------------------
(* The wrappers: function_call_iterator finds the calls in the order of    *)
(* the source, but none within the parameters of another.                  *)
RECURSIVE calls(_)
calls_under(es) == FlattenSeq([k \in DOMAIN es |-> calls(es[k])])
calls(e) == CASE e.op = "call" -> <<e>>
              [] e.op = "repeat" -> calls_under(e.block \o e.sub)
              [] OTHER -> calls_under(e.sub \o e.block)
(* Mutant: the wrappers of each function are numbered for themselves.      *)
generate_inline_per_function(done, e) ==
    IF ~has_output_params(e) THEN done
    ELSE Append(done, [id |-> e.decl[1].id, n |-> Len(SelectSeq(done, LAMBDA w : w.id = e.decl[1].id)) + 1,
                       outs |-> outputs(e.sub, e.decl[1].params)])
generate_inline(done, e) ==
    IF ~has_output_params(e) THEN done
    ELSE Append(done, [id |-> e.decl[1].id, n |-> Len(done) + 1, outs |-> outputs(e.sub, e.decl[1].params)])
inline_functions(list) == FoldLeft(generate_inline, <<>>, calls_under(list))

(* What a C compiler and its linker accept of what was generated.          *)
RECURSIVE Everything(_)
Everything(c) == {c} \cup UNION {Everything(c.kids[k]) : k \in DOMAIN c.kids}
RECURSIVE Outside(_)
Outside(c) == \/ c.c \in {"break", "continue"}
              \/ c.c \in {"if", "block"} /\ \E k \in DOMAIN c.kids : Outside(c.kids[k])
wrapper(wrappers, id, n) == SelectSeq(wrappers, LAMBDA w : w.id = id /\ w.n = n)
Links(body, wrappers) ==
    /\ \A f \in Everything(body) : (f.c = "call" /\ f.n > 0) => wrapper(wrappers, f.x, f.n) # <<>>
    /\ \A k \in DOMAIN wrappers : \A j \in DOMAIN wrappers[k].outs : wrappers[k].outs[j].x \in DOMAIN env.vars
IsC(c) == Links(c.body, c.wrappers) /\ ~Outside(c.body)
Stops(c) == ERROR \in Everything(c.body)

-----------------------------------------------------------------------------
(* The machine.  C's int is as wide as the widest type; a signed overflow  *)
(* and a division by zero are undefined, and so is the order in which two  *)
(* operands, or two arguments, are evaluated: c_eval gives every outcome   *)
(* [v, u, s], a value, whether it is unsigned, and the state after it.     *)
Bits_of_int == Widths[Len(Widths)]
Modulus == 2 ^ Bits_of_int
Promoted(t) == t[1] \in {"uint", "bit"} /\ t[2] = Len(Widths)
Fault(s, why) == [s EXCEPT !.fault = IF @ = "none" THEN why ELSE @]
Out(v, u, s) == [v |-> v, u |-> u, s |-> s]
Signed(m) == IF m >= Modulus \div 2 THEN m - Modulus ELSE m

Symbols(ops) == {Operators[op] : op \in ops}
Meant(symbol) == CHOOSE op \in DOMAIN Operators : Operators[op] = symbol
c_number(n, u, s) == IF u THEN Out(n % Modulus, TRUE, s)
                     ELSE IF n \in Int64 THEN Out(n, FALSE, s) ELSE Out(Signed(n % Modulus), FALSE, Fault(s, "undefined"))
c_operate(op, a, b, u, s) ==
    CASE op \in Symbols(Cmp) -> Out(Flag(Compare(Meant(op), a, b)), FALSE, s)
      [] op \in Symbols({"AND", "OR", "XOR"}) ->
           LET m == Bits(Meant(op), a % Modulus, b % Modulus) IN Out(IF u THEN m ELSE Signed(m), u, s)
      [] op \in {"/", "%"} /\ b = 0 -> Out(0, u, Fault(s, "undefined"))
      [] op = "/" -> c_number(Quot(a, b), u, s)
      [] op = "%" -> LET t == IF int_mod_overflow(a, b) /\ ~u THEN Fault(s, "undefined") ELSE s IN c_number(Rem(a, b), u, t)
      [] OTHER -> c_number(CASE op = "+" -> a + b [] op = "-" -> a - b [] op = "*" -> a * b, u, s)
c_binary(op, l, r, s) ==
    LET u == l.u \/ r.u
        converted(o) == IF u THEN o.v % Modulus ELSE o.v
    IN  c_operate(op, converted(l), converted(r), u, s)

(* A wrapper reads what it will write back before it calls the function.   *)
c_outputs(w, given, s) ==
    LET made == FunctionBody(w.id, given @@ [p \in {w.outs[k].name : k \in DOMAIN w.outs} |->
                                               LET k == CHOOSE j \in DOMAIN w.outs : w.outs[j].name = p IN s.mem[w.outs[k].x]])
    IN  [result |-> made.result,
         s |-> [s EXCEPT !.mem = FoldLeft(LAMBDA m, o : [m EXCEPT ![o.x] = Wrap(env.vars[o.x].type, made.outs[o.name])], @, w.outs)]]
Parameters(id) == Inputs(SelectSeq(env.functions, LAMBDA f : f.id = id)[1].params)
c_call(c, args, s) ==
    LET ins == Parameters(c.x)
        given == [p \in {ins[k].name : k \in DOMAIN ins} |-> args[CHOOSE k \in DOMAIN ins : ins[k].name = p].v]
        wrapped == c_outputs(wrapper(code.wrappers, c.x, c.n)[1], given, s)
    IN  IF c.n > 0 THEN Out(wrapped.result, Promoted(c.t), wrapped.s)
        ELSE Out(FunctionBody(c.x, given).result, Promoted(c.t), s)

RECURSIVE c_eval(_, _)
c_in_order(cs, order, s) ==
    FoldLeft(LAMBDA outs, k : UNION {{[args |-> (k :> r) @@ o.args, s |-> r.s] : r \in c_eval(cs[k], o.s)} : o \in outs},
             {[args |-> <<>>, s |-> s]}, order)
c_operands(cs, s) == LET order == [k \in DOMAIN cs |-> k] IN c_in_order(cs, order, s) \cup c_in_order(cs, Reverse(order), s)
c_truth(r) == Out(Flag(r.v # 0), FALSE, r.s)
c_eval(c, s) ==
    LET first == c_eval(c.kids[1], s)
        rest(k, r) == c_eval(c.kids[k], r.s)
    IN  CASE c.c = "num" -> {Out(c.n, FALSE, s)}
          [] c.c = "get" -> {Out(s.mem[c.x], Promoted(c.t), s)}
          [] c.c = "local" -> {Out(s.loc, Promoted(c.t), s)}
          [] c.c = "cast" -> {Out(Wrap(c.t, r.v), Promoted(c.t), r.s) : r \in first}
          [] c.c = "!" -> {Out(Flag(r.v = 0), FALSE, r.s) : r \in first}
          [] c.c = "~" -> {Out(IF r.u THEN Modulus - 1 - r.v ELSE -r.v - 1, r.u, r.s) : r \in first}
          [] c.c = "neg" -> {c_number(-r.v, r.u, r.s) : r \in first}
          [] c.c = "&&" -> UNION {IF r.v = 0 THEN {c_truth(r)} ELSE {c_truth(q) : q \in rest(2, r)} : r \in first}
          [] c.c = "||" -> UNION {IF r.v # 0 THEN {c_truth(r)} ELSE {c_truth(q) : q \in rest(2, r)} : r \in first}
          [] c.c = "?:" -> UNION {IF r.v # 0 THEN rest(2, r) ELSE rest(3, r) : r \in first}
          [] c.c = "call" -> {c_call(c, o.args, o.s) : o \in c_operands(c.kids, s)}
          [] OTHER -> {c_binary(c.c, o.args[1], o.args[2], o.s) : o \in c_operands(c.kids, s)}

(* Statements: the states a block may end in.  fate says what a jump left  *)
(* is on its way to, fuel how often a loop may still go round.             *)
Runs(s) == s.fault = "none" /\ s.fate = "go"
RECURSIVE c_statement(_, _)
c_block(list, s) ==
    FoldLeft(LAMBDA ss, st : UNION {IF Runs(t) THEN c_statement(st, t) ELSE {t} : t \in ss}, {s}, list)
RECURSIVE c_branch(_, _, _)
c_branch(kids, k, s) ==
    CASE k > Len(kids) -> {s}
      [] k = Len(kids) -> c_block(kids[k].kids, s)
      [] OTHER -> UNION {IF r.v # 0 THEN c_block(kids[k + 1].kids, r.s) ELSE c_branch(kids, k + 2, r.s) : r \in c_eval(kids[k], s)}

(* A loop: CONTINUE goes on with the increment and the test.               *)
RECURSIVE c_loop(_, _, _, _)
c_again(before, cond, body, s) ==
    CASE s.fault # "none" \/ s.fate = "goto" -> {s}
      [] s.fate = "break" -> {[s EXCEPT !.fate = "go"]}
      [] s.fuel = 0 -> {Fault(s, "runs")}
      [] OTHER -> UNION {c_loop(before, cond, body, t) : t \in c_block(before, [s EXCEPT !.fate = "go", !.fuel = @ - 1])}
c_loop(before, cond, body, s) ==
    UNION {IF r.v = 0 \/ ~Runs(r.s) THEN {r.s} ELSE UNION {c_again(before, cond, body, t) : t \in c_block(body, r.s)} :
             r \in c_eval(cond, s)}

c_statement(c, s) ==
    CASE c.c = "set" -> {[r.s EXCEPT !.mem[c.x] = Wrap(c.t, r.v)] : r \in c_eval(c.kids[1], s)}
      [] c.c = "setlocal" -> {[r.s EXCEPT !.loc = Wrap(c.t, r.v)] : r \in c_eval(c.kids[1], s)}
      [] c.c = "invoke" -> {[s EXCEPT !.mem = BlockBody(c.x, @)]}
      [] c.c = "if" -> c_branch(c.kids, 1, s)
      [] c.c = "while" -> c_loop(<<>>, c.kids[1], c.kids[2].kids, s)
      [] c.c = "for" -> c_loop(c.kids[1].kids, c.kids[2], c.kids[3].kids, s)
      [] c.c = "do" -> UNION {c_again(<<>>, c.kids[2], c.kids[1].kids, t) : t \in c_block(c.kids[1].kids, s)}
      [] c.c \in {"break", "continue", "goto"} -> {[s EXCEPT !.fate = c.c]}

(* One scan: what it leaves in memory, and whether C says what it does.    *)
c_scan(mem) == {[mem |-> s.mem, fault |-> s.fault] :
                  s \in c_block(code.body.kids, [mem |-> mem, loc |-> 0, fate |-> "go", fault |-> "none", fuel |-> MaxLoops])}

-----------------------------------------------------------------------------
Nothing == [body |-> C("block", <<>>), wrappers |-> <<>>]
Stopped == [mem |-> <<>>, fault |-> "none", scans |-> 0]

Init ==
    /\ phase = "fold" /\ program \in Programs
    /\ code = Nothing /\ cpu = Stopped

Over(pass(_)) == program' = [k \in DOMAIN program |-> pass(program[k])] /\ UNCHANGED <<code, cpu>>

FoldConstants ==
    /\ phase = "fold" /\ phase' = "fill"
    /\ Over(fold)

FillCandidateDatatypes ==
    /\ phase = "fill" /\ phase' = "narrow"
    /\ Over(fill)

NarrowCandidateDatatypes ==
    /\ phase = "narrow" /\ phase' = "check"
    /\ Over(narrow)

Accepted(list) == \A k \in DOMAIN list :
    ~has_error(list[k]) /\ ~lvalue_check({}, list[k]) /\ ~array_range_check(list[k])
Aborts(list) == \E k \in DOMAIN list : \E e \in Subranges(list[k]) : subrange_ERROR(e)
Check ==
    /\ phase = "check"
    /\ phase' = CASE Aborts(program) -> "internal_error" [] Accepted(program) -> "generate" [] OTHER -> "rejected"
    /\ UNCHANGED <<program, code, cpu>>

Generate ==
    /\ phase = "generate"
    /\ code' = [body |-> numbered(statement_list(program), 0), wrappers |-> inline_functions(program)]
    /\ phase' = IF Stops(code') THEN "internal_error" ELSE IF IsC(code') THEN "compiled" ELSE "not_c"
    /\ UNCHANGED <<program, cpu>>

Start ==
    /\ phase = "compiled" /\ phase' = "runs"
    /\ \E m \in Memories : cpu' = [Stopped EXCEPT !.mem = m]
    /\ UNCHANGED <<program, code>>

Scan ==
    /\ phase = "runs" /\ cpu.fault = "none" /\ cpu.scans < MaxScans
    /\ \E r \in c_scan(cpu.mem) : cpu' = [mem |-> r.mem, fault |-> r.fault, scans |-> cpu.scans + 1]
    /\ UNCHANGED <<phase, program, code>>

Next == \/ FoldConstants \/ FillCandidateDatatypes \/ NarrowCandidateDatatypes \/ Check
        \/ Generate \/ Start \/ Scan

Spec == Init /\ [][Next]_vars
=============================================================================
