------------------------------ MODULE Emitter ------------------------------
(***************************************************************************)
(* The code generator of the compiler, class TLVEmitter of                 *)
(* tools/lowplcst_parser.py, down to the bytes of the image.               *)
(*                                                                         *)
(* An emitter state s is the bytes written so far (out), the scratch slots *)
(* in use and the most ever used of each kind, and whether every name was  *)
(* found (the code raises an exception when one is not).                   *)
(***************************************************************************)
EXTENDS LowPlcParser, Words, FiniteSets, SequencesExt

U16(n) == <<n % 256, (n \div 256) % 256>>      \* two's complement if n < 0
U32(n) == U16(n) \o U16(n \div 65536)

Kinds == {"BOOL", "INT"}
(* FB_ALL_OUTPUTS: the outputs that are given a slot, ET not being one.    *)
OutputFields(fb, kind) == SelectSeq(<<"Q", "Q1", "QU", "QD", "CV">>, LAMBDA f : <<f, kind>> \in Outputs(fb))

-----------------------------------------------------------------------------
(* Pools: variables the body uses get slots in the order of declaration,   *)
(* then every output of every function block; scratch slots follow.        *)

RECURSIVE used_expr(_)
used_expr(x) == CASE x.k = "ref" -> {x.obj}
                  [] x.k \in {"not", "minus"} -> used_expr(x.x)
                  [] x.k = "bin" -> used_expr(x.l) \cup used_expr(x.r)
                  [] OTHER -> {}
RECURSIVE used_stmts(_)
used_stmt(s) ==
    CASE s.k = "assign" -> {s.target} \cup used_expr(s.x)
      [] s.k = "call" -> UNION {used_expr(s.args[k].x) : k \in 1 .. Len(s.args)}
      [] s.k = "if" -> used_expr(s.cond) \cup used_stmts(s.then) \cup used_stmts(s.els)
                         \cup UNION {used_expr(s.elsifs[k].cond) \cup used_stmts(s.elsifs[k].body) :
                                       k \in 1 .. Len(s.elsifs)}
      [] s.k = "for" -> {s.var} \cup used_expr(s.from) \cup used_expr(s.to) \cup used_stmts(s.body)
used_stmts(b) == UNION {used_stmt(b[k]) : k \in 1 .. Len(b)}

OfType(prog, types) == SelectSeq(prog.vars, LAMBDA v : v.type \in types)

(* The owners of the slots of a kind, in order: <<name, output or "">>.    *)
SlotKeys(prog, kind) ==
    LET vars == SelectSeq(OfType(prog, {kind}), LAMBDA v : v.name \in used_stmts(prog.body))
        fbs == OfType(prog, FB_TYPES)
        outs(v) == [j \in DOMAIN OutputFields(v.type, kind) |-> <<v.name, OutputFields(v.type, kind)[j]>>]
    IN  [k \in DOMAIN vars |-> <<vars[k].name, "">>]
          \o FlattenSeq([k \in DOMAIN fbs |-> outs(fbs[k])])

FbIndex(prog, name) ==
    LET same == OfType(prog, {TypeOf(prog, name)})
    IN  CHOOSE k \in 0 .. Len(same) - 1 : same[k + 1].name = name

allocate_pools(prog) ==
    [prog |-> prog,
     slots |-> [kind \in Kinds |->
                  LET keys == SlotKeys(prog, kind)
                  IN  [key \in ToSet(keys) |-> (CHOOSE k \in DOMAIN keys : keys[k] = key) - 1]],
     base |-> [kind \in Kinds |-> Len(SlotKeys(prog, kind))]]

-----------------------------------------------------------------------------
Fresh(e) == [out |-> <<>>, n |-> [kind \in Kinds |-> 0], max |-> e.base, ok |-> TRUE]
Fail(s) == [s EXCEPT !.ok = FALSE]
Emit(s, bytes) == [s EXCEPT !.out = @ \o bytes]
tlv(tag, payload) == <<tag>> \o U16(Len(payload)) \o payload

(* The slot alloc_scratch hands out, and the state after it.               *)
Scratch(e, s, kind) == e.base[kind] + s.n[kind]
(* Mutant: the pools are as large as the last slot's index.                *)
alloc_scratch_short(e, s, kind) ==
    [s EXCEPT !.n[kind] = @ + 1,
              !.max[kind] = IF Scratch(e, s, kind) > @ THEN Scratch(e, s, kind) ELSE @]
alloc_scratch(e, s, kind) ==
    [s EXCEPT !.n[kind] = @ + 1,
              !.max[kind] = IF Scratch(e, s, kind) + 1 > @ THEN Scratch(e, s, kind) + 1 ELSE @]

IsDirect(e, kind, x) == x.k = "ref" /\ <<x.obj, x.field>> \in DOMAIN e.slots[kind]
GetDirect(e, kind, x) == e.slots[kind][<<x.obj, x.field>>]

BinTag == [AND |-> 17, OR |-> 18, XOR |-> 19] @@ ("+" :> 32) @@ ("-" :> 33) @@ ("*" :> 34)
            @@ ("=" :> 48) @@ ("<>" :> 49) @@ ("<" :> 50) @@ (">" :> 51) @@ ("<=" :> 52) @@ (">=" :> 53)
BinOps(kind) == IF kind = "BOOL" THEN BoolOps ELSE IntOps

RECURSIVE expr_to(_, _, _, _, _)

(* resolve_source: the slot x is in, and the state after computing it.     *)
SourceSlot(e, s, kind, x) == IF IsDirect(e, kind, x) THEN GetDirect(e, kind, x) ELSE Scratch(e, s, kind)
resolve_source(e, s, kind, x) ==
    IF IsDirect(e, kind, x) THEN s
    ELSE expr_to(e, alloc_scratch(e, s, kind), kind, x, Scratch(e, s, kind))

(* Mutant: a destination that is also the left operand is overwritten.     *)
binop_aliased(e, s, kind, x, dst) ==
    LET op(t, a, b) == Emit(t, tlv(BinTag[x.op], <<dst, a, b>>))
        tmp == Scratch(e, s, kind)
        s1 == alloc_scratch(e, s, kind)
        ls == GetDirect(e, kind, x.l)
        rs == GetDirect(e, kind, x.r)
        l_dir == IsDirect(e, kind, x.l)
        r_dir == IsDirect(e, kind, x.r)
    IN  CASE l_dir /\ r_dir               -> op(s, ls, rs)
          [] l_dir /\ ~r_dir              -> op(expr_to(e, s, kind, x.r, dst), ls, dst)
          [] ~l_dir /\ r_dir              -> op(expr_to(e, s1, kind, x.l, tmp), tmp, rs)
          [] OTHER -> op(expr_to(e, expr_to(e, s1, kind, x.l, tmp), kind, x.r, dst), tmp, dst)

(* An operator on slots of its own kind: a complex left operand goes to a  *)
(* scratch slot, a complex right one to the destination, unless that is    *)
(* the left operand.                                                       *)
emit_binop(e, s, kind, x, dst) ==
    LET op(t, a, b) == Emit(t, tlv(BinTag[x.op], <<dst, a, b>>))
        tmp == Scratch(e, s, kind)
        s1 == alloc_scratch(e, s, kind)
        ls == GetDirect(e, kind, x.l)
        rs == GetDirect(e, kind, x.r)
        l_dir == IsDirect(e, kind, x.l)
        r_dir == IsDirect(e, kind, x.r)
    IN  CASE l_dir /\ r_dir               -> op(s, ls, rs)
          [] l_dir /\ ~r_dir /\ ls = dst  -> op(expr_to(e, s1, kind, x.r, tmp), dst, tmp)
          [] l_dir /\ ~r_dir /\ ls # dst  -> op(expr_to(e, s, kind, x.r, dst), ls, dst)
          [] ~l_dir /\ r_dir              -> op(expr_to(e, s1, kind, x.l, tmp), tmp, rs)
          [] OTHER -> op(expr_to(e, expr_to(e, s1, kind, x.l, tmp), kind, x.r, dst), tmp, dst)

emit_comparison(e, s, x, dst) ==
    LET s1 == resolve_source(e, s, "INT", x.l)
    IN  Emit(resolve_source(e, s1, "INT", x.r),
             tlv(BinTag[x.op], <<dst, SourceSlot(e, s, "INT", x.l), SourceSlot(e, s1, "INT", x.r)>>))

load_int(dst, v) == tlv(3, <<dst>> \o U16(wrap_i16(v)))

emit_not(e, s, x, dst) ==
    IF IsDirect(e, "BOOL", x.x) THEN Emit(s, tlv(16, <<dst, GetDirect(e, "BOOL", x.x)>>))
    ELSE Emit(expr_to(e, s, "BOOL", x.x, dst), tlv(16, <<dst, dst>>))

(* -x is 0 - x, the zero in a scratch slot.                                *)
emit_minus(e, s, x, dst) ==
    LET zero == Scratch(e, s, "INT")
        s1 == Emit(alloc_scratch(e, s, "INT"), load_int(zero, 0))
    IN  Emit(resolve_source(e, s1, "INT", x.x), tlv(33, <<dst, zero, SourceSlot(e, s1, "INT", x.x)>>))

(* emit_bool_expr_to and emit_int_expr_to: x computed into slot dst.       *)
expr_to(e, s, kind, x, dst) ==
    CASE kind = "BOOL" /\ x.k = "lit_bool"      -> Emit(s, tlv(IF x.v THEN 1 ELSE 2, <<dst>>))
      [] kind = "INT" /\ x.k = "lit_int"        -> Emit(s, load_int(dst, x.v))
      [] IsDirect(e, kind, x)                   ->
            IF GetDirect(e, kind, x) = dst THEN s
            ELSE Emit(s, tlv(IF kind = "BOOL" THEN 20 ELSE 35, <<dst, GetDirect(e, kind, x)>>))
      [] kind = "BOOL" /\ x.k = "not"           -> emit_not(e, s, x, dst)
      [] kind = "INT" /\ x.k = "minus"          -> emit_minus(e, s, x, dst)
      [] x.k = "bin" /\ x.op \in BinOps(kind)   -> emit_binop(e, s, kind, x, dst)
      [] kind = "BOOL" /\ x.k = "bin" /\ x.op \in CmpOps -> emit_comparison(e, s, x, dst)
      [] OTHER                                  -> Fail(s)

-----------------------------------------------------------------------------
(* Calls of function blocks: the tag, and the inputs in payload order.     *)
FbTag == [TON |-> 80, TOF |-> 81, TP |-> 82, CTU |-> 96, CTD |-> 97, CTUD |-> 98,
          SR |-> 112, RS |-> 113, R_TRIG |-> 114, F_TRIG |-> 115]
Inputs(fb) == CASE fb \in Timers               -> <<<<"IN", "BOOL">>>>
                [] fb = "CTU"                  -> <<<<"CU", "BOOL">>, <<"R", "BOOL">>, <<"PV", "INT">>>>
                [] fb = "CTD"                  -> <<<<"CD", "BOOL">>, <<"LD", "BOOL">>, <<"PV", "INT">>>>
                [] fb = "CTUD" -> <<<<"CU", "BOOL">>, <<"CD", "BOOL">>, <<"R", "BOOL">>,
                                    <<"LD", "BOOL">>, <<"PV", "INT">>>>
                [] fb = "SR"                   -> <<<<"S1", "BOOL">>, <<"R", "BOOL">>>>
                [] fb = "RS"                   -> <<<<"S", "BOOL">>, <<"R1", "BOOL">>>>
                [] fb \in {"R_TRIG", "F_TRIG"} -> <<<<"CLK", "BOOL">>>>

(* The last argument of that name, None without one.                       *)
Arg(call, name) ==
    LET at == {k \in DOMAIN call.args : call.args[k].name = name}
    IN  IF at = {} THEN None ELSE call.args[CHOOSE k \in at : \A j \in at : j <= k].x

(* The milliseconds of a TIME variable are its initial value.              *)
TimeOf(e, x) ==
    IF x.k = "lit_time" THEN x.v
    ELSE LET at == {k \in DOMAIN e.prog.vars : /\ x.k = "ref" /\ e.prog.vars[k].name = x.obj
                                               /\ e.prog.vars[k].type = "TIME"}
         IN  IF at = {} THEN -1
             ELSE LET init == e.prog.vars[CHOOSE k \in at : TRUE].init
                  IN  IF init.k \in {"lit_time", "lit_int"} THEN init.v ELSE 0

resolve_time_to_ticks(e, x) == TimeOf(e, x) \div e.prog.tick_ms

RECURSIVE resolve_inputs(_, _, _, _, _)
(* The state after computing inputs k and on, their slots in .args.        *)
resolve_inputs(e, s, call, fb, k) ==
    IF k > Len(Inputs(fb)) THEN [s |-> s, args |-> <<>>]
    ELSE LET kind == Inputs(fb)[k][2]
             x == Arg(call, Inputs(fb)[k][1])
             rest == resolve_inputs(e, resolve_source(e, s, kind, x), call, fb, k + 1)
         IN  [rest EXCEPT !.args = <<SourceSlot(e, s, kind, x)>> \o @]

emit_fb_call(e, s, call) ==
    LET fb == TypeOf(e.prog, call.fb)
        in == resolve_inputs(e, s, call, fb, 1)
        outs(kind) == [k \in DOMAIN OutputFields(fb, kind) |->
                          e.slots[kind][<<call.fb, OutputFields(fb, kind)[k]>>]]
        pt == IF fb \in Timers THEN U32(resolve_time_to_ticks(e, Arg(call, "PT"))) ELSE <<>>
        found == fb \in Timers => TimeOf(e, Arg(call, "PT")) >= 0
    IN  IF ~found THEN Fail(s)
        ELSE Emit(in.s, tlv(FbTag[fb], <<FbIndex(e.prog, call.fb)>> \o in.args \o pt
                                          \o outs("BOOL") \o outs("INT")))

-----------------------------------------------------------------------------
RECURSIVE emit_stmts(_, _, _)

(* An ELSIF is an IF alone in the ELSE of the IF before it.                *)
Flat(s) == IF s.elsifs = <<>> THEN s
           ELSE If(s.cond, s.then, <<>>,
                   <<If(s.elsifs[1].cond, s.elsifs[1].body, Tail(s.elsifs), s.els)>>)

emit_if(e, s, x) ==
    LET f == Flat(x)
        cond == Scratch(e, s, "BOOL")
        s1 == expr_to(e, alloc_scratch(e, s, "BOOL"), "BOOL", f.cond, cond)
        t == emit_stmts(e, [s1 EXCEPT !.out = <<>>], f.then)
        u == emit_stmts(e, [t EXCEPT !.out = <<>>], f.els)
    IN  [u EXCEPT !.out = s1.out \o tlv(64, <<cond, Len(f.then), Len(f.els)>>
                                           \o U16(Len(t.out)) \o U16(Len(u.out)) \o t.out \o u.out)]

(* The bounds are literals; -1 is not one.                                 *)
emit_for(e, s, x) ==
    LET b == emit_stmts(e, [s EXCEPT !.out = <<>>], x.body)
    IN  IF ~(x.from.k = "lit_int" /\ x.to.k = "lit_int") THEN Fail(s)
        ELSE [b EXCEPT !.out = s.out \o tlv(65, <<e.slots["INT"][<<x.var, "">>]>> \o U16(wrap_i16(x.from.v))
                                                  \o U16(wrap_i16(x.to.v)) \o <<Len(x.body)>>
                                                  \o U16(Len(b.out)) \o b.out)]

emit_assign(e, s, x) ==
    LET in == {kind \in Kinds : <<x.target, "">> \in DOMAIN e.slots[kind]}
    IN  IF in = {} THEN Fail(s)
        ELSE LET kind == CHOOSE kind \in in : TRUE
             IN  expr_to(e, s, kind, x.x, e.slots[kind][<<x.target, "">>])

emit_stmt(e, s, x) == CASE x.k = "assign" -> emit_assign(e, s, x)
                        [] x.k = "call"   -> emit_fb_call(e, s, x)
                        [] x.k = "if"     -> emit_if(e, s, x)
                        [] x.k = "for"    -> emit_for(e, s, x)

emit_stmts(e, s, b) == FoldLeft(LAMBDA t, x : emit_stmt(e, t, x), s, b)

(* Scratch slots are free again at every statement of the body itself.     *)
reset_scratch(s) == [s EXCEPT !.n = [kind \in Kinds |-> 0]]
emit_body(e) == FoldLeft(LAMBDA t, x : emit_stmt(e, reset_scratch(t), x), Fresh(e), e.prog.body)

(* Only literals other than 0 and FALSE, of variables the body uses.       *)
emit_init(e) ==
    FlattenSeq([k \in DOMAIN e.prog.vars |->
        LET v == e.prog.vars[k]
            key == <<v.name, "">>
        IN  CASE /\ v.type = "INT" /\ v.init.k = "lit_int" /\ key \in DOMAIN e.slots["INT"]
                 /\ v.init.v # 0 -> load_int(e.slots["INT"][key], v.init.v)
              [] /\ v.type = "BOOL" /\ v.init.k = "lit_bool" /\ key \in DOMAIN e.slots["BOOL"]
                 /\ v.init.v -> tlv(1, <<e.slots["BOOL"][key]>>)
              [] OTHER -> <<>>])

FbOrder == <<"TON", "TOF", "TP", "CTU", "CTD", "CTUD", "SR", "RS", "R_TRIG", "F_TRIG">>

emit_header(e, s, init) ==
    <<76, 80, 1, 0, s.max["BOOL"], s.max["INT"]>>
      \o [k \in DOMAIN FbOrder |-> Len(OfType(e.prog, {FbOrder[k]}))]
      \o U16(Len(init)) \o U16(Len(s.out))

Rejected == <<>>

(* compile_file: the image, or Rejected.                                   *)
generate(e) ==
    LET image(body, init) == emit_header(e, body, init) \o init \o body.out
        image_of(body) == IF body.ok THEN image(body, emit_init(e)) ELSE Rejected
    IN  image_of(emit_body(e))

compile(tokens) ==
    LET image_of(ast) == IF ast.ok /\ check(ast.x) THEN generate(allocate_pools(ast.x)) ELSE Rejected
    IN  image_of(parse(tokens))
=============================================================================
