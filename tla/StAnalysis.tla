----------------------------- MODULE StAnalysis -----------------------------
(***************************************************************************)
(* The semantic checks of Structured Text, stage3: constant folding, the   *)
(* passes that give every expression a data type and every call a          *)
(* declaration, and the check of what is written to.                       *)
(*                                                                         *)
(* A program is a sequence of nodes.  sub holds the expressions of a node, *)
(* block the statements or the branches under it; val, cands, decls, type  *)
(* and decl are what the passes note down.  env declares the names:        *)
(*   vars       name |-> [type, class], a member of a block is "t.Q"       *)
(*   functions  declarations [name, id, params, type], in library order    *)
(*   blocks     instance |-> params                                        *)
(* A parameter is [name, dir, type, default], dir one of in, out, inout    *)
(* and extref, a VAR_EXTERNAL.  REALs, times, enumerations, arrays and     *)
(* extensible functions are left out.                                      *)
(***************************************************************************)
EXTENDS IlAnalysis

CONSTANT env    \* the declarations

Node(op, x, n, sub, block) ==
    [op |-> op, x |-> x, n |-> n, sub |-> sub, block |-> block,
     val |-> NoValues, cands |-> <<>>, decls |-> <<>>, type |-> NULL, decl |-> <<>>]

(* Above and below a node: the same pass over everything under it.         *)
Literals == {"int", "neg", "bool"}
Value(p) == p.sub[1]
Positional(params) == SelectSeq(params, LAMBDA p : p.op = "pos")
Formal(params) == SelectSeq(params, LAMBDA p : p.op # "pos")

RECURSIVE Under(_)
Under(e) == {e} \cup UNION {Under(e.sub[k]) : k \in DOMAIN e.sub} \cup UNION {Under(e.block[k]) : k \in DOMAIN e.block}

-----------------------------------------------------------------------------
(* constant_folding.                                                       *)
fold_node(e) == CASE e.op \in Literals -> literal([k |-> e.op, n |-> e.n])
                  [] e.op \in Binaries -> fold_binary(e.op, e.sub[1].val, e.sub[2].val)
                  [] e.op = "NEG" -> handle_neg(e.sub[1].val)
                  [] e.op = "NOT" -> handle_not(e.sub[1].val)
                  [] OTHER -> NoValues
folded(e) == [e EXCEPT !.val = fold_node(e)]
RECURSIVE fold(_)
fold(e) == folded([e EXCEPT !.sub = [k \in DOMAIN e.sub |-> fold(e.sub[k])],
                            !.block = [k \in DOMAIN e.block |-> fold(e.block[k])]])

-----------------------------------------------------------------------------
(* The parameters of a declaration: function_param_iterator.               *)
Hidden == {"EN", "ENO"}
Countable(declared) == SelectSeq(declared, LAMBDA p : p.name \notin Hidden)
search(declared, x) == SelectSeq(declared, LAMBDA p : p.name = x)

(* The parameters of a call: function_call_param_iterator.                 *)
search_f(params, x) == SelectSeq(Formal(params), LAMBDA p : p.x = x)
Repeated(params, k) == \E j \in 1 .. k - 1 : params[j].x = params[k].x
Directed(p, dir) == IF p.op = ":=" THEN dir \in {"in", "inout"} ELSE dir = "out"

-----------------------------------------------------------------------------
(* fill_candidate_datatypes.                                               *)
match_nonformal_call(params, declared) ==
    LET counted == Countable(declared)
    IN  /\ Len(params) <= Len(counted)
        /\ \A k \in DOMAIN params : Contains(Value(params[k]).cands, counted[k].type)

match_formal_call(params, declared) ==
    \A k \in DOMAIN params :
      LET found == search(declared, params[k].x)
      IN  /\ ~Repeated(params, k)
          /\ found # <<>>
          /\ Directed(params[k], found[1].dir)
          /\ Contains(Value(params[k]).cands, found[1].type)

compatible(params, f) == CASE params = <<>> -> FALSE
                           [] Positional(params) # <<>> -> match_nonformal_call(params, f.params)
                           [] OTHER -> match_formal_call(params, f.params)

(* One declaration for each type a call may return; the only declaration   *)
(* of a name counts whatever it is called with.                            *)
handle_function_call(x, params) ==
    LET same == SelectSeq(env.functions, LAMBDA f : f.name = x)
        tried == (IF Len(same) = 1 THEN same ELSE <<>>) \o SelectSeq(same, LAMBDA f : compatible(params, f))
    IN  FoldLeft(LAMBDA fs, f : IF \E k \in DOMAIN fs : fs[k].type = f.type THEN fs ELSE Append(fs, f), <<>>, tried)

handle_binary_operator(e) ==
    LET l == e.sub[1].cands
        r == e.sub[2].cands
        results == FlattenSeq([i \in DOMAIN l |-> [j \in DOMAIN r |-> widening_conversion(e.op, l[i], r[j])]])
    IN  remove_incompatible(AddAll(<<>>, results), e.val)

(* The types two sides have in common, an assignment and a subrange.       *)
common(l, r) == SelectSeq(l, LAMBDA t : Contains(r, t))

candidates(e) ==
    CASE e.op = "var" -> <<env.vars[e.x].type>>
      [] e.op = "bool" -> <<BOOL>>
      [] e.op = "int" -> remove_incompatible(any_integer, e.val)
      [] e.op = "neg" -> remove_incompatible(any_negative, e.val)
      [] e.op \in Binaries -> handle_binary_operator(e)
      [] e.op = "NEG" -> SelectSeq(e.sub[1].cands, LAMBDA t : t[1] = "int")
      [] e.op = "NOT" -> SelectSeq(e.sub[1].cands, IsBit)
      [] e.op = "call" -> [k \in DOMAIN e.decls |-> e.decls[k].type]
      [] e.op = "set" -> common(e.sub[1].cands, e.sub[2].cands)
      [] e.op = ".." -> common(e.sub[2].cands, e.sub[1].cands)
      [] OTHER -> <<>>

filled(e) == [e EXCEPT !.cands = candidates(e)]
Resolved(e) == IF e.op = "call" THEN [e EXCEPT !.decls = handle_function_call(e.x, e.sub)] ELSE e
RECURSIVE fill(_)
fill(e) == filled(Resolved([e EXCEPT !.sub = [k \in DOMAIN e.sub |-> fill(e.sub[k])],
                                                    !.block = [k \in DOMAIN e.block |-> fill(e.block[k])]]))

-----------------------------------------------------------------------------
(* narrow_candidate_datatypes: each node hands the types it wants to the   *)
(* nodes under it.                                                         *)
set_datatype_of(t, list) == IF t = NULL \/ Contains(list, t) THEN t ELSE Invalid
LastSuch(list, Test(_)) == LET fits == SelectSeq(list, Test) IN IF fits = <<>> THEN NULL ELSE fits[Len(fits)]

(* The last pair of types that gives the one wanted.                       *)
narrow_binary_expression(e) ==
    LET t == LastSuch(e.sub[1].cands, LAMBDA u : IsValidType(e.type) /\ Contains(e.sub[2].cands, u)
                                                   /\ widening_conversion(e.op, u, u) = e.type)
    IN  <<t, t>>

(* The declaration with the type wanted, or the only one there is.         *)
called_function_declaration(e) ==
    IF Len(e.decls) = 1 THEN e.decls ELSE SelectSeq(e.decls, LAMBDA f : f.type = e.type)

narrow_nonformal_call(params, declared) ==
    LET counted == Countable(declared)
    IN  [k \in DOMAIN params |-> IF k <= Len(counted) THEN set_datatype_of(counted[k].type, Value(params[k]).cands) ELSE NULL]
narrow_formal_call(params, declared) ==
    [k \in DOMAIN params |->
       LET found == search(declared, params[k].x)
       IN  IF found = <<>> THEN NULL ELSE set_datatype_of(found[1].type, Value(params[k]).cands)]
narrow_call(params, declared) ==
    IF Positional(params) # <<>> THEN narrow_nonformal_call(params, declared) ELSE narrow_formal_call(params, declared)

WantsBool(e) == <<LastSuch(e.cands, LAMBDA t : t = BOOL)>>
WantsInt(e) == LastSuch(e.cands, IsNum)
(* The bounds of a FOR loop take the type of its control variable.         *)
narrow_for(e) == LET t == WantsInt(e.sub[1])
                 IN  [k \in DOMAIN e.sub |-> LastSuch(e.sub[k].cands, LAMBDA u : u = t)]
narrow_case_list(e) == [k \in DOMAIN e.sub |-> LastSuch(e.sub[k].cands, LAMBDA u : u = e.type)]

wanted(e) ==
    CASE e.op \in Binaries -> narrow_binary_expression(e)
      [] e.op \in {"NEG", "NOT", "pos", ":=", "=>"} -> <<e.type>>
      [] e.op = ".." -> [k \in 1 .. 2 |-> set_datatype_of(e.type, e.sub[k].cands)]
      [] e.op = "call" -> narrow_call(e.sub, e.decl[1].params)
      [] e.op = "fbcall" -> narrow_call(e.sub, env.blocks[e.x])
      [] e.op = "set" -> IF Len(e.cands) = 1 THEN <<e.cands[1], e.cands[1]>> ELSE <<NULL, NULL>>
      [] e.op \in {"arm", "while", "repeat"} /\ e.sub # <<>> -> WantsBool(e.sub[1])
      [] e.op = "case" -> <<WantsInt(e.sub[1])>>
      [] e.op = "element" -> narrow_case_list(e)
      [] e.op = "for" -> narrow_for(e)
      [] OTHER -> <<>>

(* A call that is not resolved keeps what is passed to it unresolved too.  *)
Declared(e) == IF e.op = "call" THEN [e EXCEPT !.decl = called_function_declaration(e)] ELSE e
RECURSIVE narrow(_)
narrow_under(e, types, under) ==
    [e EXCEPT !.sub = [k \in DOMAIN @ |-> narrow([@[k] EXCEPT !.type = types[k]])],
              !.block = [k \in DOMAIN @ |-> narrow([@[k] EXCEPT !.type = under])]]
narrow_declared(e) ==
    IF e.op = "call" /\ e.decl = <<>> THEN e
    ELSE narrow_under(e, wanted(e), IF e.op = "case" THEN wanted(e)[1] ELSE NULL)
narrow(e) == narrow_declared(Declared(e))

-----------------------------------------------------------------------------
(* print_datatypes_error: the errors that keep a program from stage 4.     *)
Untyped_but_typable(e) == ~IsValidType(e.type) /\ e.cands # <<>>

handle_function_invocation(params, declared) ==
    \E k \in DOMAIN params :
      LET p == params[k]
          found == search(declared, p.x)
      IN  \/ ~IsValidType(Value(p).type)
          \/ p.op # "pos" /\ (Repeated(params, k) \/ found = <<>> \/ ~Directed(p, found[1].dir))

node_has_error(e) ==
    LET typable == \A k \in DOMAIN e.sub : e.sub[k].cands # <<>>
    IN  CASE e.op \in Literals \cup {"var"} -> e.cands = <<>>
          [] e.op \in Binaries \cup {"NEG", "NOT"} -> e.cands = <<>> /\ typable
          [] e.op = "call" -> e.decl = <<>> \/ handle_function_invocation(e.sub, e.decl[1].params)
          [] e.op = "fbcall" -> handle_function_invocation(e.sub, env.blocks[e.x])
          [] e.op = "set" -> typable /\ \A k \in 1 .. 2 : ~IsValidType(e.sub[k].type)
          [] e.op \in {"arm", "case"} -> \E k \in DOMAIN e.sub : Untyped_but_typable(e.sub[k])
          [] e.op = "for" -> \/ \E k \in 1 .. 3 : Untyped_but_typable(e.sub[k])
                             \/ Len(e.sub) > 3 /\ ~IsValidType(e.sub[4].type) /\ e.sub[3].cands # <<>>
          [] e.op \in {"while", "repeat"} -> ~IsValidType(e.sub[1].type)
          [] OTHER -> FALSE

RECURSIVE has_error(_)
has_error(e) == \/ node_has_error(e)
                \/ \E k \in DOMAIN e.sub : has_error(e.sub[k])
                \/ \E k \in DOMAIN e.block : has_error(e.block[k])

-----------------------------------------------------------------------------
(* lvalue_check: what an assignment, an OUT and an IN_OUT may be given.    *)
(* controls are the control variables of the FOR loops around.             *)
(* Mutant: the variable of the loop may be written in it.                  *)
is_lvalue_in_loop(controls, v) == v.op = "var" /\ env.vars[v.x].class \notin {"output", "constant"}
is_lvalue(controls, v) ==
    v.op = "var" /\ v.x \notin controls /\ env.vars[v.x].class \notin {"output", "constant"}

Written(dir) == dir \in {"out", "inout"}
check_nonformal_call(controls, params, declared) ==
    LET counted == Countable(declared)
    IN  \E k \in DOMAIN params : k <= Len(counted) /\ Written(counted[k].dir) /\ ~is_lvalue(controls, Value(params[k]))
check_formal_call(controls, params, declared) ==
    \E k \in DOMAIN params :
      LET found == search(declared, params[k].x)
      IN  found # <<>> /\ Written(found[1].dir) /\ ~is_lvalue(controls, Value(params[k]))
check_call(controls, params, declared) ==
    IF Positional(params) # <<>> THEN check_nonformal_call(controls, params, declared)
    ELSE check_formal_call(controls, params, declared)

(* The bounds of a FOR loop are not looked at.                             *)
RECURSIVE lvalue_check(_, _)
lvalue_check(controls, e) ==
    LET inside == IF e.op = "for" THEN controls \cup {e.sub[1].x} ELSE controls
    IN  \/ e.op = "set" /\ ~is_lvalue(controls, e.sub[1])
        \/ e.op = "for" /\ ~is_lvalue(controls, e.sub[1])
        \/ e.op = "call" /\ e.decl # <<>> /\ check_call(controls, e.sub, e.decl[1].params)
        \/ e.op = "fbcall" /\ check_call(controls, e.sub, env.blocks[e.x])
        \/ (e.op # "for" /\ (e.op = "call" => e.decl # <<>>)) /\ \E k \in DOMAIN e.sub : lvalue_check(controls, e.sub[k])
        \/ \E k \in DOMAIN e.block : lvalue_check(inside, e.block[k])

-----------------------------------------------------------------------------
(* array_range_check, which finds the subranges of CASE labels too: the    *)
(* limits in order, and the number of values between them a uint64.        *)
subrange_error(e) ==
    LET low == e.sub[1].val
        high == e.sub[2].val
        misplaced(l, h) == l > h \/ h - l >= Uint64Max
    IN  CASE IsValid(low.int) /\ IsValid(high.int) -> misplaced(low.int.n, high.int.n)
          [] IsValid(low.uint) /\ IsValid(high.uint) -> misplaced(low.uint.n, high.uint.n)
          [] IsValid(low.int) /\ IsValid(high.uint) -> misplaced(low.int.n, high.uint.n)
          [] OTHER -> FALSE

(* A lower limit that is too large for an int64 before a negative upper    *)
(* one is a case the check does not have: the compiler stops.              *)
subrange_ERROR(e) == /\ IsValid(e.sub[2].val.int) /\ ~IsValid(e.sub[2].val.uint)
                     /\ IsValid(e.sub[1].val.uint) /\ ~IsValid(e.sub[1].val.int)

Subranges(e) == {f \in Under(e) : f.op = ".."}
array_range_check(e) == \E f \in Subranges(e) : subrange_error(f)

-----------------------------------------------------------------------------
(* case_elements_check: the warnings about labels that share a value.      *)
less_than(l, r) ==
    \/ IsValid(l.int) /\ IsValid(r.int) /\ l.int.n < r.int.n
    \/ IsValid(l.uint) /\ IsValid(r.uint) /\ l.uint.n < r.uint.n
    \/ IsValid(l.int) /\ IsValid(r.uint) /\ l.int.n < 0
KnownInteger(c) == IsValid(c.int) \/ IsValid(c.uint)
(* Mutant: a subrange is compared with those that follow it in value only. *)
check_subr_subr_one_side(e, f) ==
    /\ e.op = ".." /\ f.op = ".."
    /\ ~less_than(e.sub[2].val, f.sub[1].val)
    /\ \A k \in 1 .. 2 : KnownInteger(e.sub[k].val) /\ KnownInteger(f.sub[k].val)
check_subr_subr(e, f) ==
    /\ e.op = ".." /\ f.op = ".."
    /\ ~less_than(e.sub[2].val, f.sub[1].val) /\ ~less_than(f.sub[2].val, e.sub[1].val)
    /\ \A k \in 1 .. 2 : KnownInteger(e.sub[k].val) /\ KnownInteger(f.sub[k].val)

within(v, low, high) ==
    \/ IsValid(v.int) /\ IsValid(low.int) /\ IsValid(high.int) /\ v.int.n \in low.int.n .. high.int.n
    \/ IsValid(v.uint) /\ IsValid(low.int) /\ IsValid(high.uint) /\ low.int.n < 0 /\ v.uint.n <= high.uint.n
    \/ IsValid(v.uint) /\ IsValid(low.uint) /\ IsValid(high.uint) /\ v.uint.n \in low.uint.n .. high.uint.n
check_subr_symb(e, f) == (e.op = "..") # (f.op = "..") /\
    LET subr == IF f.op = ".." THEN f ELSE e
        symb == IF f.op = ".." THEN e ELSE f
    IN  within(symb.val, subr.sub[1].val, subr.sub[2].val)

is_const(c) == KnownInteger(c) \/ IsValid(c.bool)
check_symb_symb(e, f) ==
    e.op # ".." /\ f.op # ".." /\ is_const(e.val) /\ e.val = f.val

case_elements(e) == FlattenSeq([k \in DOMAIN e.block |-> e.block[k].sub])
case_elements_check(e) ==
    LET labels == case_elements(e)
    IN  \E j, k \in DOMAIN labels : j < k /\ (\/ check_subr_subr(labels[j], labels[k])
                                           \/ check_subr_symb(labels[j], labels[k])
                                           \/ check_symb_symb(labels[j], labels[k]))

(* The CASE statements that are looked at: none in an ELSE.                *)
RECURSIVE cases(_)
cases(e) == (IF e.op = "case" THEN {e} ELSE {})
              \cup UNION {IF e.op = "case" /\ e.block[k].op = "else" THEN {} ELSE cases(e.block[k]) : k \in DOMAIN e.block}
=============================================================================
