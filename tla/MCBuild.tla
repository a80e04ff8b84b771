------------------------------ MODULE MCBuild ------------------------------
(* Programs for the compiler: every small expression, and statements that  *)
(* share scratch slots, aliases and nesting.                               *)
EXTENDS Build

B(name) == Ref(name, "")
Var(name, type, init) == [name |-> name, type |-> type, init |-> init]
Prog(vars0, body) == [vars |-> vars0, body |-> body, tick_ms |-> 10]

BoolVars == <<Var("x", "BOOL", None), Var("dead", "BOOL", LitBool(TRUE)), Var("y", "BOOL", LitBool(TRUE)),
              Var("z", "BOOL", None), Var("t", "R_TRIG", None)>>
IntVars == <<Var("a", "INT", LitInt(7)), Var("b", "INT", LitInt(40000)), Var("c", "INT", None)>>
Edge == FbCall("t", <<[name |-> "CLK", x |-> B("x")]>>)

(* y := e, where y itself occurs in e: operands as variables, literals,    *)
(* outputs and expressions, two operators deep.                            *)
Atoms == {B("x"), B("y"), LitBool(TRUE)}
E1 == Atoms \cup {Not(e) : e \in Atoms} \cup {Bin(op, l, r) : op \in {"AND"}, l \in Atoms, r \in Atoms}
E2 == {Bin("OR", l, r) : l \in E1, r \in E1} \cup {Not(e) : e \in E1}
Deep == {Bin("XOR", Bin("OR", Ref("t", "Q"), l), Bin("AND", B("y"), Not(r))) : l \in Atoms, r \in E1}
BoolProgs == {Prog(BoolVars, <<Edge, Assign("y", e)>>) : e \in E2 \cup Deep}

IntAtoms == {B("a"), B("b"), LitInt(3)}
I1 == IntAtoms \cup {Minus(e) : e \in IntAtoms} \cup {Bin("*", l, r) : l \in IntAtoms, r \in IntAtoms}
I2 == {Bin("-", l, r) : l \in I1, r \in I1} \cup {Minus(e) : e \in I1}
IntProgs == {Prog(IntVars, <<Assign("a", e), Assign("c", LitInt(1))>>) : e \in I2}
Compares == {Prog(IntVars \o BoolVars, <<Assign("y", Bin("OR", Bin(op, l, r), B("x"))), Assign("a", l), Assign("z", Not(Bin(op, r, l)))>>) :
               op \in CmpOps, l \in I1, r \in {B("b"), Bin("-", B("b"), LitInt(1))}}

(* Blocks: conditions held in scratch slots while the bodies use others.   *)
Stmts0 == {Edge, Assign("z", Bin("AND", Bin("OR", B("x"), B("y")), Not(Ref("t", "Q")))),
           If(Ref("t", "Q"), <<Assign("y", Not(B("y")))>>, <<>>, <<Edge>>)}
Conds == {B("x"), Bin("AND", Not(B("x")), Bin("OR", B("y"), B("z")))}
Ifs == {If(c, <<s, u>>, IF two THEN <<[cond |-> d, body |-> <<u>>]>> ELSE <<>>, els) :
          c \in Conds, d \in Conds, s \in Stmts0, u \in Stmts0, two \in BOOLEAN, els \in {<<>>, <<Assign("y", B("x"))>>}}
Loop == {For("c", LitInt(lo), LitInt(2), <<Assign("a", Bin("+", B("a"), Bin("*", B("c"), LitInt(5)))), s>>) :
           lo \in {0, 3}, s \in Stmts0}
BlockProgs == {Prog(IntVars \o BoolVars, <<s, Edge, Assign("z", Bin("XOR", B("z"), B("y")))>>) : s \in Ifs \cup Loop}

(* Nesting, as blocks and as a chain of ELSIFs.                            *)
RECURSIVE Nest(_)
Nest(d) == IF d = 0 THEN <<Assign("y", B("x"))>>
           ELSE IF d % 3 = 0 THEN <<For("c", LitInt(1), LitInt(2), Nest(d - 1))>>
           ELSE IF d % 3 = 1 THEN <<If(B("x"), Nest(d - 1), <<>>, <<>>)>>
           ELSE <<If(Not(B("x")), <<>>, <<>>, Nest(d - 1))>>
Chain(d) == <<If(B("x"), <<>>, [k \in 1 .. d |-> [cond |-> B("y"), body |-> IF k = d THEN Nest(1) ELSE <<>>]], <<>>)>>
DeepProgs == {Prog(IntVars \o BoolVars, Nest(d)) : d \in 4 .. 7} \cup {Prog(IntVars \o BoolVars, Chain(d)) : d \in 2 .. 5}

(* Every other function block; their outputs are not followed.             *)
Args(fb) == [k \in DOMAIN Inputs(fb) |->
               [name |-> Inputs(fb)[k][1],
                x |-> IF Inputs(fb)[k][2] = "BOOL" THEN Bin("OR", B("x"), B("y")) ELSE Bin("+", B("a"), LitInt(1))]]
FbProgs == {Prog(IntVars \o BoolVars \o <<Var("g", fb, None), Var("f", fb, None)>>,
                 <<FbCall("f", IF fb \in Timers THEN Append(Args(fb), [name |-> "PT", x |-> LitTime(70000)]) ELSE Args(fb))>>) :
               fb \in FB_TYPES \ {"R_TRIG"}}
(* Names and types the compiler must reject.                               *)
WrongProgs == {Prog(BoolVars, <<s>>) :
                 s \in {Assign("u", B("x")), Assign("y", LitInt(1)), FbCall("y", <<>>), If(Ref("t", "CV"), <<>>, <<>>, <<>>),
                        Assign("y", Bin("AND", B("x"), LitInt(1))), Assign("x", Not(Ref("t", "Q1"))), FbCall("t", <<>>)}}

MCFragile == {Prog(IntVars \o BoolVars, Nest(4)), Prog(BoolVars, Chain(1)),
              Prog(IntVars \o BoolVars, <<Edge, If(B("x"), <<Edge>>, <<>>, <<Assign("y", B("x"))>>)>>)}

AllProgs == MCFragile \cup BoolProgs \cup IntProgs \cup Compares \cup BlockProgs \cup DeepProgs \cup FbProgs \cup WrongProgs

=============================================================================
