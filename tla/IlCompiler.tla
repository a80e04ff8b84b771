----------------------------- MODULE IlCompiler -----------------------------
(***************************************************************************)
(* An Instruction List from its source to the C code that runs: the passes *)
(* of stage3.cc, the statements of stage4/generate_c/generate_c_il.cc, and *)
(* the execution of those statements, one line of the list at a time.      *)
(*                                                                         *)
(* The statements work on __IL_DEFVAR, a union with one member per type.   *)
(* Which member a statement names is decided when the code is generated.   *)
(***************************************************************************)
EXTENDS IlAnalysis, FiniteSets

CONSTANTS Dialects,  \* sets of lists [lists, types, memories] over the same variables
          MaxSteps   \* lines a run executes before it is left alone

VARIABLES
    phase,       \* the pass to run next, or how the compiler ended
    code, ty,    \* the list and the types of its variables
    flow, cvalues, cands, data,   \* what the passes have found out
    cpu          \* the generated program: [pc, mem, defvar, steps, fault]

vars == <<phase, code, ty, flow, cvalues, cands, data, cpu>>

-----------------------------------------------------------------------------
(* What the statements of a node are generated from.                       *)
(* Mutant: a comparison reads the member it will write.                   *)
implicit_variable_current_own(fl, d, v) == d.it[v]
implicit_variable_current(fl, d, v) == IF fl[v].prev = <<>> THEN NULL ELSE d.it[fl[v].prev[1]]
UsesCurrent == Stores \cup Cmp \cup {"NOT"}
UsesResult == Loads \cup Binaries \cup {"NOT"}

(* Where the generator stops itself: ERROR.                                *)
internal_error(c, fl, d, v) ==
    LET op == Instr(c, v).op
        current == implicit_variable_current(fl, d, v)
    IN  \/ op \in Conditional \cup Latches /\ current # BOOL
        \/ op \in Logic /\ ~IsBit(d.op[v])
        \/ op \in Cmp /\ NULL \in {d.arg[v], current}
        \/ op \in Latches /\ d.arg[v] # BOOL
        \/ op \in Stores /\ ~IsValidType(d.arg[v])

(* A member of no type or of the invalid one is no member of the union.    *)
names_a_member(c, fl, d, v) ==
    LET in == Instr(c, v)
    IN  /\ in.op \in UsesCurrent => IsValidType(implicit_variable_current(fl, d, v))
        /\ in.op \in UsesResult => IsValidType(d.it[v])
        /\ in.op \in Cmp => IsValidType(d.arg[v])
        /\ in.body # <<>> => IsValidType(d.arg[v])

-----------------------------------------------------------------------------
(* C: division rounds towards zero; is_BOOL_compatible decides between !   *)
(* and ~.                                                                  *)
Negate_bits(t, n) == -n - 1   \* Mutant: always ~
Negate(t, n) == IF t = BOOL THEN IF n = 0 THEN 1 ELSE 0 ELSE -n - 1

(* The bits of two values of the type t, which may be negative.            *)
BitsOf(t, op, a, b) == LET size == 2 ^ Widths[IF t = BOOL THEN 1 ELSE t[2]]
                       IN  Bits(op, a % size, b % size)

c_operator(t, op, a, b) ==
    CASE op \in {"AND", "OR", "XOR", "ANDN", "ORN", "XORN"} -> BitsOf(t, op, a, b)
      [] op = "ADD" -> a + b
      [] op = "SUB" -> a - b
      [] op = "MUL" -> a * b
      [] op = "DIV" -> Quot(a, b)
      [] op = "MOD" -> Rem(a, b)

(* A statement on the variables and on the union defvar = <<member, value>>; *)
(* back is the value of a list in parentheses.  A statement that reads    *)
(* another member than the last one written leaves a garbled machine, one *)
(* that divides by zero a trapped one.                                     *)
Operand(s, in, back) == CASE in.body # <<>> -> back
                          [] in.arg.k = "var" -> s.mem[in.arg.x]
                          [] in.arg.k = "neg" -> -in.arg.n
                          [] OTHER -> in.arg.n

Read(s, t, Then(_)) == IF s.defvar[1] = t THEN Then(s.defvar[2]) ELSE [s EXCEPT !.fault = "garbled"]
Write(s, t, n) == [s EXCEPT !.defvar = <<t, Wrap(t, n)>>]
Assign(s, x, t, n) == [s EXCEPT !.mem[x] = Wrap(t, n)]

statement(c, types, fl, d, v, back, s) ==
    LET in == Instr(c, v)
        current == implicit_variable_current(fl, d, v)
        result == d.it[v]
        operand == Operand(s, in, back)
        negated == Negate(d.arg[v], operand)
    IN  CASE in.op = "LD" -> Write(s, result, operand)
          [] in.op = "LDN" -> Write(s, result, negated)
          [] in.op = "NOT" -> Read(s, current, LAMBDA n : Write(s, result, Negate(d.op[v], n)))
          [] in.op = "ST" -> Read(s, current, LAMBDA n : Assign(s, in.arg.x, types[in.arg.x], n))
          [] in.op = "STN" -> Read(s, current, LAMBDA n : Assign(s, in.arg.x, types[in.arg.x], Negate(d.arg[v], n)))
          [] in.op \in Latches ->
               Read(s, current, LAMBDA n : IF n # 0 THEN Assign(s, in.arg.x, BOOL, Flag(in.op = "S")) ELSE s)
          [] in.op \in {"DIV", "MOD"} /\ operand = 0 -> [s EXCEPT !.fault = "trapped"]
          [] in.op \in {"ANDN", "ORN", "XORN"} ->
               Read(s, result, LAMBDA n : Write(s, result, BitsOf(result, in.op, n, negated)))
          [] in.op \in Logic \cup Arith ->
               Read(s, result, LAMBDA n : Write(s, result, c_operator(result, in.op, n, operand)))
          [] in.op \in Cmp -> Read(s, current, LAMBDA n : Write(s, result, Flag(Compare(in.op, n, operand))))
          [] in.op = "CAL" -> [s EXCEPT !.mem[in.arg.x] = 1 - @]
          [] in.op \in {"CALC", "CALCN"} ->
               Read(s, current, LAMBDA n : IF (n # 0) = (in.op = "CALC") THEN [s EXCEPT !.mem[in.arg.x] = 1 - @] ELSE s)
          [] in.op \in {"JMPC", "JMPCN", "RETC", "RETCN"} -> Read(s, current, LAMBDA n : s)
          [] OTHER -> s

(* The parentheses have a union of their own, and hand on one member.      *)
parenthesis(c, types, fl, d, i, s) ==
    LET run(t, v) == IF t.fault = "none" THEN statement(c, types, fl, d, v, 0, t) ELSE t
        inner == FoldLeft(run, [s EXCEPT !.defvar = <<NULL, 0>>], BodyOf(c, i))
        with(back) == statement(c, types, fl, d, <<i, 0>>, back, [inner EXCEPT !.defvar = s.defvar])
    IN  IF inner.fault = "none" THEN Read(inner, d.arg[<<i, 0>>], with) ELSE inner

(* A line with the label before it and the goto after it.                  *)
Jumps(op, n) == \/ op \in Always \ {"CAL"}
                \/ op \in {"JMPC", "RETC"} /\ n # 0
                \/ op \in {"JMPCN", "RETCN"} /\ n = 0
il_line(c, types, fl, d, s) ==
    LET i == s.pc
        t == IF c[i].body = <<>> THEN statement(c, types, fl, d, <<i, 0>>, 0, s)
             ELSE parenthesis(c, types, fl, d, i, s)
        goes == Jumps(c[i].op, t.defvar[2])
    IN  [t EXCEPT !.steps = @ + 1,
                  !.pc = IF goes THEN IF c[i].to > 0 THEN c[i].to ELSE Len(c) + 1 ELSE i + 1]

-----------------------------------------------------------------------------
Nothing == <<>>
Off == [pc |-> 0, mem |-> Nothing, defvar |-> <<NULL, 0>>, steps |-> 0, fault |-> "none"]

Init == /\ \E D \in Dialects : code \in D.lists /\ ty = D.types
        /\ phase = "flow_control_analysis"
        /\ flow = Nothing /\ cvalues = Nothing /\ cands = Nothing /\ data = Nothing
        /\ cpu = Off

Context(forced) == [c |-> code, ty |-> ty, flow |-> flow, cands |-> cands, forced |-> forced]

AnalyseFlow == /\ phase = "flow_control_analysis"
               /\ flow' = flow_control_analysis(code)
               /\ phase' = "constant_propagation"
               /\ UNCHANGED <<code, ty, cvalues, cands, data, cpu>>

PropagateConstants == /\ phase = "constant_propagation"
                      /\ cvalues' = constant_propagation(code, flow)
                      /\ phase' = "fill_candidate_datatypes"
                      /\ UNCHANGED <<code, ty, flow, cands, data, cpu>>

FillCandidateDatatypes == /\ phase = "fill_candidate_datatypes"
                          /\ cands' = fill_candidate_datatypes(code, ty, flow, cvalues)
                          /\ phase' = "narrow_candidate_datatypes"
                          /\ UNCHANGED <<code, ty, flow, cvalues, data, cpu>>

NarrowCandidateDatatypes ==
    /\ phase = "narrow_candidate_datatypes"
    /\ data' = narrow_datatypes(Context(FALSE), Undecided(code))
    /\ phase' = IF data'.aborted THEN "internal_error" ELSE "forced_narrow_candidate_datatypes"
    /\ UNCHANGED <<code, ty, flow, cvalues, cands, cpu>>

(* The errors are found before and counted after the last pass.            *)
ForcedNarrowCandidateDatatypes ==
    /\ phase = "forced_narrow_candidate_datatypes"
    /\ data' = narrow_datatypes(Context(TRUE), data)
    /\ phase' = IF data'.aborted THEN "internal_error"
                ELSE IF print_datatypes_error(Context(FALSE), data) THEN "rejected" ELSE "generate_c"
    /\ UNCHANGED <<code, ty, flow, cvalues, cands, cpu>>

Generate == /\ phase = "generate_c"
            /\ phase' = IF \E v \in NodesOf(code) : internal_error(code, flow, data, v) THEN "internal_error"
                        ELSE IF \A v \in NodesOf(code) : names_a_member(code, flow, data, v) THEN "generated"
                        ELSE "not_c"
            /\ UNCHANGED <<code, ty, flow, cvalues, cands, data, cpu>>

Start == /\ phase = "generated"
         /\ \E D \in Dialects : \E m \in D.memories :
              /\ code \in D.lists /\ ty = D.types
              /\ cpu' = [Off EXCEPT !.pc = 1, !.mem = m]
         /\ phase' = "running"
         /\ UNCHANGED <<code, ty, flow, cvalues, cands, data>>

Execute == /\ phase = "running" /\ cpu.pc <= Len(code) /\ cpu.fault = "none" /\ cpu.steps < MaxSteps
           /\ cpu' = il_line(code, ty, flow, data, cpu)
           /\ UNCHANGED <<phase, code, ty, flow, cvalues, cands, data>>

Next == \/ AnalyseFlow \/ PropagateConstants \/ FillCandidateDatatypes
        \/ NarrowCandidateDatatypes \/ ForcedNarrowCandidateDatatypes
        \/ Generate \/ Start \/ Execute
Spec == Init /\ [][Next]_vars
=============================================================================
