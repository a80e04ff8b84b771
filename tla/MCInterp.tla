------------------------------ MODULE MCInterp ------------------------------
(* Small programs for the interpreter, and the pure semantics to compare.  *)
EXTENDS InterpCall

CONSTANT LoopBound  \* bound: iterations of one loop of the language

-----------------------------------------------------------------------------
Leaf(op, d, a, b, v) == [op |-> op, d |-> d, a |-> a, b |-> b, v |-> v, len |-> 0]
If(c, T, E) == <<[op |-> "if_block", cond |-> c, then |-> Len(T), els |-> Len(E),
                  len |-> Len(T) + Len(E)]>> \o T \o E
For(i, s, e, B) == <<[op |-> "for_block", idx |-> i, start |-> s, end |-> e, body |-> Len(B),
                      len |-> Len(B)]>> \o B

-----------------------------------------------------------------------------
(* Straight-line code: every leaf after every other, sources and           *)
(* destinations overlapping.  BOOL slots 0 and 1, INT slots 0 and 1.       *)
AllLeaves ==
    {Leaf(op, 0, 0, 1, 0) : op \in (BoolTags \cup IntTags \cup CmpTags) \ {"load_int"}}
      \cup {Leaf("load_int", 1, 0, 0, IntMin), Leaf("rtrig_call", 0, 0, 1, 0),
            Leaf("unknown", 0, 0, 0, 0)}
Straight == {<<l, m>> : l \in AllLeaves, m \in AllLeaves}

(* Blocks: three conditions and sums as bodies, every shape of two levels. *)
Incr == Leaf("int_add", 1, 1, 0, 0)
Toggle == Leaf("bool_not", 0, 0, 0, 0)
Compare == Leaf("cmp_lt", 1, 0, 1, 0)
Edge == Leaf("rtrig_call", 0, 0, 1, 0)
Bodies == {<<>>, <<Incr>>, <<Toggle>>, <<Compare, Incr>>, <<Edge, Toggle>>}
Ranges == {<<-1, 1>>, <<0, 0>>, <<1, 0>>, <<IntMin, 2>>}

Ifs == {If(c, T, E) : c \in {0, 1}, T \in Bodies, E \in Bodies}
Fors == {For(0, r[1], r[2], B) : r \in Ranges, B \in Bodies}
Blocks ==
    {b \o <<Compare>> : b \in Ifs \cup Fors}
      \cup {If(1, B, f) : B \in Bodies, f \in {For(0, -1, 1, <<Incr, Toggle>>)}}
      \cup {For(0, r[1], r[2], b \o <<Toggle>>) \o <<Incr>> :
              r \in Ranges, b \in {If(c, T, <<Compare>>) : c \in {0, 1}, T \in Bodies}}
      \cup {For(0, r[1], r[2], For(1, s[1], s[2], <<Toggle>>) \o <<Compare>>) :
              r \in Ranges, s \in Ranges}

(* Loops that write their own control variable, or end at the top of INT.  *)
OwnIndex == {For(0, r[1], r[2], <<Leaf(op, 0, 0, 1, 0)>>) \o <<Toggle>> :
                r \in Ranges, op \in {"load_int", "int_sub", "int_mul"}}
TopRange == {For(0, s, IntMax, B) \o <<Compare>> : s \in {IntMin, 2}, B \in Bodies}

(* Blocks whose lengths need not agree with each other or with the code.   *)
AnyIf == [op : {"if_block"}, cond : {0}, then : 0 .. 2, els : 0 .. 2, len : 0 .. 3]
AnyFor == [op : {"for_block"}, idx : {0}, start : {0}, end : {1}, body : 0 .. 2, len : 0 .. 2]
AnyCells == AnyIf \cup AnyFor \cup {Toggle, Incr}
Malformed == {<<x, y, Toggle>> : x \in AnyCells, y \in AnyCells}

AllPrograms == Straight \cup Blocks \cup OwnIndex \cup TopRange \cup Malformed

ZeroMemory == [bools : [BoolSlots -> BOOLEAN], ints : [IntSlots -> {0}], rtrigs : [TrigSlots -> {FALSE}]]
MCMemories == [bools : [BoolSlots -> BOOLEAN], ints : [IntSlots -> {IntMin, 0, 1}],
               rtrigs : [TrigSlots -> BOOLEAN]]
MCCost == [op \in LeafTags |-> IF op \in CmpTags THEN 2 ELSE 1]

-----------------------------------------------------------------------------
(* A scan, and what it was given.                                          *)
VARIABLE
    starved     \* a call has returned with work left, for want of gas
hvars == <<vars, starved>>

Blocked == top.gas = 1 /\ Cell(top.off).op \in {"if_block", "for_block"}
Starves ==
    /\ stack # <<>>
    /\ IF top.kind = "stmts" THEN top.rem > 0 /\ (top.gas = 0 \/ Blocked)
       ELSE ~top.inside /\ top.left > 0 /\ top.gas = 0

HInit ==
    /\ Init /\ (code \in Malformed => pool \in ZeroMemory)
    /\ starved = FALSE
History == starved' = (starved \/ Starves)
HNext == Next /\ History
HSpec == HInit /\ [][HNext]_hvars
HFairSpec == HSpec /\ WF_hvars(Step /\ UNCHANGED pool0 /\ History)

-----------------------------------------------------------------------------
(* The language (analysis/lowplcst_spec.md 5.2): a loop goes on while its  *)
(* control variable is not above the bound.  Diverges: it needs more       *)
(* iterations than LoopBound.                                              *)
Diverges == [diverges |-> TRUE]
RECURSIVE lang_stmts(_, _, _, _)
RECURSIVE lang_while(_, _, _, _, _)
lang_while(c, off, i, p, n) ==
    IF p = Diverges \/ n = 0 THEN Diverges
    ELSE IF p.ints[i.idx] > i.end THEN p
    ELSE LET q == lang_stmts(c, off, i.body, p)
         IN  IF q = Diverges THEN q
             ELSE lang_while(c, off, i, [q EXCEPT !.ints[i.idx] = add_wrap(@, 1)], n - 1)
lang_stmts(c, off, rem, p) ==
    IF rem = 0 \/ p = Diverges THEN p
    ELSE LET i == c[off + 1]
             q == CASE i.op = "if_block" ->
                         IF p.bools[i.cond] THEN lang_stmts(c, off + 1, i.then, p)
                         ELSE lang_stmts(c, off + 1 + i.then, i.els, p)
                    [] i.op = "for_block" ->
                         lang_while(c, off + 1, i, [p EXCEPT !.ints[i.idx] = i.start], LoopBound)
                    [] OTHER -> Pure!exec_atomic(i, p)
         IN  lang_stmts(c, off + 1 + i.len, rem - 1 - i.len, q)

(* A scan that has gas enough computes what the language says.             *)
ComputesLanguage ==
    stack = <<>> /\ ~starved => pool = lang_stmts(code, 0, Len(code), pool0)

(* So it does when no loop writes its own variable or ends at the largest  *)
(* INT: conditions, nested bounds, overlapping operands and edge memories  *)
(* all mean what the document says.                                        *)
MatchesLanguage == code \in Straight \cup Blocks => ComputesLanguage
=============================================================================
