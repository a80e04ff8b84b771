---------------------------- MODULE TlvValidator ----------------------------
(***************************************************************************)
(* The generated validator of program images, everparse/LowPLC_TLV.c.      *)
(* A validator takes the image inp, the length n it may look at and the    *)
(* position to start from (from 0), and returns the position after what it *)
(* accepted, or Error.  The C code has one copy of each for every depth of *)
(* nesting; here a copy is a line that names the depth below it.           *)
(***************************************************************************)
EXTENDS Integers, Sequences, FiniteSets

Error == -1
ByteAt(inp, pos) == inp[pos + 1]
Load16Le(inp, pos) == ByteAt(inp, pos) + 256 * ByteAt(inp, pos + 1)

(* hasBytes: k more bytes are there.                                       *)
Take(k, n, pos) == IF pos # Error /\ k <= n - pos THEN pos + k ELSE Error

(* The while loop over the elements of a body that must end at n.          *)
ListOf(V(_, _, _), inp, n, pos) ==
    LET after[p \in pos .. n] ==
          IF p = n THEN p
          ELSE LET q == V(inp, n, p) IN IF q = Error THEN Error ELSE after[q]
    IN  after[pos]

(* A body of len bytes: truncatedInputLength = pos + len.                  *)
Body(V(_, _, _), inp, n, pos, len) ==
    IF pos = Error \/ len > n - pos THEN Error ELSE ListOf(V, inp, pos + len, pos)

-----------------------------------------------------------------------------
(* Leaf opcodes: the size of the payload of each tag.  Every depth has a   *)
(* copy of the switch over the tags: BoolOpDk to TAG_COPY_BOOL, IntOpDk    *)
(* for arithmetic and comparison, FbCallDk from TAG_TON_CALL on.           *)
Sized1 == {1, 2}
Sized2 == {16, 20, 35}
Sized3 == {3} \cup 17 .. 19 \cup 32 .. 34 \cup 48 .. 53 \cup {114, 115}
Sized4 == {112, 113}
Sized6 == {96, 97}
Sized7 == 80 .. 82
Sized9 == {98}
LeafSize == [t \in UNION {Sized1, Sized2, Sized3, Sized4, Sized6, Sized7, Sized9} |->
               CASE t \in Sized1 -> 1 [] t \in Sized2 -> 2 [] t \in Sized3 -> 3
                 [] t \in Sized4 -> 4 [] t \in Sized6 -> 6 [] t \in Sized7 -> 7 [] OTHER -> 9]

SizedLeaf(tags, t, n, pos) == IF t \in DOMAIN LeafSize \cap tags THEN Take(LeafSize[t], n, pos) ELSE Error
BoolOpD6(t, n, pos) == SizedLeaf(1 .. 20, t, n, pos)
IntOpD6(t, n, pos) == SizedLeaf(32 .. 53, t, n, pos)
FbCallD6(t, n, pos) == SizedLeaf(80 .. 115, t, n, pos)

(* One element of the payload of tag t.                                    *)
Payload(t, BoolOp(_, _, _), IntOp(_, _, _), Block(_, _, _, _), FbCall(_, _, _), inp, n, pos) ==
    CASE t < 32 -> BoolOp(t, n, pos)
      [] t \in 32 .. 63 -> IntOp(t, n, pos)
      [] t \in {64, 65} -> Block(t, inp, n, pos)
      [] OTHER -> FbCall(t, n, pos)

MaxStmts == 64
CountOk(inp, pos) == ByteAt(inp, pos) <= MaxStmts

(* IF: cond, then_count, else_count, then_len, else_len, the two bodies.   *)
IfBlock(Then(_, _, _, _), Else(_, _, _, _), inp, n, pos) ==
    LET p == Take(7, n, pos)
    IN  IF p = Error THEN Error
        ELSE IF ~CountOk(inp, pos + 1) \/ ~CountOk(inp, pos + 2) THEN Error
        ELSE Else(inp, n, Then(inp, n, p, Load16Le(inp, pos + 3)), Load16Le(inp, pos + 5))

(* FOR: var_idx, from_val, to_val, body_count, body_len, the body.         *)
ForBlock(Loop(_, _, _, _), inp, n, pos) ==
    LET p == Take(8, n, pos)
    IN  IF p = Error \/ ~CountOk(inp, pos + 5) THEN Error
        ELSE Loop(inp, n, p, Load16Le(inp, pos + 6))

(* tag, len, and a payload that is a list of elements filling len bytes.   *)
Framed(Element(_, _, _, _), inp, n, pos) ==
    IF Take(3, n, pos) = Error THEN Error
    ELSE LET E(i, m, p) == Element(ByteAt(inp, pos), i, m, p)
         IN  Body(E, inp, n, pos + 3, Load16Le(inp, pos + 1))

-----------------------------------------------------------------------------
(* D6: leaf opcodes only, and the only depth that constrains the tag.      *)
NoBlock(t, inp, n, pos) == Error
LeafPayload(t, inp, n, pos) == Payload(t, BoolOpD6, IntOpD6, NoBlock, FbCallD6, inp, n, pos)
StmtD6(inp, n, pos) ==
    IF n - pos < 1 \/ ByteAt(inp, pos) \notin 1 .. 115 THEN Error
    ELSE Framed(LeafPayload, inp, n, pos)

ThenD5(inp, n, pos, len) == Body(StmtD6, inp, n, pos, len)
ElseD5(inp, n, pos, len) == Body(StmtD6, inp, n, pos, len)
IfBlockD5(inp, n, pos) == IfBlock(ThenD5, ElseD5, inp, n, pos)
LoopD5(inp, n, pos, len) == Body(StmtD6, inp, n, pos, len)
ForBlockD5(inp, n, pos) == ForBlock(LoopD5, inp, n, pos)
BoolOpD5(t, n, pos) == SizedLeaf(1 .. 20, t, n, pos)
IntOpD5(t, n, pos) == SizedLeaf(32 .. 53, t, n, pos)
FbCallD5(t, n, pos) == SizedLeaf(80 .. 115, t, n, pos)
BlockD5(t, inp, n, pos) == IF t = 64 THEN IfBlockD5(inp, n, pos) ELSE ForBlockD5(inp, n, pos)
StmtD5payload(t, inp, n, pos) == Payload(t, BoolOpD5, IntOpD5, BlockD5, FbCallD5, inp, n, pos)
StmtD5(inp, n, pos) == Framed(StmtD5payload, inp, n, pos)

ThenD4(inp, n, pos, len) == Body(StmtD5, inp, n, pos, len)
ElseD4(inp, n, pos, len) == Body(StmtD5, inp, n, pos, len)
IfBlockD4(inp, n, pos) == IfBlock(ThenD4, ElseD4, inp, n, pos)
LoopD4(inp, n, pos, len) == Body(StmtD5, inp, n, pos, len)
ForBlockD4(inp, n, pos) == ForBlock(LoopD4, inp, n, pos)
BoolOpD4(t, n, pos) == SizedLeaf(1 .. 20, t, n, pos)
IntOpD4(t, n, pos) == SizedLeaf(32 .. 53, t, n, pos)
FbCallD4(t, n, pos) == SizedLeaf(80 .. 115, t, n, pos)
BlockD4(t, inp, n, pos) == IF t = 64 THEN IfBlockD4(inp, n, pos) ELSE ForBlockD4(inp, n, pos)
StmtD4payload(t, inp, n, pos) == Payload(t, BoolOpD4, IntOpD4, BlockD4, FbCallD4, inp, n, pos)
StmtD4(inp, n, pos) == Framed(StmtD4payload, inp, n, pos)

ThenD3(inp, n, pos, len) == Body(StmtD4, inp, n, pos, len)
ElseD3(inp, n, pos, len) == Body(StmtD4, inp, n, pos, len)
IfBlockD3(inp, n, pos) == IfBlock(ThenD3, ElseD3, inp, n, pos)
LoopD3(inp, n, pos, len) == Body(StmtD4, inp, n, pos, len)
ForBlockD3(inp, n, pos) == ForBlock(LoopD3, inp, n, pos)
BoolOpD3(t, n, pos) == SizedLeaf(1 .. 20, t, n, pos)
IntOpD3(t, n, pos) == SizedLeaf(32 .. 53, t, n, pos)
FbCallD3(t, n, pos) == SizedLeaf(80 .. 115, t, n, pos)
BlockD3(t, inp, n, pos) == IF t = 64 THEN IfBlockD3(inp, n, pos) ELSE ForBlockD3(inp, n, pos)
StmtD3payload(t, inp, n, pos) == Payload(t, BoolOpD3, IntOpD3, BlockD3, FbCallD3, inp, n, pos)
StmtD3(inp, n, pos) == Framed(StmtD3payload, inp, n, pos)

ThenD2(inp, n, pos, len) == Body(StmtD3, inp, n, pos, len)
ElseD2(inp, n, pos, len) == Body(StmtD3, inp, n, pos, len)
IfBlockD2(inp, n, pos) == IfBlock(ThenD2, ElseD2, inp, n, pos)
LoopD2(inp, n, pos, len) == Body(StmtD3, inp, n, pos, len)
ForBlockD2(inp, n, pos) == ForBlock(LoopD2, inp, n, pos)
BoolOpD2(t, n, pos) == SizedLeaf(1 .. 20, t, n, pos)
IntOpD2(t, n, pos) == SizedLeaf(32 .. 53, t, n, pos)
FbCallD2(t, n, pos) == SizedLeaf(80 .. 115, t, n, pos)
BlockD2(t, inp, n, pos) == IF t = 64 THEN IfBlockD2(inp, n, pos) ELSE ForBlockD2(inp, n, pos)
StmtD2payload(t, inp, n, pos) == Payload(t, BoolOpD2, IntOpD2, BlockD2, FbCallD2, inp, n, pos)
StmtD2(inp, n, pos) == Framed(StmtD2payload, inp, n, pos)

ThenD1(inp, n, pos, len) == Body(StmtD2, inp, n, pos, len)
ElseD1(inp, n, pos, len) == Body(StmtD2, inp, n, pos, len)
(* Mutant: the copy for the first depth takes the bodies of the second.    *)
IfBlockD1_copied(inp, n, pos) == IfBlock(ThenD2, ElseD2, inp, n, pos)
IfBlockD1(inp, n, pos) == IfBlock(ThenD1, ElseD1, inp, n, pos)
LoopD1(inp, n, pos, len) == Body(StmtD2, inp, n, pos, len)
ForBlockD1(inp, n, pos) == ForBlock(LoopD1, inp, n, pos)
BoolOpD1(t, n, pos) == SizedLeaf(1 .. 20, t, n, pos)
IntOpD1(t, n, pos) == SizedLeaf(32 .. 53, t, n, pos)
FbCallD1(t, n, pos) == SizedLeaf(80 .. 115, t, n, pos)
BlockD1(t, inp, n, pos) == IF t = 64 THEN IfBlockD1(inp, n, pos) ELSE ForBlockD1(inp, n, pos)
StmtD1payload(t, inp, n, pos) == Payload(t, BoolOpD1, IntOpD1, BlockD1, FbCallD1, inp, n, pos)
StmtD1(inp, n, pos) == Framed(StmtD1payload, inp, n, pos)

-----------------------------------------------------------------------------
(* The header of 20 bytes: magic and version, a byte of flags, the number  *)
(* of slots and instances of each kind, the lengths of the two sections.   *)
HeaderLen == 20
MagicOk(inp) == SubSeq(inp, 1, 3) = <<76, 80, 1>>

AtMost(inp, pos, most) == \A k \in 1 .. Len(most) : ByteAt(inp, pos + k - 1) <= most[k]
SlotsOk(inp) == AtMost(inp, 4, <<64, 32>>)             \* n_bools, n_ints
TimersOk(inp) == AtMost(inp, 6, <<8, 8, 8>>)           \* n_ton, n_tof, n_tp
CountersOk(inp) == AtMost(inp, 9, <<8, 8, 4>>)         \* n_ctu, n_ctd, n_ctud
LatchesOk(inp) == AtMost(inp, 12, <<8, 8>>)            \* n_sr, n_rs
EdgesOk(inp) == AtMost(inp, 14, <<8, 8>>)              \* n_rtrig, n_ftrig
CountsOk(inp) == SlotsOk(inp) /\ TimersOk(inp) /\ CountersOk(inp) /\ LatchesOk(inp) /\ EdgesOk(inp)

InitSection(inp, n) == Body(StmtD1, inp, n, HeaderLen, Load16Le(inp, 16))
BodySection(inp, n, pos) == Body(StmtD1, inp, n, pos, Load16Le(inp, 18))
Sections(inp, n) == BodySection(inp, n, InitSection(inp, n))

ValidateLowPlcprogram(inp, n) ==
    IF Take(HeaderLen, n, 0) = Error \/ ~MagicOk(inp) \/ ~CountsOk(inp) THEN Error
    ELSE Sections(inp, n)

(* Bytes after the body section are not looked at.                         *)
CheckLowPlcprogram(inp) == ValidateLowPlcprogram(inp, Len(inp)) # Error
=============================================================================
