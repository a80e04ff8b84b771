------------------------------ MODULE TlvCode ------------------------------
(***************************************************************************)
(* What the interpreter reads in the bytes of an image: exec_stmts_low,    *)
(* exec_if_block_low and exec_for_block_low of                             *)
(* fstar/src/LowPLC.Interp.Low.fst.  Decode gives the cells of code that   *)
(* modules Interp and InterpSpec run; a statement list that the machine    *)
(* gives up on ends there.                                                 *)
(***************************************************************************)
EXTENDS TlvValidator, Words, TLC

read_u16_le(code, off) == Load16Le(code, off)
read_i16_le(code, off) == wrap_i16(Load16Le(code, off))

TagName ==
    (1 :> "load_true") @@ (2 :> "load_false") @@ (3 :> "load_int")
      @@ (16 :> "bool_not") @@ (17 :> "bool_and") @@ (18 :> "bool_or") @@ (19 :> "bool_xor")
      @@ (20 :> "copy_bool") @@ (32 :> "int_add") @@ (33 :> "int_sub") @@ (34 :> "int_mul")
      @@ (35 :> "copy_int") @@ (48 :> "cmp_eq") @@ (49 :> "cmp_ne") @@ (50 :> "cmp_lt")
      @@ (51 :> "cmp_gt") @@ (52 :> "cmp_le") @@ (53 :> "cmp_ge") @@ (114 :> "rtrig_call")

IfTag == 64
ForTag == 65

(* The pools the payload bytes of a tag index, "" for a literal.           *)
Operands ==
    LET b(k) == [j \in 1 .. k |-> "bools"]
        i(k) == [j \in 1 .. k |-> "ints"]
        timer(pool) == <<pool, "bools", "", "", "", "", "bools">>
    IN  [t \in {1, 2} |-> b(1)] @@ (3 :> <<"ints", "", "">>)
          @@ [t \in {16, 20} |-> b(2)] @@ [t \in 17 .. 19 |-> b(3)]
          @@ [t \in 32 .. 34 |-> i(3)] @@ (35 :> i(2))
          @@ [t \in 48 .. 53 |-> b(1) \o i(2)]
          @@ (80 :> timer("ton")) @@ (81 :> timer("tof")) @@ (82 :> timer("tp"))
          @@ (96 :> <<"ctu">> \o b(2) \o i(1) \o b(1) \o i(1))
          @@ (97 :> <<"ctd">> \o b(2) \o i(1) \o b(1) \o i(1))
          @@ (98 :> <<"ctud">> \o b(4) \o i(1) \o b(2) \o i(1))
          @@ (112 :> <<"sr">> \o b(3)) @@ (113 :> <<"rs">> \o b(3))
          @@ (114 :> <<"rtrig">> \o b(2)) @@ (115 :> <<"ftrig">> \o b(2))

(* The slots and instances the header of the image declares.               *)
PoolNames == <<"bools", "ints", "ton", "tof", "tp", "ctu", "ctd", "ctud", "sr", "rs", "rtrig", "ftrig">>
Count(image, pool) == ByteAt(image, 3 + CHOOSE k \in DOMAIN PoolNames : PoolNames[k] = pool)

(* Every index of a leaf is below the count of its pool.                   *)
LeafInPools(image, off) ==
    LET tag == ByteAt(image, off)
    IN  tag \in DOMAIN Operands =>
          \A k \in DOMAIN Operands[tag] :
             Operands[tag][k] # "" => ByteAt(image, off + 2 + k) < Count(image, Operands[tag][k])

-----------------------------------------------------------------------------
Leaf(op, d, a, b, v) == [op |-> op, d |-> d, a |-> a, b |-> b, v |-> v, len |-> 0]

(* A leaf whose payload is too short for its tag changes nothing.          *)
LeafCell(code, off, len) ==
    LET tag == ByteAt(code, off)
        byte(k) == IF k < len THEN ByteAt(code, off + 3 + k) ELSE 0
    IN  IF tag \notin DOMAIN TagName THEN Leaf("unknown", 0, 0, 0, 0)
        ELSE IF len < LeafSize[tag] THEN Leaf("unknown", 0, 0, 0, 0)
        ELSE IF tag = 3 THEN Leaf("load_int", byte(0), 0, 0, read_i16_le(code, off + 4))
        ELSE Leaf(TagName[tag], byte(0), byte(1), byte(2), 0)

(* A whole statement is at off: its header and payload fit in both.        *)
StmtFits(code, off, rem) ==
    /\ rem >= 3 /\ off + 3 <= Len(code)
    /\ 3 + read_u16_le(code, off + 1) <= rem
    /\ read_u16_le(code, off + 1) <= Len(code) - off - 3

(* The bodies an IF or a FOR with its payload at poff jumps to: <<offset,  *)
(* length>>, none if the block is passed over.  The length of the payload  *)
(* itself is not consulted.                                                *)
IfBodies(code, poff) ==
    LET then_len == read_u16_le(code, poff + 3)
        else_len == read_u16_le(code, poff + 5)
        else_off == poff + 7 + then_len
    IN  IF poff + 7 > Len(code) THEN <<>>
        ELSE IF else_off + else_len > Len(code) THEN <<>>
        ELSE <<<<poff + 7, then_len>>, <<else_off, else_len>>>>
ForBodies(code, poff) ==
    IF poff + 8 > Len(code) THEN <<>>
    ELSE IF poff + 8 + read_u16_le(code, poff + 6) > Len(code) THEN <<>>
    ELSE <<<<poff + 8, read_u16_le(code, poff + 6)>>>>
Bodies(code, off) == CASE ByteAt(code, off) = IfTag  -> IfBodies(code, off + 3)
                       [] ByteAt(code, off) = ForTag -> ForBodies(code, off + 3)
                       [] OTHER                      -> <<>>

NextOff(code, off) == off + 3 + read_u16_le(code, off + 1)
(* Mutant: the payload is skipped but not counted.                         *)
NextRem_uncounted(code, off, rem) == rem - 3
NextRem(code, off, rem) == rem - (3 + read_u16_le(code, off + 1))

RECURSIVE Decode(_, _, _)
StmtCells(code, off) ==
    LET bodies == Bodies(code, off)
        cells(k) == Decode(code, bodies[k][1], bodies[k][2])
        poff == off + 3
    IN  IF bodies = <<>>
        THEN <<LeafCell(code, off, read_u16_le(code, off + 1))>>
        ELSE IF Len(bodies) = 2
        THEN <<[op |-> "if_block", cond |-> ByteAt(code, poff), then |-> Len(cells(1)),
                els |-> Len(cells(2)), len |-> Len(cells(1)) + Len(cells(2))]>>
               \o cells(1) \o cells(2)
        ELSE <<[op |-> "for_block", idx |-> ByteAt(code, poff), start |-> read_i16_le(code, poff + 1),
                end |-> read_i16_le(code, poff + 3), body |-> Len(cells(1)), len |-> Len(cells(1))]>>
               \o cells(1)
Decode(code, off, rem) ==
    IF ~StmtFits(code, off, rem) THEN <<>>
    ELSE StmtCells(code, off) \o Decode(code, NextOff(code, off), NextRem(code, off, rem))

RECURSIVE Visited(_, _, _)
(* Every list of statements the machine may run, from the list at off: the *)
(* offsets it may execute and, negated, those it gives up at.              *)
Visited(code, off, rem) ==
    IF rem = 0 THEN {}
    ELSE IF ~StmtFits(code, off, rem) THEN {-off}
    ELSE {off} \cup Visited(code, NextOff(code, off), NextRem(code, off, rem))
           \cup UNION {Visited(code, Bodies(code, off)[k][1], Bodies(code, off)[k][2]) :
                         k \in DOMAIN Bodies(code, off)}

(* The two sections of an image.                                           *)
InitLen(image) == read_u16_le(image, 16)
BodyLen(image) == read_u16_le(image, 18)
AllVisited(image) == Visited(image, HeaderLen, InitLen(image))
                       \cup Visited(image, HeaderLen + InitLen(image), BodyLen(image))
=============================================================================
