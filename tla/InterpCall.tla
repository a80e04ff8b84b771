----------------------------- MODULE InterpCall -----------------------------
(***************************************************************************)
(* One call of exec_stmts_low on a whole program, from a pool the host may *)
(* have left: the scan, without what happens between scans (Runtime).      *)
(***************************************************************************)
EXTENDS Wcet

CONSTANTS
    Programs,   \* the codes, sequences of cells
    Memories    \* the pools a scan starts from

VARIABLE pool0  \* the pool the call was given (not in the code)

ASSUME CallAssumption == Programs \subseteq Seq(Cells) /\ Memories \subseteq Pools

vars == <<code, pool, stack, spent, pool0>>

Init ==
    /\ code \in Programs
    /\ pool \in Memories /\ pool0 = pool
    /\ stack = <<Stmts(0, Len(code), Gas)>>
    /\ spent = 0

(* The call has returned.                                                  *)
Returned == stack = <<>> /\ UNCHANGED vars

Next == (Step /\ UNCHANGED pool0) \/ Returned
Spec == Init /\ [][Next]_vars

-----------------------------------------------------------------------------
(* Type invariant.  INT slots hold words; a frame inside a loop body still *)
(* has an iteration, and gas, to give back.                                *)
TypeOK ==
    /\ code \in Seq(Cells)
    /\ pool \in Pools /\ pool0 \in Pools
    /\ stack \in Seq(Frames)
    /\ spent \in Nat
    /\ \A k \in 1 .. Len(stack) :
          stack[k].kind = "iter" /\ stack[k].inside => stack[k].left > 0 /\ stack[k].gas > 0

(* The precondition of every recursive call of the interpreter, which its  *)
(* reads of code rely on: off + rem <= code_len, whatever lengths the      *)
(* cells of the program hold.                                              *)
FramesInCode == \A k \in 1 .. Len(stack) : stack[k].off + stack[k].rem <= Len(code)

(* In a program the validator accepts a body never runs past its block:    *)
(* while a call is pending its caller stands at the end of the block, or   *)
(* around it if it is a loop.                                              *)
BlocksNest == WellFormed(code) =>
    \A k \in 1 .. Len(stack) - 1 :
        LET caller == stack[k]
            body == stack[k + 1]
        IN  IF caller.kind = "stmts" THEN body.off + body.rem <= caller.off
            ELSE caller.off <= body.off /\ body.off + body.rem <= caller.off + caller.rem

(* What a pending call reads lies in the code and in its block.            *)
FramesNest == FramesInCode /\ BlocksNest

(* The calls with their early returns compute the pure semantics, the      *)
(* effects of gas running out included.  (Of an IF whose ELSE alone leaves *)
(* the code, the semantics runs the THEN, and the machine nothing; and an  *)
(* opcode with an index outside its pool does nothing in the machine,      *)
(* while the semantics reads a zero there.)                                *)
MatchesSpec ==
    Meaningful(code) /\ stack = <<>> => pool = Pure!exec_stmts(code, 0, Len(code), pool0, Gas)

(* The cycles spent never exceed the bound lowplc_load_program accepted    *)
(* the program on, whichever branches and loops ran.                       *)
CostWithinWcet == spent <= wcet_stmts(code, 0, Len(code))

(* A scan ends, whatever a loop body does to the control variable.         *)
ScanEnds == <>(stack = <<>>)
=============================================================================
