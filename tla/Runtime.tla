------------------------------- MODULE Runtime -------------------------------
(***************************************************************************)
(* The firmware around the interpreter, firmware/lowplc_runtime.c: the     *)
(* host loads a program, writes inputs and asks for scans.  Everything     *)
(* runs on one thread, so the host acts only while no call is pending;     *)
(* the steps of the interpreter are those of Interp.                       *)
(*                                                                         *)
(* A TLV image stands for the bytes given to lowplc_load_program: whether  *)
(* its size is accepted, what the generated validator says of it, and the  *)
(* opcodes of its two sections.  All images have the same pool counts.     *)
(***************************************************************************)
EXTENDS Wcet

CONSTANTS
    Images,     \* records sized, valid, init, body
    Budgets,    \* the values of scan_period_cycles, 0 = no limit
    Host        \* how the host reads the result of a load, see MayScan

ASSUME RuntimeAssumption ==
    /\ Images \subseteq [sized : BOOLEAN, valid : BOOLEAN, init : Seq(Cells), body : Seq(Cells)]
    /\ Budgets \subseteq Nat
    /\ Host \in {"each", "usage"}

VARIABLES
    image,      \* g_tlv_ptr and g_header
    mode,       \* which call of the API is pending
    err,        \* the result of the last load
    accepted,   \* the image of the last load that returned LOWPLC_OK, and
    budget      \*   its scan_period_cycles (neither is kept by the code)

runtime_vars == <<code, pool, stack, spent, image, mode, err, accepted, budget>>

NoImage == [sized |-> FALSE, valid |-> FALSE, init |-> <<>>, body |-> <<>>]
CodeOf(t) == t.init \o t.body
Errors == {"ERR_HEADER", "ERR_OPCODES", "ERR_INVALID_PERIOD", "ERR_WCET"}

ZeroPool == [bools |-> [k \in BoolSlots |-> FALSE], ints |-> [k \in IntSlots |-> 0],
             rtrigs |-> [k \in TrigSlots |-> FALSE]]

Init ==
    /\ code = <<>> /\ pool = ZeroPool /\ stack = <<>> /\ spent = 0
    /\ image = NoImage /\ mode = "idle" /\ err = "none"
    /\ accepted = NoImage /\ budget = 0

Idle == mode = "idle"
BodyWcet(t) == wcet_stmts(CodeOf(t), Len(t.init), Len(t.body))
WithinBudget(t, cycles) == cycles = 0 \/ BodyWcet(t) <= cycles

-----------------------------------------------------------------------------
(* lowplc_load_program, one action for each of its returns.                *)

LoadError(t, us) == IF ~t.sized THEN "ERR_HEADER"
                    ELSE IF ~t.valid THEN "ERR_OPCODES"
                    ELSE IF us = 0 THEN "ERR_INVALID_PERIOD" ELSE "none"

load_refused(t, us) ==
    /\ Idle /\ LoadError(t, us) # "none"
    /\ err' = LoadError(t, us)
    /\ UNCHANGED <<code, pool, stack, spent, image, mode, accepted, budget>>

(* Mutant: the bound is compared, and its failure not returned.            *)
load_over_budget_ok(t, us, cycles) ==
    /\ Idle /\ LoadError(t, us) = "none" /\ ~WithinBudget(t, cycles)
    /\ err' = "OK"
    /\ image' = t /\ code' = CodeOf(t)
    /\ UNCHANGED <<pool, stack, spent, mode, accepted, budget>>

(* The pointer and the header are stored before the bound is compared.     *)
load_over_budget(t, us, cycles) ==
    /\ Idle /\ LoadError(t, us) = "none" /\ ~WithinBudget(t, cycles)
    /\ err' = "ERR_WCET"
    /\ image' = t /\ code' = CodeOf(t)
    /\ UNCHANGED <<pool, stack, spent, mode, accepted, budget>>

(* Mutant: the memory of the edge detectors is not cleared.                *)
ClearedButTrigs == [ZeroPool EXCEPT !.rtrigs = pool.rtrigs]
init_pool_from_header == ZeroPool

(* Mutant: the bound is computed and reported, but not compared.           *)
load_init_unbounded(t, us, cycles) ==
    /\ Idle /\ LoadError(t, us) = "none"
    /\ image' = t /\ code' = CodeOf(t)
    /\ pool' = init_pool_from_header
    /\ stack' = <<Stmts(0, Len(t.init), Gas)>> /\ spent' = 0
    /\ mode' = "init" /\ accepted' = t /\ budget' = cycles
    /\ UNCHANGED err

load_init(t, us, cycles) ==
    /\ Idle /\ LoadError(t, us) = "none" /\ WithinBudget(t, cycles)
    /\ image' = t /\ code' = CodeOf(t)
    /\ pool' = init_pool_from_header
    /\ stack' = <<Stmts(0, Len(t.init), Gas)>> /\ spent' = 0
    /\ mode' = "init" /\ accepted' = t /\ budget' = cycles
    /\ UNCHANGED err

load_ok ==
    /\ mode = "init" /\ stack = <<>>
    /\ mode' = "idle" /\ err' = "OK"
    /\ UNCHANGED <<code, pool, stack, spent, image, accepted, budget>>

(* When the host goes on to scan: after a load that returned LOWPLC_OK     *)
(* (main_bringup.c), or when !lowplc_load_program(...) is false (the usage *)
(* comment).                                                               *)
MayScan == CASE Host = "each"  -> err = "OK"
             [] Host = "usage" -> err \in Errors

exec_scan ==
    /\ Idle /\ MayScan
    /\ stack' = <<Stmts(Len(image.init), Len(image.body), Gas)>> /\ spent' = 0
    /\ mode' = "scan"
    /\ UNCHANGED <<code, pool, image, err, accepted, budget>>

exec_scan_return ==
    /\ mode = "scan" /\ stack = <<>>
    /\ mode' = "idle"
    /\ UNCHANGED <<code, pool, stack, spent, image, err, accepted, budget>>

set_bool(idx, val) ==
    /\ Idle /\ idx \in BoolSlots
    /\ pool' = [pool EXCEPT !.bools[idx] = val]
    /\ UNCHANGED <<code, stack, spent, image, mode, err, accepted, budget>>

interpret == Step /\ UNCHANGED <<image, mode, err, accepted, budget>>

load_program ==
    \E t \in Images, us \in {0, 1}, cycles \in Budgets :
        load_refused(t, us) \/ load_over_budget(t, us, cycles) \/ load_init(t, us, cycles)

Next ==
    \/ load_program \/ load_ok
    \/ exec_scan \/ exec_scan_return \/ interpret
    \/ \E idx \in BoolSlots, val \in BOOLEAN : set_bool(idx, val)

Spec == Init /\ [][Next]_runtime_vars

-----------------------------------------------------------------------------
(* Type invariant.                                                         *)
TypeOK ==
    /\ pool \in Pools
    /\ mode \in {"idle", "init", "scan"}
    /\ err \in Errors \cup {"none", "OK"}
    /\ image \in Images \cup {NoImage} /\ accepted \in Images \cup {NoImage}
    /\ budget \in Budgets \cup {0}
    /\ code = CodeOf(image)
    /\ mode = "idle" => stack = <<>>

(* A scan runs the program of the last load that succeeded, over the pool  *)
(* that load initialised: the validator has seen every opcode it executes. *)
OnlyAcceptedRuns == mode = "scan" => image = accepted /\ accepted # NoImage

(* A load leaves nothing of the program before it: its init section runs   *)
(* over a pool of zeros.                                                   *)
InitFromZero ==
    mode = "init" /\ stack = <<>>
        => pool = Pure!exec_stmts(code, 0, Len(image.init), ZeroPool, Gas)

(* A scan keeps to the budget its program was loaded with, whatever the    *)
(* inputs and the memories that earlier scans left.                        *)
ScanMeetsBudget == mode = "scan" /\ budget # 0 => spent <= budget
=============================================================================
