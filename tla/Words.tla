------------------------------- MODULE Words -------------------------------
(***************************************************************************)
(* The INT word of the interpreter: Int16 in the code, IntMin .. IntMax    *)
(* here, with the wrapping arithmetic of fstar/src/LowPLC.Interp.Low.fst   *)
(* (an Int32 result cast back to Int16).                                   *)
(***************************************************************************)
EXTENDS Integers

CONSTANT IntMax     \* largest INT, 32767 in the code

IntMin == -IntMax - 1
Int16 == IntMin .. IntMax

ASSUME WordAssumption == IntMax \in Nat \ {0}

wrap_i16(n) == IF n \in Int16 THEN n ELSE ((n - IntMin) % (2 * IntMax + 2)) + IntMin
add_wrap(a, b) == wrap_i16(a + b)
sub_wrap(a, b) == wrap_i16(a - b)
mul_wrap(a, b) == wrap_i16(a * b)
=============================================================================
