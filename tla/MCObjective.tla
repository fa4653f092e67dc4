---------------------------- MODULE MCObjective -----------------------------
(***************************************************************************)
(* Objective for TLC: every predicate, sign mask, kind and branch, with    *)
(* the operand values around 0 and both sign boundaries of 1- and 2-byte   *)
(* operands.                                                               *)
(***************************************************************************)
EXTENDS Objective

MCKinds == {"explore", "exploit", "len"}
MCPreds == IntPreds \cup {"SW", "FCMP"}
MCSizes == {1, 2}

\* 0, 1, MAX_signed - 1, MAX_signed, MIN_signed, MIN_signed + 1, MAX - 1, MAX.
Boundary(n) == {0, 1, 2^(n-1) - 2, 2^(n-1) - 1, 2^(n-1), 2^(n-1) + 1, 2^n - 2, 2^n - 1}

MCVals == [z \in MCSizes |-> Boundary(8 * z)]
=============================================================================
