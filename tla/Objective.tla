----------------------------- MODULE Objective ------------------------------
(***************************************************************************)
(* The objective (distance) of a condition (fuzzer/src/cond_stmt/output.rs) *)
(* and the two predicates that decide from it that a condition is solved:  *)
(* CondStmt::is_solved (cond_stmt/cond_stmt.rs) and IntGdSearch::is_solved *)
(* (search/newgd.rs).                                                      *)
(*                                                                         *)
(* A condition is the part of CondStmtBase the objective reads: the kind   *)
(* of op (its SPECIAL and EXPLOIT masks), the basic predicate, the sign    *)
(* mask, the branch taken (condition), the operand size in bytes and the   *)
(* two u64 operands the child reported.  Each state is one condition the   *)
(* executor reads back from the condition slot.                            *)
(***************************************************************************)
EXTENDS Integers

CONSTANTS
    Kinds,     \* "explore", "exploit", and the special ops "afl", "fn", "len"
    Preds,     \* basic predicates: "EQ", "NE", "UGT".."SLE", "SW", "FCMP"
    Sizes,     \* operand sizes in bytes
    Vals,      \* Vals[size]: the u64 operand values to try at that size
    ByteBits   \* bits of a byte: 8, or fewer to scale every width down

IntPreds == {"EQ", "NE", "UGT", "UGE", "ULT", "ULE", "SGT", "SGE", "SLT", "SLE"}

ASSUME Kinds \subseteq {"explore", "exploit", "afl", "fn", "len"}
ASSUME Preds \subseteq IntPreds \cup {"SW", "FCMP"}
ASSUME Sizes \subseteq {1, 2, 4, 8}
ASSUME ByteBits \in 1..8

\* The ops matched first by get_output: COND_AFL_OP, COND_FN_OP, COND_LEN_OP.
SpecialKinds == {"afl", "fn", "len"}

EPS == 1

Conds ==
    UNION {[kind: Kinds, pred: Preds, sign: BOOLEAN, condition: {"FALSE", "TRUE"},
            size: {z}, arg1: Vals[z], arg2: Vals[z]] : z \in Sizes}

\* CondStmtBase::is_explore: neither a special nor an exploit op.
is_explore(c) == c.kind = "explore"

\* CondStmtBase::is_signed: the sign mask, or a signed basic predicate.
is_signed(c) == c.sign \/ c.pred \in {"SGT", "SGE", "SLT", "SLE"}

\* The basic predicate with a switch compared as an equality.
BasicOp(c) == IF c.pred = "SW" THEN "EQ" ELSE c.pred

\* CondStmtBase::is_strict_equality.
is_strict_equality(c) == BasicOp(c) \in {"EQ", "NE"}

\* The opposite predicate, wanted when an explore condition is now TRUE.
Opposite ==
    [EQ |-> "NE", NE |-> "EQ", UGT |-> "ULE", UGE |-> "ULT", ULT |-> "UGE",
     ULE |-> "UGT", SGT |-> "SLE", SGE |-> "SLT", SLT |-> "SGE", SLE |-> "SGT"]

\* `v as i_n`: the low n bits of v as a two's-complement number.
as_signed(v, n) ==
    LET low == v % 2^n IN IF low >= 2^(n - 1) THEN low - 2^n ELSE low

\* Mutant of translate_signed_value: the non-negative half shifted by
\* u8::MAX + 1 (2^n) instead of i8::MAX + 1.
translate_signed_value_wide(v, size) ==
    LET n == ByteBits * size
        s == as_signed(v, n)
    IN IF size \notin {1, 2, 4, 8} THEN v
       ELSE IF s < 0 THEN (s + (2^(n - 1) - 1) + 1) % 2^n
       ELSE v + 2^n

\* Mutant of translate_signed_value: `s = s + 1` left out.
translate_signed_value_short(v, size) ==
    LET n == ByteBits * size
        s == as_signed(v, n)
    IN IF size \notin {1, 2, 4, 8} THEN v
       ELSE IF s < 0 THEN (s + (2^(n - 1) - 1)) % 2^n
       ELSE v + 2^(n - 1)

\* translate_signed_value: read v as an n-bit signed s; a negative s moves
\* to [0, 2^(n-1)) by adding i_n::MAX and 1 and truncating to u_n, and a
\* non-negative one to [2^(n-1), 2^n) by adding i_n::MAX + 1 to v.
translate_signed_value(v, size) ==
    LET n == ByteBits * size
        s == as_signed(v, n)
    IN IF size \notin {1, 2, 4, 8} THEN v
       ELSE IF s < 0 THEN (s + (2^(n - 1) - 1) + 1) % 2^n
       ELSE v + 2^(n - 1)

\* Mutant of Distance: a > b without the EPS that breaks the tie.
Distance_noeps(op, a, b) ==
    CASE op = "EQ"                -> a - b
      [] op = "NE"                -> IF a = b THEN 1 ELSE 0
      [] op \in {"SGT", "UGT"}    -> b - a
      [] op \in {"UGE", "SGE"}    -> b - a
      [] op \in {"ULT", "SLT"}    -> a - b + EPS
      [] op \in {"ULE", "SLE"}    -> a - b
      [] OTHER                    -> a - b

\* The match of get_output: a distance that is <= 0 (0 for EQ and NE)
\* exactly when op holds of a and b.
Distance(op, a, b) ==
    CASE op = "EQ"                -> a - b
      [] op = "NE"                -> IF a = b THEN 1 ELSE 0
      [] op \in {"SGT", "UGT"}    -> b - a + EPS
      [] op \in {"UGE", "SGE"}    -> b - a
      [] op \in {"ULT", "SLT"}    -> a - b + EPS
      [] op \in {"ULE", "SLE"}    -> a - b
      [] OTHER                    -> a - b

\* CondOutput::get_output.
get_output(c) ==
    LET a == IF is_signed(c) THEN translate_signed_value(c.arg1, c.size) ELSE c.arg1
        b == IF is_signed(c) THEN translate_signed_value(c.arg2, c.size) ELSE c.arg2
        op == IF is_explore(c) /\ c.condition = "TRUE" /\ BasicOp(c) \in IntPreds
              THEN Opposite[BasicOp(c)] ELSE BasicOp(c)
    IN IF c.kind \in SpecialKinds THEN IF a >= b THEN a - b ELSE b - a
       ELSE Distance(op, a, b)

\* CondStmt::is_solved.
is_solved(c, output) ==
    \/ is_strict_equality(c) /\ output = 0
    \/ ~is_strict_equality(c) /\ output <= 0

\* IsZero for f64 with EPS = 1e-10: on the f64 of an integer output (exact
\* near 0), |f| <= 1e-10 is f = 0 and f < -1e-10 is f < 0.
equal_to_zero(f) == f = 0
less_than_zero(f) == f < 0

\* IntGdSearch::is_solved.
is_solved_gd(c, f) ==
    \/ is_strict_equality(c) /\ equal_to_zero(f)
    \/ ~is_strict_equality(c) /\ less_than_zero(f)

VARIABLE cond   \* the condition read back after a run

\* The objective of a condition fits in n + 1 bits for n-bit operands.
TypeOK ==
    /\ cond \in Conds
    /\ get_output(cond) \in -(2^(ByteBits * cond.size))..(2^(ByteBits * cond.size))

Init == cond \in Conds

\* The next run of the same condition, on a mutated input, reports new
\* operands (update_cmp fills arg1 and arg2 of the condition slot).
Observe ==
    \E a, b \in Vals[cond.size] : cond' = [cond EXCEPT !.arg1 = a, !.arg2 = b]

Spec == Init /\ [][Observe]_cond

(***************************************************************************)
(* Reference definitions and properties                                    *)
(***************************************************************************)

\* The two's-complement value of an n-bit operand.
ToSigned(v, size) ==
    LET n == ByteBits * size IN IF v >= 2^(n - 1) THEN v - 2^n ELSE v

\* The operand as the comparison reads it.
Operand(c, v) == IF is_signed(c) THEN ToSigned(v, c.size) ELSE v

\* Whether the predicate op holds of x and y.
Holds(op, x, y) ==
    CASE op = "EQ"               -> x = y
      [] op = "NE"               -> x # y
      [] op \in {"UGT", "SGT"}   -> x > y
      [] op \in {"UGE", "SGE"}   -> x >= y
      [] op \in {"ULT", "SLT"}   -> x < y
      [] op \in {"ULE", "SLE"}   -> x <= y

\* The branch the fuzzer wants: the other side of an explore condition
\* that is now TRUE, and the predicate itself otherwise.
Wanted(c) ==
    LET p == Holds(BasicOp(c), Operand(c, c.arg1), Operand(c, c.arg2))
    IN IF is_explore(c) /\ c.condition = "TRUE" THEN ~p ELSE p

\* The objective is defined for the integer predicates of non-special ops.
Judged(c) == c.kind \notin SpecialKinds /\ BasicOp(c) \in IntPreds

\* Spec invariant 7: CondStmt::is_solved of get_output holds exactly when
\* the operands the child reported take the wanted branch, for every
\* predicate, signedness and size.
SolvedMeansTaken ==
    Judged(cond) => (is_solved(cond, get_output(cond)) <=> Wanted(cond))

\* Spec invariant 3: translate_signed_value orders the operands as their
\* two's-complement values are ordered, so unsigned arithmetic on the
\* translated values compares them as signed numbers.
SignedOrderPreserved ==
    LET x == cond.arg1
        y == cond.arg2
        z == cond.size
    IN ToSigned(x, z) < ToSigned(y, z) <=>
       translate_signed_value(x, z) < translate_signed_value(y, z)

\* The gradient solver stops as soon as it sees a solved objective: its
\* is_solved should agree with the wanted branch as CondStmt::is_solved
\* does.
SolverSolvedMeansTaken ==
    Judged(cond) => (is_solved_gd(cond, get_output(cond)) <=> Wanted(cond))
====
