----------------------------- MODULE QPriority -----------------------------
(***************************************************************************)
(* The priority of a condition in the Depot (fuzzer/src/depot/qpriority.rs).*)
(* A priority is an unsigned integer of W bits (u16 in the code, W = 16).  *)
(* Residue 0 mod 3 is the explore class, 1 the AFL class, 2 the exploit    *)
(* class; the all-ones value is the DONE sentinel.  Arithmetic keeps the   *)
(* width: the release build wraps an overflowing `self.0 + 3` modulo 2^W.  *)
(***************************************************************************)
EXTENDS Naturals

CONSTANTS
    W,            \* width of the priority in bits (16 in the code)
    MaxPriority   \* FuzzerConfig::max_priority (u16::MAX by default)

ASSUME W \in Nat \ {0} /\ W % 2 = 0  \* 2^W - 1 is a multiple of 3, as for u16
ASSUME MaxPriority \in 0..(2^W - 1)

\* The kinds of `op` that QPriority::init tells apart.
Ops == {"explore", "afl", "exploit"}

EXPLORE_INIT_PRIORITY == 0
AFL_INIT_PRIORITY == 1
EXPLOIT_INIT_PRIORITY == 2
DONE_PRIORITY == 2^W - 1

Priorities == 0..DONE_PRIORITY

\* QPriority::init: AFL op first, then the exploit mask, else the base class.
init(op) ==
    CASE op = "afl"     -> AFL_INIT_PRIORITY
      [] op = "exploit" -> EXPLOIT_INIT_PRIORITY
      [] OTHER          -> EXPLORE_INIT_PRIORITY

\* Mutants of inc: a step of 1 instead of the number of classes, and no
\* progress at all.
inc_by_one(p, op) == IF p > MaxPriority THEN DONE_PRIORITY ELSE (p + 1) % 2^W
inc_frozen(p, op) == IF p > MaxPriority THEN DONE_PRIORITY ELSE p

\* QPriority::inc: DONE once above max_priority, else add 3 in W bits.
inc(p, op) ==
    IF p > MaxPriority THEN DONE_PRIORITY ELSE (p + 3) % 2^W

is_done(p) == p = DONE_PRIORITY
=============================================================================
