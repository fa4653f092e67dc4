---------------------------- MODULE RuntimeHooks ----------------------------
(***************************************************************************)
(* The instrumentation hooks that report a condition to the fuzzer, and    *)
(* the condition slot they fill.                                           *)
(*                                                                         *)
(* A tracking run (runtime/src/track.rs) logs one CondStmtBase per probe   *)
(* of a tainted comparison, division, integer-overflow or memory-argument  *)
(* site; the fuzzer picks one of them as its target and, before each fast  *)
(* run, writes its cmpid, context and op into the condition slot.  In the  *)
(* fast run (runtime_fast/src/fast.rs) the hook of the same site computes  *)
(* every probe again and, for the one whose id matches the slot            *)
(* (check_match), stores the operands it computed (update_cmp).  The       *)
(* fuzzer then reads the objective of the slot (Objective!get_output).     *)
(*                                                                         *)
(* A probe id is cmpid | (k << 28); k is the probe's number.  Every width  *)
(* is scaled by ByteBits: u64 is 8 * ByteBits bits and u32 4 * ByteBits.   *)
(***************************************************************************)
EXTENDS Integers

CONSTANTS
    ByteBits,      \* bits of a byte
    Sizes,         \* operand sizes in bytes
    Sites,         \* call sites: [hook, size, pred, expid]
    Vals,          \* Vals[size]: operand values of a size-byte operand
    SResults,      \* SResults[size]: s_result values (i64) of an intflow site
    UResults,      \* UResults[size]: u_result values (u64) of an intflow site
    Labels,        \* taint labels; 0 is untainted
    SignedLabels   \* the labels whose tag set is signed (tag_set_get_sign)

VARIABLES
    site,    \* the call site of the condition being fuzzed
    target,  \* k of the probe the fuzzer targets, or NoTarget
    slot,    \* the condition slot: the logged CondStmtBase, args from the child
    flag,    \* the u32 condition the hook computed for the target, or NoFlag
    input    \* the operand values of the last fast run

vars == <<site, target, slot, flag, input>>

NoTarget == -1
NoFlag == -1

\* The slot as the executor zeroes it.
ZeroSlot == [kind |-> "explore", pred |-> "EQ", sign |-> FALSE, condition |-> "FALSE",
             size |-> 0, arg1 |-> 0, arg2 |-> 0]

O == INSTANCE Objective WITH
        Kinds <- {"explore", "exploit"},
        Preds <- {"EQ", "NE", "UGT", "UGE", "ULT", "ULE", "SGT", "SGE", "SLT", "SLE"},
        cond <- slot

Word == 8 * ByteBits
Half == 4 * ByteBits
U64MAX == 2^Word - 1
U32MAX == 2^Half - 1

\* Wrapping u64 arithmetic of a release build, and `x as i64`.
u64(x) == x % 2^Word
as_i64(x) == IF x >= 2^(Word - 1) THEN x - 2^Word ELSE x

\* A condition logged by log_cmp: condition COND_FALSE_ST, order 0.
LogCmp(kind, pred, sign, size, a1, a2) ==
    [kind |-> kind, pred |-> pred, sign |-> sign, condition |-> "FALSE",
     size |-> size, arg1 |-> a1, arg2 |-> a2]

(***************************************************************************)
(* Comparisons                                                             *)
(***************************************************************************)

\* The branch the program takes: the predicate on the operands read with
\* the signedness of the instruction.
Branch(pred, size, a, b) ==
    LET rd(v) == IF pred \in {"SGT", "SGE", "SLT", "SLE"} THEN O!ToSigned(v, size) ELSE v
    IN O!Holds(pred, rd(a), rd(b))

\* infer_eq_sign: an equality whose tainted operand has a signed tag gets
\* COND_SIGN_MASK.
infer_eq_sign(pred, lb1, lb2) ==
    pred = "EQ" /\ ((lb1 # 0 /\ lb1 \in SignedLabels) \/ (lb2 # 0 /\ lb2 \in SignedLabels))

\* __dfsw___angora_trace_cmp_tt: nothing when neither operand is tainted.
trace_cmp_tt(s, v) ==
    IF v.lb1 = 0 /\ v.lb2 = 0 THEN {}
    ELSE {[k |-> 0,
           cond |-> [LogCmp("explore", s.pred, infer_eq_sign(s.pred, v.lb1, v.lb2),
                            s.size, v.a, v.b)
                     EXCEPT !.condition =
                        IF Branch(s.pred, s.size, v.a, v.b) THEN "TRUE" ELSE "FALSE"]]}

\* __angora_trace_cmp: the operands and the branch, for the one probe.
trace_cmp(s, v) ==
    {[k |-> 0, condition |-> Branch(s.pred, s.size, v.a, v.b), arg1 |-> v.a, arg2 |-> v.b]}

(***************************************************************************)
(* Division: force the dividend to zero                                    *)
(***************************************************************************)

div_upper(size) == IF size < 8 THEN 2^(ByteBits * size) - 1 ELSE U32MAX
div_output(d) == u64(d - 1) % 2^Half

\* __angora_trace_exploit_div: probe 1 is dividend == 0, probe 2 is
\* (dividend - 1) & 0xffff_ffff == upper.
exploit_div(s, v) ==
    {[k |-> 1, condition |-> v.a = 0, arg1 |-> v.a, arg2 |-> 0],
     [k |-> 2, condition |-> div_output(v.a) = div_upper(s.size),
      arg1 |-> div_output(v.a), arg2 |-> div_upper(s.size)]}

\* __dfsw___angora_trace_exploit_div_tt: both probes as EXPLOIT_INT | EQ.
exploit_div_tt(s, v) ==
    IF v.lb1 = 0 THEN {}
    ELSE {[k |-> 1, cond |-> LogCmp("exploit", "EQ", FALSE, s.size, v.a, 0)],
          [k |-> 2, cond |-> LogCmp("exploit", "EQ", FALSE, s.size,
                                    div_output(v.a), div_upper(s.size))]}

(***************************************************************************)
(* Integer overflow of an arithmetic result                                *)
(***************************************************************************)

bit_size(size) == IF size = 8 THEN Half ELSE ByteBits * size

\* I<bit_size>::MIN as u64: u64::MAX << (bit_size - 1), the bits from
\* bit_size - 1 up set.
int_min(size) == 2^Word - 2^(bit_size(size) - 1)

\* __angora_trace_exploit_intflow: u_result > U::MAX, u_result < 0 (never),
\* s_result > I::MAX, s_result < I::MIN of bit_size bits.
exploit_intflow(s, v) ==
    LET b == bit_size(s.size)
    IN {[k |-> 1, condition |-> v.u > 2^b - 1, arg1 |-> v.u, arg2 |-> 2^b - 1],
        [k |-> 2, condition |-> FALSE, arg1 |-> v.u, arg2 |-> 0],
        [k |-> 3, condition |-> v.s > 2^(b - 1) - 1,
         arg1 |-> u64(v.s), arg2 |-> 2^(b - 1) - 1],
        [k |-> 4, condition |-> v.s < as_i64(int_min(s.size)),
         arg1 |-> u64(v.s), arg2 |-> int_min(s.size)]}

\* __dfsw___angora_trace_exploit_intflow_tt: the same four bounds as
\* EXPLOIT_INT | UGT, ULT, SGT and SLT, logged whatever the taint.
exploit_intflow_tt(s, v) ==
    LET b == bit_size(s.size)
    IN {[k |-> 1, cond |-> LogCmp("exploit", "UGT", FALSE, s.size, v.u, 2^b - 1)],
        [k |-> 2, cond |-> LogCmp("exploit", "ULT", FALSE, s.size, v.u, 0)],
        [k |-> 3, cond |-> LogCmp("exploit", "SGT", FALSE, s.size, u64(v.s), 2^(b - 1) - 1)],
        [k |-> 4, cond |-> LogCmp("exploit", "SLT", FALSE, s.size, u64(v.s), int_min(s.size))]}

(***************************************************************************)
(* Memory-function arguments                                               *)
(***************************************************************************)

mem_upper(size) == IF size < 8 THEN 2^size - 1 ELSE U32MAX - 1

\* __angora_trace_exploit_mem_arg: probe expid is arg > upper; probe
\* expid | 8 is arg > upper >> 1, reported as (u64::MAX, 0) when it holds.
exploit_mem_arg(s, v) ==
    {[k |-> s.expid, condition |-> v.a > mem_upper(s.size),
      arg1 |-> v.a, arg2 |-> mem_upper(s.size)],
     [k |-> s.expid + 8, condition |-> v.a > mem_upper(s.size) \div 2,
      arg1 |-> IF v.a > mem_upper(s.size) \div 2 THEN U64MAX ELSE v.a, arg2 |-> 0]}

\* __dfsw___angora_trace_exploit_mem_arg_tt: EXPLOIT_MEM | UGT against
\* upper and EXPLOIT_MEM | SLT against 0, both on arg.
exploit_mem_arg_tt(s, v) ==
    IF v.lb1 = 0 THEN {}
    ELSE {[k |-> s.expid, cond |-> LogCmp("exploit", "UGT", FALSE, s.size, v.a, mem_upper(s.size))],
          [k |-> s.expid + 8, cond |-> LogCmp("exploit", "SLT", FALSE, s.size, v.a, 0)]}

(***************************************************************************)
(* Runs                                                                    *)
(***************************************************************************)

\* The operand values a run of the site can reach, with their taint labels.
Inputs(s) ==
    CASE s.hook = "cmp"     -> [a: Vals[s.size], b: Vals[s.size], lb1: Labels, lb2: Labels]
      [] s.hook = "intflow" -> [s: SResults[s.size], u: UResults[s.size]]
      [] OTHER              -> [a: Vals[s.size], lb1: Labels]

\* What the tracking run logs at the site.
Logged(s, v) ==
    CASE s.hook = "cmp"     -> trace_cmp_tt(s, v)
      [] s.hook = "div"     -> exploit_div_tt(s, v)
      [] s.hook = "intflow" -> exploit_intflow_tt(s, v)
      [] s.hook = "mem"     -> exploit_mem_arg_tt(s, v)

\* What the fast run's hook computes for each probe of the site.
Probes(s, v) ==
    CASE s.hook = "cmp"     -> trace_cmp(s, v)
      [] s.hook = "div"     -> exploit_div(s, v)
      [] s.hook = "intflow" -> exploit_intflow(s, v)
      [] s.hook = "mem"     -> exploit_mem_arg(s, v)

Init ==
    /\ site \in Sites
    /\ target = NoTarget
    /\ slot = ZeroSlot
    /\ flag = NoFlag
    /\ input = "none"

\* A tracking run reaches the site with tainted operands; the fuzzer takes
\* one logged condition as its target and writes it to the slot.
Track ==
    \E v \in Inputs(site) : \E e \in Logged(site, v) :
        /\ target' = e.k
        /\ slot' = e.cond
        /\ flag' = NoFlag
        /\ input' = "none"
        /\ UNCHANGED site

\* A fast run on a mutated input: check_match selects the probe of the
\* target and update_cmp stores its operands in the slot.
Fast ==
    /\ target # NoTarget
    /\ \E v \in Inputs(site) : \E r \in Probes(site, v) :
        /\ r.k = target
        /\ slot' = [slot EXCEPT !.arg1 = r.arg1, !.arg2 = r.arg2]
        /\ flag' = IF r.condition THEN 1 ELSE 0
        /\ input' = v
        /\ UNCHANGED <<site, target>>

Next == Track \/ Fast

Spec == Init /\ [][Next]_vars

(***************************************************************************)
(* Properties                                                              *)
(***************************************************************************)

\* The slot holds a condition of the site, with operands that fit a u64.
TypeOK ==
    /\ site \in Sites
    /\ flag \in {NoFlag, 0, 1}
    /\ target # NoTarget => /\ slot.size = site.size
                            /\ {slot.arg1, slot.arg2} \subseteq 0..U64MAX

\* Whether the last fast run did what the target asks: the hook's own
\* condition for an exploit probe, the other branch for a comparison.
Hit == IF O!is_explore(slot) THEN (flag = 1) # (slot.condition = "TRUE") ELSE flag = 1

\* The objective the fuzzer reads from the slot (get_output, is_solved)
\* says solved exactly when the hook's own check of the probe holds: the
\* tracked op and size, applied to the operands the fast hook reported,
\* decide what the hook decided.
HookObjectiveAgrees ==
    flag # NoFlag => (O!is_solved(slot, O!get_output(slot)) <=> Hit)

\* The effect each exploit probe is written for, from the hooks' comments
\* and the div example of the spec (S5): the dividend zero, a memory
\* argument past 0xffffffff or negative at its width, an arithmetic result
\* past the bounds of bit_size bits.
Aimed(s, k, v) ==
    CASE s.hook = "div"                  -> v.a = 0
      [] s.hook = "mem" /\ k = s.expid   -> v.a > U32MAX
      [] s.hook = "mem"                  -> v.a >= 2^(ByteBits * s.size - 1)
      [] s.hook = "intflow" /\ k = 1     -> v.u > 2^bit_size(s.size) - 1
      [] s.hook = "intflow" /\ k = 3     -> v.s > 2^(bit_size(s.size) - 1) - 1
      [] s.hook = "intflow" /\ k = 4     -> v.s < -2^(bit_size(s.size) - 1)
      [] OTHER                           -> FALSE

\* An exploit target whose objective is solved was solved by an input that
\* has the effect the probe is written for.
ExploitSolvedMeansTarget ==
    (flag # NoFlag /\ ~O!is_explore(slot) /\ O!is_solved(slot, O!get_output(slot)))
        => Aimed(site, target, input)
====
