------------------------------ MODULE AflFuzz --------------------------------
(***************************************************************************)
(* AFLFuzz (fuzzer/src/search/afl.rs): the strategy the fuzz loop runs on  *)
(* an AFL condition.  On the condition's first visit it appends small      *)
(* random tails to the seed (afl_len); then it splices the seed with       *)
(* random inputs of the depot until the handler's budget is spent or a     *)
(* splice is impossible; then it runs stacked havoc mutations of the seed  *)
(* until the budget, grown for havoc, is spent again.                      *)
(*                                                                         *)
(* Buffers are sequences of bytes of ByteBits bits; MAX_INPUT_LEN is the   *)
(* constant MaxInputLen.  Every random draw of the code is a choice over   *)
(* the values it can take.  The handler (SearchHandler, not in the         *)
(* sources) counts each run against max_times and sets skip when the      *)
(* count reaches it; SIGINT clears running at any time.                    *)
(***************************************************************************)
EXTENDS Integers, Sequences

CONSTANTS
    ByteBits,             \* bits of a byte
    MaxInputLen,          \* config::MAX_INPUT_LEN
    Seeds,                \* handler.buf, the seed of the condition
    Inputs,               \* what executor.random_input_buf may return
    EdgeNums,             \* cond.base.arg1, the edge count of the AFL cond
    AvgEdgeNums,          \* executor.local_stats.avg_edge_num
    StateTimes,           \* cond.state_times at this visit
    HandlerMaxTimes,      \* max_times of a new handler
    MAX_SPLICE_TIMES,     \* config::MAX_SPLICE_TIMES (45)
    MAX_HAVOC_FLIP_TIMES, \* config::MAX_HAVOC_FLIP_TIMES (45)
    HavocStacking,        \* max_stacking: 64 for a seed of at most 16 bytes
    Interesting(_),       \* get_interesting_bytes(size)
    ArithDeltas           \* the v of 0..MUTATE_ARITH_MAX that may be drawn

Byte == 0..(2^ByteBits - 1)

ASSUME \A s \in Seeds \cup Inputs : s \in Seq(Byte)

(***************************************************************************)
(* Buffer helpers of mut_input/rw.rs, little-endian as on x86              *)
(***************************************************************************)

\* The value of the size bytes of buf at offset off (0-based).
get_val_in_buf(buf, off, size) ==
    LET v[j \in 0..size] ==
            IF j = 0 THEN 0 ELSE v[j - 1] + buf[off + j] * 2^(ByteBits * (j - 1))
    IN v[size]

\* Byte j (0-based) of the value val.
ByteOf(val, j) == (val \div 2^(ByteBits * j)) % 2^ByteBits

set_val_in_buf(buf, off, size, val) ==
    [i \in DOMAIN buf |->
        IF off < i /\ i <= off + size THEN ByteOf(val, i - off - 1) ELSE buf[i]]

reverse_endian(val, size) ==
    LET r[j \in 0..size] ==
            IF j = 0 THEN 0 ELSE r[j - 1] + ByteOf(val, j - 1) * 2^(ByteBits * (size - j))
    IN r[size]

\* update_val_in_buf with sign false: the unsigned wrapping add or sub of
\* delta, truncated to the window, in the chosen byte order.
update_val_in_buf(buf, off, size, direction, swap_endian, delta) ==
    LET w == 2^(ByteBits * size)
        raw == get_val_in_buf(buf, off, size)
        val == IF swap_endian THEN reverse_endian(raw, size) ELSE raw
        new == IF direction THEN (val + (delta % w)) % w ELSE (val - (delta % w)) % w
    IN set_val_in_buf(buf, off, size, IF swap_endian THEN reverse_endian(new, size) ELSE new)

insert_partial_buf(buf, to_insert, to) ==
    SubSeq(buf, 1, to) \o to_insert \o SubSeq(buf, to + 1, Len(buf))

\* copy_within(from..from + size, to): the source is read before writing.
overwrite_partial_buf(buf, from, size, to) ==
    [i \in DOMAIN buf |-> IF to < i /\ i <= to + size THEN buf[from + i - to] ELSE buf[i]]

(***************************************************************************)
(* The random draws of afl.rs                                              *)
(***************************************************************************)

\* IDX_TO_SIZE[gen_range(0, 3)]: the first three entries of [1, 2, 4, 8].
HavocSizes == {1, 2, 4}

\* run_ratio of AFLFuzz::new.
run_ratio(edge_num, avg_edge_num) ==
    IF edge_num * 3 < avg_edge_num THEN 2 ELSE IF edge_num < avg_edge_num THEN 3 ELSE 5

\* The (min, max) arms of random_block_len.
BlockArms == {<<1, 32>>, <<32, 128>>, <<128, 1500>>, <<1500, MaxInputLen>>}

LeastOf(a, b) == IF a < b THEN a ELSE b

\* Mutant of BlockLow: min clamped to min(1, limit).
BlockLow_nodec(arm, limit) == IF arm[1] >= limit THEN LeastOf(1, limit) ELSE arm[1]

\* min of random_block_len after its clamp.
BlockLow(arm, limit) == IF arm[1] >= limit THEN LeastOf(1, limit - 1) ELSE arm[1]

\* gen_range(min, min(limit, max)) of an arm: empty when it would panic.
random_block_len(arm, limit) ==
    BlockLow(arm, limit)..(LeastOf(limit, arm[2]) - 1)

\* The clone size capped so the buffer stays within max_len; the u32
\* subtraction underflows (a panic) when the buffer is already longer.
CappedSize(size, byte_len) ==
    IF size + byte_len > MaxInputLen THEN MaxInputLen - byte_len ELSE size

\* splice_two_vec: locate_diffs over the common length, then the prefix of
\* buf1 and the suffix of buf2 at a split in [first diff, last diff).
splice_two_vec(buf1, buf2) ==
    LET len == LeastOf(Len(buf1), Len(buf2))
        diffs == {i \in 1..len : buf1[i] # buf2[i]}
        f == CHOOSE i \in diffs : \A j \in diffs : i <= j
        l == CHOOSE i \in diffs : \A j \in diffs : i >= j
    IN IF len < 2 \/ diffs = {} THEN {}
       ELSE IF f = l THEN {}
       ELSE {SubSeq(buf1, 1, s) \o SubSeq(buf2, s + 1, Len(buf2)) : s \in (f - 1)..(l - 2)}
(***************************************************************************)
(* One step of havoc_flip on buf: each arm of the match on the choice,     *)
(* as the set of its outcomes.  An outcome is a buffer, or a panic.        *)
(***************************************************************************)

Ok(b) == [panic |-> FALSE, buf |-> b]
Panic == [panic |-> TRUE, buf |-> <<>>]

\* Mutant of flip: the mask shifted one bit too far.
flip_shift(v, bit) ==
    LET m == 2^(ByteBits - bit) IN IF (v \div m) % 2 = 1 THEN v - m ELSE v + m

\* buf[byte_idx] ^= 128 >> bit_idx, for the bits of a byte.
flip(v, bit) ==
    LET m == 2^(ByteBits - 1 - bit) IN IF (v \div m) % 2 = 1 THEN v - m ELSE v + m

FlipBit(buf) ==
    {Ok([buf EXCEPT ![i] = flip(@, bit)]) : i \in DOMAIN buf, bit \in 0..(ByteBits - 1)}

\* A window of n bytes, outs its outcomes: applied only when the buffer
\* is longer than n.
Window(buf, n, outs) ==
    IF Len(buf) > n THEN {Ok(b) : b \in outs} ELSE {Ok(buf)}

SetInterestingOp(buf, n) ==
    {set_val_in_buf(buf, idx, n, IF sw THEN reverse_endian(val, n) ELSE val) :
        idx \in 0..(Len(buf) - n), val \in Interesting(n), sw \in BOOLEAN}

ArithOp(buf, n) ==
    {update_val_in_buf(buf, idx, n, dir, sw, v) :
        idx \in 0..(Len(buf) - n), v \in ArithDeltas, dir \in BOOLEAN, sw \in BOOLEAN}

RandomByte(buf) == {Ok([buf EXCEPT ![i] = v]) : i \in DOMAIN buf, v \in Byte}

\* The draw of a block length by an arm: a panic when some arm's range is
\* empty, and otherwise every length of every arm.
WithBlock(buf) ==
    IF \E arm \in BlockArms : random_block_len(arm, Len(buf)) = {} THEN {Panic} ELSE {}

BlockLens(buf) == UNION {random_block_len(arm, Len(buf)) : arm \in BlockArms}

\* Clone bytes (from_idx drawn with the uncapped size) or insert a block
\* of one constant byte, before before_idx; blocks are the capped blocks.
Inserted(buf, size, blocks) ==
    IF size + Len(buf) > MaxInputLen /\ Len(buf) > MaxInputLen THEN {Panic}
    ELSE {Ok(insert_partial_buf(buf, ins, before)) :
            ins \in blocks, before \in 0..Len(buf)}

CloneBytes(buf) ==
    WithBlock(buf) \cup
    UNION {LET n == CappedSize(size, Len(buf))
           IN Inserted(buf, size, {SubSeq(buf, f + 1, f + n) : f \in 0..(Len(buf) - size)}) :
           size \in BlockLens(buf)}

InsertConst(buf) ==
    WithBlock(buf) \cup
    UNION {LET n == CappedSize(size, Len(buf))
           IN Inserted(buf, size, {[j \in 1..n |-> v] : v \in Byte}) :
           size \in BlockLens(buf)}

Overwrite(buf) ==
    WithBlock(buf) \cup
    UNION {{Ok(overwrite_partial_buf(buf, f, size, t)) : f, t \in 0..(Len(buf) - size)} :
           size \in BlockLens(buf)}

OverwriteConst(buf) ==
    WithBlock(buf) \cup
    UNION {{Ok([i \in DOMAIN buf |-> IF t < i /\ i <= t + size THEN v ELSE buf[i]]) :
            t \in 0..(Len(buf) - size), v \in Byte} : size \in BlockLens(buf)}

Delete(buf) ==
    WithBlock(buf) \cup
    UNION {{Ok(SubSeq(buf, 1, f) \o SubSeq(buf, f + size + 1, Len(buf))) :
            f \in 0..(Len(buf) - size)} : size \in BlockLens(buf)}

SetInteresting(buf) == UNION {Window(buf, n, SetInterestingOp(buf, n)) : n \in HavocSizes}

Arith(buf) == UNION {Window(buf, n, ArithOp(buf, n)) : n \in HavocSizes}

havoc_flip(buf) ==
    FlipBit(buf) \cup SetInteresting(buf) \cup Arith(buf)
    \cup RandomByte(buf) \cup CloneBytes(buf) \cup InsertConst(buf)
    \cup Overwrite(buf) \cup OverwriteConst(buf) \cup Delete(buf)
(***************************************************************************)
(* AFLFuzz::run                                                            *)
(***************************************************************************)

VARIABLES
    seed,      \* handler.buf
    ratio,     \* run_ratio
    pc,        \* "begin", "len", "splice", "havoc", "stack", "exit" or "panic"
    cur,       \* the buffer afl_len grows, or the one havoc_flip stacks on
    left,      \* iterations of add_small_len, or stacked steps, still to go
    step,      \* step of add_small_len
    times,     \* handler.times: runs so far
    maxTimes,  \* handler.max_times
    skip,      \* handler.skip
    running,   \* the fuzzer's running flag
    last       \* the last buffer run

vars == <<seed, ratio, pc, cur, left, step, times, maxTimes, skip, running, last>>

is_first_time == StateTimes = 1

is_stopped_or_skip == ~running \/ skip

\* SearchHandler::execute: one run, counted against max_times.
Execute(b) ==
    /\ times' = times + 1
    /\ skip' = (skip \/ times + 1 >= maxTimes)
    /\ last' = b

TypeOK ==
    /\ seed \in Seeds
    /\ ratio \in {2, 3, 5}
    /\ pc \in {"begin", "len", "splice", "havoc", "stack", "exit", "panic"}
    /\ cur \in Seq(Byte)
    /\ left \in Nat /\ step \in Nat /\ times \in Nat /\ maxTimes \in Nat
    /\ skip \in BOOLEAN /\ running \in BOOLEAN
    /\ last \in Seq(Byte)

Init ==
    /\ seed \in Seeds
    /\ \E e \in EdgeNums, a \in AvgEdgeNums : ratio = run_ratio(e, a)
    /\ pc = "begin"
    /\ cur = <<>> /\ left = 0 /\ step = 0
    /\ times = 0 /\ maxTimes = HandlerMaxTimes /\ skip = FALSE
    /\ running = TRUE
    /\ last = <<>>

\* The splice budget, set once afl_len is over.
EnterSplice ==
    /\ pc' = "splice"
    /\ maxTimes' = MAX_SPLICE_TIMES * ratio

\* run: afl_len on the first visit (add_small_len, as ENABLE_RANDOM_LEN is
\* false), which does nothing for a seed longer than MAX_INPUT_LEN.
Begin ==
    /\ pc = "begin"
    /\ IF is_first_time /\ Len(seed) <= MaxInputLen
       THEN /\ pc' = "len" /\ cur' = seed /\ left' = 4 /\ step' = 1
            /\ UNCHANGED maxTimes
       ELSE EnterSplice /\ UNCHANGED <<cur, left, step>>
    /\ UNCHANGED <<seed, ratio, times, skip, running, last>>

\* One iteration of add_small_len: append step random bytes and run the
\* buffer while it is shorter than MAX_INPUT_LEN; else break.
AddSmallLen ==
    /\ pc = "len"
    /\ IF left = 0
       THEN EnterSplice /\ UNCHANGED <<cur, left, step, times, skip, last>>
       ELSE \E tail \in [1..step -> Byte] :
              IF Len(cur \o tail) < MaxInputLen
              THEN /\ Execute(cur \o tail)
                   /\ cur' = cur \o tail /\ left' = left - 1 /\ step' = 2 * step
                   /\ UNCHANGED <<pc, maxTimes>>
              ELSE EnterSplice /\ UNCHANGED <<cur, left, step, times, skip, last>>
    /\ UNCHANGED <<seed, ratio, running>>

\* Mutant of EnterHavoc: skip left as the splice loop set it.
EnterHavoc_keepskip ==
    /\ pc' = "havoc"
    /\ maxTimes' = maxTimes + MAX_HAVOC_FLIP_TIMES * ratio
    /\ UNCHANGED skip

\* After the splice loop: the budget grows by the havoc budget and skip is
\* cleared.
EnterHavoc ==
    /\ pc' = "havoc"
    /\ maxTimes' = maxTimes + MAX_HAVOC_FLIP_TIMES * ratio
    /\ skip' = FALSE

\* Mutant of Splice: an impossible splice does not end the loop.
Splice_nobreak ==
    /\ pc = "splice"
    /\ IF is_stopped_or_skip
       THEN EnterHavoc /\ UNCHANGED <<times, last>>
       ELSE \E b2 \in Inputs :
              IF splice_two_vec(seed, b2) = {}
              THEN UNCHANGED <<pc, maxTimes, times, skip, last>>
              ELSE \E nb \in splice_two_vec(seed, b2) : Execute(nb) /\ UNCHANGED <<pc, maxTimes>>
    /\ UNCHANGED <<seed, ratio, cur, left, step, running>>

\* One iteration of the splice loop: leave it when stopped or skipped, or
\* when the seed and a random input of the depot cannot be spliced; else
\* run the splice.
Splice ==
    /\ pc = "splice"
    /\ IF is_stopped_or_skip
       THEN EnterHavoc /\ UNCHANGED <<times, last>>
       ELSE \E b2 \in Inputs :
              IF splice_two_vec(seed, b2) = {}
              THEN EnterHavoc /\ UNCHANGED <<times, last>>
              ELSE \E nb \in splice_two_vec(seed, b2) : Execute(nb) /\ UNCHANGED <<pc, maxTimes>>
    /\ UNCHANGED <<seed, ratio, cur, left, step, running>>

\* The head of the havoc loop: return when stopped or skipped, else clone
\* the seed and draw use_stacking in 1..max_stacking.
Havoc ==
    /\ pc = "havoc"
    /\ IF is_stopped_or_skip
       THEN pc' = "exit" /\ UNCHANGED <<cur, left>>
       ELSE pc' = "stack" /\ cur' = seed /\ \E k \in 1..HavocStacking : left' = k
    /\ UNCHANGED <<seed, ratio, step, times, maxTimes, skip, running, last>>

\* One stacked step of havoc_flip, or, after the last one (or at once for
\* an empty buffer), the run of the mutated buffer.
Stack ==
    /\ pc = "stack"
    /\ IF left = 0 \/ cur = <<>>
       THEN Execute(cur) /\ pc' = "havoc" /\ UNCHANGED <<cur, left>>
       ELSE /\ \E r \in havoc_flip(cur) :
                 IF r.panic THEN pc' = "panic" /\ UNCHANGED <<cur, left>>
                 ELSE cur' = r.buf /\ left' = left - 1 /\ UNCHANGED pc
            /\ UNCHANGED <<times, skip, last>>
    /\ UNCHANGED <<seed, ratio, step, maxTimes, running>>

\* SIGINT.
Stop ==
    /\ running /\ pc \notin {"exit", "panic"}
    /\ running' = FALSE
    /\ UNCHANGED <<seed, ratio, pc, cur, left, step, times, maxTimes, skip, last>>

Step == Begin \/ AddSmallLen \/ Splice \/ Havoc \/ Stack

Next == Step \/ Stop

\* One thread runs the strategy and always takes its next step; nothing
\* forces a SIGINT.
Spec == Init /\ [][Next]_vars /\ WF_vars(Step)

(***************************************************************************)
(* Properties                                                              *)
(***************************************************************************)

\* For seeds no longer than MAX_INPUT_LEN (the afl run's seeds), no step of
\* havoc_flip panics on gen_range over an empty range, the hazard of
\* random_block_len's min clamp once havoc has deleted down to one byte,
\* and no buffer AFLFuzz runs is longer than MAX_INPUT_LEN: the clone and
\* constant-insert arms cap what they add.  A longer seed underflows the
\* u32 cap max_len - byte_len; this property does not speak of that case.
HavocSafe == pc # "panic" /\ Len(last) <= MaxInputLen

\* When run returns without a SIGINT, the whole budget was spent: the
\* havoc loop is not cut short by the skip the splice loop ended on.
BudgetSpent == pc = "exit" /\ running => times >= maxTimes

\* AFLFuzz::run returns: the splice loop ends on the budget or on the
\* first impossible splice, the havoc loop on the budget.
Termination == <>(pc \in {"exit", "panic"})
====
