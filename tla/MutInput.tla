----------------------------- MODULE MutInput ------------------------------
(***************************************************************************)
(* The typed view of an input that the solvers mutate                      *)
(* (fuzzer/src/mut_input/mut_input.rs, rw.rs, sign.rs).                    *)
(*                                                                         *)
(* A MutInput is a byte buffer `value` and a sequence `meta` of segments,  *)
(* each an InputMeta: offset and size in the buffer, the sign used to read *)
(* it, its endianness and its SignInfo.  Segment i of the code is meta[i+1]*)
(* here and byte p of the buffer is value[p+1].  A value is an integer:    *)
(* the f64 the code computes with is exact on the integers of one or two   *)
(* bytes, and a target of set_nth_ is given in halves so that its floor    *)
(* and ceiling differ.                                                     *)
(***************************************************************************)
EXTENDS Integers, Sequences, FiniteSets

CONSTANTS
    Inputs,       \* seed buffers: sequences of bytes
    Tags,         \* taint offsets: sequences of [begin, end, sign] (TagSeg)
    Steps,        \* deltas the solvers pass to add_nth_
    Targets,      \* twice the targets the solvers pass to set_nth_
    Interesting,  \* values search::get_interesting_bytes hands to set
    ArithDeltas,  \* deltas of the havoc add/sub, 1..MUTATE_ARITH_MAX - 1
    Bits,         \* bit indices det and havoc flip
    RandomSign,   \* FuzzerConfig::enable_random_sign
    GradVals,     \* per-byte partial gradients infer_endianness may compute
    MaxOps        \* bound on the operations applied to one MutInput

Signs == {"Signed", "Unsigned", "Unknown"}
Endians == {"LE", "BE", "Split"}

\* SignInfo::new: the probability of "signed", as a fraction <<num, den>>.
\* Static and dynamic agreement is certain, a static sign overruled by two
\* dynamic ones gets 0.95 or 0.05, and any other mix is a vote where each
\* dynamic sign weighs 2 and the static one 1.
SignInfo(st, dn, ds) ==
    LET votes(s) == (IF st = s THEN 1 ELSE 0) + (IF dn = s THEN 2 ELSE 0)
                    + (IF ds = s THEN 2 ELSE 0)
        prob == CASE <<st, dn, ds>> = <<"Signed", "Signed", "Signed">>       -> <<1, 1>>
                  [] <<st, dn, ds>> = <<"Unsigned", "Unsigned", "Unsigned">> -> <<0, 1>>
                  [] <<st, dn, ds>> = <<"Unsigned", "Signed", "Signed">>     -> <<19, 20>>
                  [] <<st, dn, ds>> = <<"Signed", "Unsigned", "Unsigned">>   -> <<1, 20>>
                  [] OTHER -> <<votes("Signed"), votes("Signed") + votes("Unsigned")>>
    IN [static |-> st, dyn_n |-> dn, dyn_s |-> ds, prob |-> prob]

\* get_concensus_sign: prob > 0.5.
get_concensus_sign(info) == 2 * info.prob[1] > info.prob[2]

\* The signs gen_bool(prob) can return.
get_random_sign(info) ==
    {b \in BOOLEAN : (b /\ info.prob[1] > 0) \/ (~b /\ info.prob[1] < info.prob[2])}

\* InputMeta::new: the default endian (assume_be is off) and the static sign.
NewMeta(sign, offset, size) ==
    [sign |-> sign, endian |-> "LE", offset |-> offset, size |-> size,
     info |-> SignInfo(IF sign THEN "Signed" ELSE "Unsigned", "Unknown", "Unknown")]

\* Mutant of push: an extent of another width kept as one segment.
push_whole(mi, ele, sign) ==
    [value |-> mi.value \o ele,
     meta |-> Append(mi.meta, NewMeta(sign, Len(mi.value), Len(ele)))]

\* push: an extent of 1, 2, 4 or 8 bytes is one segment, any other width
\* that many one-byte segments, each at the offset the buffer has before
\* the extent is appended.
push(mi, ele, sign) ==
    LET n == Len(mi.value)
        k == Len(ele)
        new == IF k \in {1, 2, 4, 8} THEN <<NewMeta(sign, n, k)>>
               ELSE [j \in 1..k |-> NewMeta(sign, n, 1)]
    IN [value |-> mi.value \o ele, meta |-> mi.meta \o new]

Zeros(k) == [j \in 1..k |-> 0]

\* MutInput::from: each non-empty tag is pushed; a tag reaching past the
\* input is padded with zero bytes.
RECURSIVE fromRec(_, _, _)
fromRec(offsets, input, mi) ==
    IF offsets = <<>> THEN mi
    ELSE LET off == Head(offsets)
             len == Len(input)
             ele == IF off.end <= len THEN SubSeq(input, off.begin + 1, off.end)
                    ELSE IF off.begin >= len THEN Zeros(off.end - off.begin)
                    ELSE SubSeq(input, off.begin + 1, len) \o Zeros(off.end - len)
         IN fromRec(Tail(offsets), input,
                    IF off.begin = off.end THEN mi ELSE push(mi, ele, off.sign))

from(offsets, input) == fromRec(offsets, input, [value |-> <<>>, meta |-> <<>>])

(***************************************************************************)
(* Reading and writing a segment.                                          *)
(***************************************************************************)

\* The buffer position (1-based) of the byte of significance i.
BytePos(m, i) ==
    IF m.endian = "BE" THEN m.offset + m.size - i ELSE m.offset + 1 + i

InSeg(m, p) == m.offset < p /\ p <= m.offset + m.size

RECURSIVE Weigh(_, _, _)
Weigh(value, m, i) ==
    IF i = m.size THEN 0
    ELSE value[BytePos(m, i)] * 2^(8 * i) + Weigh(value, m, i + 1)

\* The low n bits of v as a two's-complement number.
AsSigned(v, n) == IF v >= 2^(n - 1) THEN v - 2^n ELSE v

\* nth_val: the segment read in its endianness, as iN or uN.
nth_val(value, m) ==
    IF m.sign THEN AsSigned(Weigh(value, m, 0), 8 * m.size) ELSE Weigh(value, m, 0)

\* The bounds of the Numeral nth_val returns.
Lo(m) == IF m.sign THEN -(2^(8 * m.size - 1)) ELSE 0
Hi(m) == IF m.sign THEN 2^(8 * m.size - 1) - 1 ELSE 2^(8 * m.size) - 1

\* rw.rs get_val_in_buf and set_val_in_buf: a native (little-endian) u8,
\* u16, u32 or u64 at byte offset off.
get_val_in_buf(value, off, size) ==
    Weigh(value, [endian |-> "LE", offset |-> off, size |-> size], 0)

set_val_in_buf(value, off, size, v) ==
    [p \in DOMAIN value |->
       IF off < p /\ p <= off + size
       THEN ((v % 2^(8 * size)) \div 2^(8 * (p - off - 1))) % 256
       ELSE value[p]]

\* Mutant of write_nth_val: the value stored in native (little-endian)
\* order whatever the segment's endianness.
write_nth_val_native(value, m, v) == set_val_in_buf(value, m.offset, m.size, v)

\* write_nth_val: `val as uN`, byte-swapped with to_be() for a big-endian
\* segment, stored at the segment's offset.
write_nth_val(value, m, v) ==
    LET u == v % 2^(8 * m.size)
        sig(p) == IF m.endian = "BE" THEN m.offset + m.size - p
                  ELSE p - m.offset - 1
    IN [p \in DOMAIN value |->
          IF InSeg(m, p) THEN (u \div 2^(8 * sig(p))) % 256 ELSE value[p]]

(***************************************************************************)
(* Arithmetic on a segment.                                                *)
(***************************************************************************)

\* Numeral::set_exact: clamp to the bounds.
set_exact(m, v) == IF v > Hi(m) THEN Hi(m) ELSE IF v < Lo(m) THEN Lo(m) ELSE v

\* Numeral::set for v2 = 2 * v: clamp, else round down or up.
NumeralSet(m, v2, is_ceil) ==
    IF v2 > 2 * Hi(m) THEN Hi(m)
    ELSE IF v2 < 2 * Lo(m) THEN Lo(m)
    ELSE IF is_ceil THEN -((-v2) \div 2) ELSE v2 \div 2

\* Mutant of add_nth_: return the requested delta, not the applied one.
add_nth__requested(value, m, v) ==
    LET new == set_exact(m, nth_val(value, m) + v)
    IN [value |-> write_nth_val(value, m, new), ret |-> v]

\* add_nth_: add v with saturation; return the buffer and the change made.
add_nth_(value, m, v) ==
    LET old == nth_val(value, m)
        new == set_exact(m, old + v)
    IN [value |-> write_nth_val(value, m, new), ret |-> new - old]

\* set_nth_: set to v2 / 2, clamped and rounded; return the new value.
set_nth_(value, m, v2, ceil) ==
    LET new == NumeralSet(m, v2, ceil)
    IN [value |-> write_nth_val(value, m, new), ret |-> new]

\* f64::round of v2 / 2: halves away from zero.
RoundHalf(v2) == IF v2 >= 0 THEN (v2 + 1) \div 2 ELSE -((-v2 + 1) \div 2)

\* add_delta_with_coeffecients for a single (index, coefficient) pair:
\* None when val = nth + delta (delta = d2 / 2) is outside the bounds,
\* else set_nth_ of the rounded val, with no carry left.
add_delta_with_coeffecients(value, m, d2) ==
    LET val2 == 2 * nth_val(value, m) + d2
    IN IF val2 > 2 * Hi(m) \/ val2 < 2 * Lo(m)
       THEN [value |-> value, ret |-> FALSE]
       ELSE [value |-> set_nth_(value, m, 2 * RoundHalf(val2), FALSE).value,
             ret |-> TRUE]

\* The loop of inc_lsb and dec_lsb from ics[j] down: add d to each index
\* in turn until one moves by a whole unit.
RECURSIVE lsbRec(_, _, _, _, _)
lsbRec(value, meta, ics, j, d) ==
    IF j = 0 THEN [value |-> value, ret |-> FALSE]
    ELSE LET r == add_nth_(value, meta[ics[j]], d)
         IN IF r.ret # 0 THEN [value |-> r.value, ret |-> TRUE]
            ELSE lsbRec(r.value, meta, ics, j - 1, d)

\* Mutant of inc_lsb: ics walked from the front (`.rev()` dropped).
RECURSIVE lsbFwd(_, _, _, _, _)
lsbFwd(value, meta, ics, j, d) ==
    IF j > Len(ics) THEN [value |-> value, ret |-> FALSE]
    ELSE LET r == add_nth_(value, meta[ics[j]], d)
         IN IF r.ret # 0 THEN [value |-> r.value, ret |-> TRUE]
            ELSE lsbFwd(r.value, meta, ics, j + 1, d)
inc_lsb_forward(value, meta, ics) == lsbFwd(value, meta, ics, 1, 1)

\* inc_lsb and dec_lsb: from the last of ics backwards.
inc_lsb(value, meta, ics) == lsbRec(value, meta, ics, Len(ics), 1)
dec_lsb(value, meta, ics) == lsbRec(value, meta, ics, Len(ics), -1)

(***************************************************************************)
(* Sign inference, endianness and splitting.                               *)
(***************************************************************************)

\* The closures set_nth_fill applies to the head and tail byte.
Trim(t, b) ==
    CASE t = "keep" -> b [] t = "dec" -> b - 1 [] t = "inc" -> b + 1
      [] t = "x80"  -> 128 [] t = "x7f" -> 127

\* Mutant of set_nth_fill: the little- and big-endian arms swapped.
set_nth_fill_swapped(value, m, fill, head, tail) ==
    LET hpos == IF m.endian = "BE" THEN m.size - 1 ELSE 0
        tpos == IF m.endian = "BE" THEN 0 ELSE m.size - 1
        byte(k) == LET b == IF k = hpos THEN Trim(head, fill) ELSE fill
                   IN IF k = tpos THEN Trim(tail, b) ELSE b
    IN [p \in DOMAIN value |->
          IF InSeg(m, p) THEN byte(p - m.offset - 1) ELSE value[p]]

\* set_nth_fill: every byte of the segment set to fill, then trim_head on
\* the most significant byte of the buffer slice (the last one unless
\* big-endian) and trim_tail on the other end, head first.
set_nth_fill(value, m, fill, head, tail) ==
    LET hpos == IF m.endian = "BE" THEN 0 ELSE m.size - 1
        tpos == IF m.endian = "BE" THEN m.size - 1 ELSE 0
        byte(k) == LET b == IF k = hpos THEN Trim(head, fill) ELSE fill
                   IN IF k = tpos THEN Trim(tail, b) ELSE b
    IN [p \in DOMAIN value |->
          IF InSeg(m, p) THEN byte(p - m.offset - 1) ELSE value[p]]

\* The eight probes of infer_dyn_sign_idx, in the order they are run:
\* around the unsigned wrap (north pole), then the signed one (south).
Probes ==
    << <<255, "keep", "dec">>, <<255, "keep", "keep">>,
       <<0, "keep", "keep">>,  <<0, "keep", "inc">>,
       <<0, "x80", "inc">>,    <<0, "x80", "keep">>,
       <<255, "x7f", "keep">>, <<255, "x7f", "dec">> >>

ProbeBuf(value, m, k) == set_nth_fill(value, m, Probes[k][1], Probes[k][2], Probes[k][3])

\* Mutant of infer_dyn_sign_idx: orig_val read after the first probe.
infer_dyn_sign_idx_late(value, m) ==
    write_nth_val(ProbeBuf(value, m, 8), m, nth_val(ProbeBuf(value, m, 1), m))

\* infer_dyn_sign_idx on the buffer: each probe overwrites the segment, and
\* the value read before the first one is written back at the end.  The
\* signs it infers depend on the objective and are chosen by the caller.
infer_dyn_sign_idx(value, m) ==
    write_nth_val(ProbeBuf(value, m, 8), m, nth_val(value, m))

\* update_dyn_sign_info.
WithDynSign(m, dn, ds) == [m EXCEPT !.info = SignInfo(m.info.static, dn, ds)]

\* The signs assign_sign may give a segment.
AssignedSigns(m) ==
    IF RandomSign THEN get_random_sign(m.info) ELSE {get_concensus_sign(m.info)}

\* InputMeta::split: one Split-endian byte segment per byte.
split(m) ==
    [j \in 1..m.size |->
       [m EXCEPT !.endian = "Split", !.offset = m.offset + j - 1, !.size = 1]]

\* Mutant of split_meta_w_sign_change: `after` split off one entry too
\* late, so the segment after idx is dropped with it.
split_meta_w_sign_change_skip(meta, idx, new) ==
    SubSeq(meta, 1, idx - 1) \o new \o SubSeq(meta, idx + 2, Len(meta))

\* split_meta_w_sign_change: meta[idx] replaced by the segments `new`.
split_meta_w_sign_change(meta, idx, new) ==
    SubSeq(meta, 1, idx - 1) \o new \o SubSeq(meta, idx + 1, Len(meta))

(***************************************************************************)
(* Buffer-level mutations of det, one_byte and the havoc of random.        *)
(***************************************************************************)

\* update: a native read, wrapping add or sub of delta, native write.
update(value, m, direction, delta) ==
    LET old == get_val_in_buf(value, m.offset, m.size)
    IN set_val_in_buf(value, m.offset, m.size,
                      IF direction THEN old + delta ELSE old - delta)

\* set: a native write of `val as uN`.
set(value, m, val) == set_val_in_buf(value, m.offset, m.size, val)

\* Mutant of bitflip: the bit added instead of toggled.
bitflip_added(value, i) ==
    LET p == i \div 8 + 1
        bit == 2^(7 - (i % 8))
    IN [value EXCEPT ![p] = @ + bit]

\* bitflip: value[i >> 3] ^= 128 >> (i & 7).
bitflip(value, i) ==
    LET p == i \div 8 + 1
        bit == 2^(7 - (i % 8))
    IN [value EXCEPT ![p] = IF (@ \div bit) % 2 = 1 THEN @ - bit ELSE @ + bit]

(***************************************************************************)
(* The MutInput a solver works on, and the calls that change it.           *)
(***************************************************************************)

VARIABLES
    value,  \* MutInput::value
    meta,   \* MutInput::meta
    ops,      \* operations applied so far
    inferred  \* run() has done its dynamic sign inference (second time)

vars == <<value, meta, ops, inferred>>

Idx == 1..Len(meta)

\* Injective index sequences: the ics lists descend builds.
IcsOf(n) ==
    UNION {{f \in [1..k -> 1..n] : \A a, b \in 1..k : a # b => f[a] # f[b]} : k \in 1..n}

Meta ==
    [sign : BOOLEAN, endian : Endians, offset : Nat, size : {1, 2, 4, 8},
     info : [static : Signs, dyn_n : Signs, dyn_s : Signs, prob : Nat \X Nat]]

TypeOK ==
    /\ value \in Seq(0..255)
    /\ meta \in Seq(Meta)
    /\ ops \in 0..MaxOps
    /\ inferred \in BOOLEAN

\* The solver gets the input from the condition's offsets and a seed.
Init ==
    \E tags \in Tags, input \in Inputs :
        LET mi == from(tags, input)
        IN /\ value = mi.value
           /\ meta = mi.meta
           /\ ops = 0
           /\ inferred = FALSE

Op == ops < MaxOps /\ ops' = ops + 1

\* descend moves along one coordinate: add_delta_with_coeffecients with a
\* single (index, coefficient), kept when it moved.
AddDelta(idx, d2) ==
    LET r == add_delta_with_coeffecients(value, meta[idx], d2) IN
    /\ Op
    /\ r.ret
    /\ value' = r.value
    /\ UNCHANGED <<meta, inferred>>

\* descend's fallback when no step moved: inc_lsb or dec_lsb, kept when it
\* returned true.
IncLsb(ics) ==
    LET r == inc_lsb(value, meta, ics) IN
    /\ Op /\ r.ret /\ value' = r.value /\ UNCHANGED <<meta, inferred>>

DecLsb(ics) ==
    LET r == dec_lsb(value, meta, ics) IN
    /\ Op /\ r.ret /\ value' = r.value /\ UNCHANGED <<meta, inferred>>

\* infer_dyn_sign over every segment in turn, then assign_sign (run()).
RECURSIVE InferAll(_, _, _)
InferAll(buf, ms, i) ==
    IF i > Len(ms) THEN buf ELSE InferAll(infer_dyn_sign_idx(buf, ms[i]), ms, i + 1)

InferDynSign ==
    /\ Op
    /\ ~inferred
    /\ inferred' = TRUE
    /\ \E dn, ds \in [Idx -> Signs], sg \in [Idx -> BOOLEAN] :
          LET guess == [i \in Idx |-> WithDynSign(meta[i], dn[i], ds[i])] IN
          /\ \A i \in Idx : sg[i] \in AssignedSigns(guess[i])
          /\ value' = InferAll(value, meta, 1)
          /\ meta' = [i \in Idx |-> [guess[i] EXCEPT !.sign = sg[i]]]

(***************************************************************************)
(* infer_endianness: the verdict on the per-byte partial gradients of the *)
(* split copy.  pg[j] is the partial gradient of byte j of the segment.    *)
(* The f64 comparisons with EPS = 1e-10 are strict comparisons on the     *)
(* integers the model uses.                                                *)
(***************************************************************************)

AbsVal(x) == IF x < 0 THEN -x ELSE x

\* Mutant of DescendKept: the signed partial gradient compared with the
\* next magnitude, as the ascend test does.
DescendKept_signed(pg) ==
    \A j \in 1..Len(pg) - 1 : ~(pg[j] > AbsVal(pg[j + 1]))

\* descend survives the loop: no magnitude is greater than the next one.
DescendKept(pg) ==
    \A j \in 1..Len(pg) - 1 : ~(AbsVal(pg[j]) > AbsVal(pg[j + 1]))

\* ascend survives the loop: wherever the magnitude does not drop, the
\* signed partial_grad[idx] (not grad_abs[idx]) is not below the next
\* magnitude.
AscendKept(pg) ==
    \A j \in 1..Len(pg) - 1 :
        AbsVal(pg[j]) > AbsVal(pg[j + 1]) \/ ~(pg[j] < AbsVal(pg[j + 1]))

\* ascend = descend splits the segment, ascend alone is big-endian,
\* descend alone keeps little-endian.
EndianVerdict(pg) ==
    IF AscendKept(pg) = DescendKept(pg) THEN "Split"
    ELSE IF AscendKept(pg) THEN "BE" ELSE "LE"

\* infer_endianness judged the segment big-endian:
\* nth_to_be_w_sign_change flips it and infers its signs again.
ToBe(idx) ==
    LET m == [meta[idx] EXCEPT !.endian = "BE"] IN
    /\ Op
    /\ meta[idx].size > 1
    /\ meta[idx].endian = "LE"
    /\ inferred
    /\ \E dn, ds \in Signs :
          /\ value' = infer_dyn_sign_idx(value, m)
          /\ meta' = [meta EXCEPT ![idx] = WithDynSign(m, dn, ds)]
    /\ UNCHANGED inferred

\* infer_endianness found no endianness: the segment is split into bytes
\* whose signs were inferred and assigned on a copy (sub_x), then copied in.
SplitMeta(idx) ==
    LET bytes == split(meta[idx])
        k == meta[idx].size
    IN
    /\ Op
    /\ k > 1
    /\ inferred
    /\ \E dn, ds \in [1..k -> Signs], sg \in [1..k -> BOOLEAN] :
          LET guess == [j \in 1..k |-> WithDynSign(bytes[j], dn[j], ds[j])] IN
          /\ \A j \in 1..k : sg[j] \in AssignedSigns(guess[j])
          /\ meta' = split_meta_w_sign_change(meta, idx,
                        [j \in 1..k |-> [guess[j] EXCEPT !.sign = sg[j]]])
    /\ UNCHANGED <<value, inferred>>

\* gradient_may_split on epoch 0 of the second visit, for a segment of
\* more than one byte not yet judged: infer_endianness on gradients pg,
\* then nth_to_be_w_sign_change, the split, or nothing.
InferEndianness(idx, pg) ==
    LET v == EndianVerdict(pg) IN
    /\ meta[idx].endian = "LE"
    /\ \/ v = "BE" /\ ToBe(idx)
       \/ v = "Split" /\ SplitMeta(idx)
       \/ /\ v = "LE" /\ meta[idx].size > 1 /\ inferred /\ Op
          /\ UNCHANGED <<value, meta, inferred>>

\* Havoc and the deterministic strategies work on the buffer.
Update(idx, direction, delta) ==
    /\ Op /\ value' = update(value, meta[idx], direction, delta) /\ UNCHANGED <<meta, inferred>>

SetInteresting(idx, v) ==
    /\ Op /\ value' = set(value, meta[idx], v) /\ UNCHANGED <<meta, inferred>>

Bitflip(i) ==
    /\ Op /\ i < 8 * Len(value) /\ value' = bitflip(value, i) /\ UNCHANGED <<meta, inferred>>

Next ==
    \/ \E idx \in Idx, d2 \in Targets : AddDelta(idx, d2)
    \/ \E ics \in IcsOf(Len(meta)) : IncLsb(ics) \/ DecLsb(ics)
    \/ InferDynSign
    \/ \E idx \in Idx : \E pg \in [1..meta[idx].size -> GradVals] : InferEndianness(idx, pg)
    \/ \E idx \in Idx, dir \in BOOLEAN, d \in ArithDeltas : Update(idx, dir, d)
    \/ \E idx \in Idx, v \in Interesting : SetInteresting(idx, v)
    \/ \E i \in Bits : Bitflip(i)

Spec == Init /\ [][Next]_vars

(***************************************************************************)
(* Properties                                                              *)
(***************************************************************************)

\* Spec entity MutInput: the segments lie back to back over the buffer in
\* the order they were pushed, none overlaps another, and a Split segment
\* is a single byte.
SegmentsTile ==
    /\ \A i \in Idx :
          meta[i].offset = IF i = 1 THEN 0 ELSE meta[i - 1].offset + meta[i - 1].size
    /\ Len(meta) > 0 => meta[Len(meta)].offset + meta[Len(meta)].size = Len(value)
    /\ \A i \in Idx : meta[i].endian = "Split" => meta[i].size = 1

\* v2 / 2 rounded down or up, and clamped to [lo, hi].
RefSet(lo, hi, v2, ceil) ==
    LET fl == CHOOSE k \in (v2 \div 2 - 1)..(v2 \div 2 + 1) : 2 * k <= v2 /\ v2 < 2 * k + 2
        r == IF ceil /\ 2 * fl # v2 THEN fl + 1 ELSE fl
    IN IF r > hi THEN hi ELSE IF r < lo THEN lo ELSE r

\* The partial gradient of byte j of a k-byte segment under the objective
\* c * v, v being the segment's value as the target reads it, in
\* endianness e: a byte weighs 256 times its less significant neighbour.
ByteGrads(c, k, e) == [j \in 1..k |-> c * 256^(IF e = "LE" THEN j - 1 ELSE k - j)]

\* Spec section 4.6 (infer_endian) and test 9: on an objective linear in
\* the value of a multi-byte segment of the input, infer_endianness keeps
\* the segment if the target reads it little-endian and flips it if the
\* target reads it big-endian, whichever the sign of the slope (a
\* condition a < b descends with a negative slope in a).  Equal
\* neighbouring magnitudes, which no linear objective of a segment gives,
\* are judged LE when the gradient is negative (ascend tests the signed
\* gradient) and split otherwise.
EndianInferred ==
    \A i \in Idx, c \in {-3, -1, 1, 3}, e \in {"LE", "BE"} :
        meta[i].size > 1 => EndianVerdict(ByteGrads(c, meta[i].size, e)) = e

\* The byte positions of the buffer each covered by how many segments.
Cover(ms) ==
    [p \in 0..(Len(value) - 1) |->
        Cardinality({i \in DOMAIN ms : ms[i].offset <= p /\ p < ms[i].offset + ms[i].size})]

\* Spec entity MutInput: metadata may be rewritten but positions never
\* move after creation.  The splits of infer_endianness (InputMeta::split
\* and the copy-back into split_meta_w_sign_change's new entries) and the
\* flip to big-endian leave every byte covered by as many segments as
\* before.
MetadataKeepsLayout == [][meta' # meta => Cover(meta') = Cover(meta)]_vars

\* Spec invariant 4, first half: after set_nth_ of a target, nth_val reads
\* the target rounded as asked and clamped to the segment's bounds, in
\* every sign and endianness the segment has reached, and no other
\* segment changes.
WriteReadIdentity ==
    \A i \in Idx, v2 \in Targets, c \in BOOLEAN :
        LET m == meta[i]
            after == set_nth_(value, m, v2, c).value
        IN /\ nth_val(after, m) = RefSet(Lo(m), Hi(m), v2, c)
           /\ \A j \in Idx \ {i} : nth_val(after, meta[j]) = nth_val(value, meta[j])

\* Spec invariant 4, second half: add_nth_(i, +k) then add_nth_(i, -k)
\* gives the original bytes back unless the first call saturated, which
\* its return value (the applied delta) tells.
AddRoundTrip ==
    \A i \in Idx, k \in Steps :
        LET r1 == add_nth_(value, meta[i], k)
        IN r1.ret = k => add_nth_(r1.value, meta[i], -k).value = value

\* inc_lsb (dec_lsb) moves exactly one segment by one unit: the last one
\* of ics that is not at its upper (lower) bound; it returns false, with
\* nothing changed, when all of them are.
LsbStep ==
    \A ics \in IcsOf(Len(meta)), d \in {1, -1} :
        LET r == IF d = 1 THEN inc_lsb(value, meta, ics) ELSE dec_lsb(value, meta, ics)
            free == {j \in DOMAIN ics :
                       LET x == nth_val(value, meta[ics[j]])
                       IN IF d = 1 THEN x < Hi(meta[ics[j]]) ELSE x > Lo(meta[ics[j]])}
            last == CHOOSE j \in free : \A q \in free : q <= j
        IN /\ r.ret <=> free # {}
           /\ free = {} => r.value = value
           /\ free # {} =>
                \A q \in Idx :
                    nth_val(r.value, meta[q]) =
                        nth_val(value, meta[q]) + (IF q = ics[last] THEN d ELSE 0)

\* infer_dyn_sign_idx probes the cliffs its comments draw: UMAX - 1, UMAX,
\* 0, 1 around the unsigned wrap and MAX + 2, MAX + 1, MAX, MAX - 1 (as
\* unsigned numbers) around the signed one, whatever the endianness.
ProbesHitPoles ==
    \A i \in Idx :
        LET m == meta[i]
            N == 2^(8 * m.size)
            u(k) == Weigh(ProbeBuf(value, m, k), m, 0)
        IN [k \in 1..8 |-> u(k)] =
           <<N - 2, N - 1, 0, 1, N \div 2 + 1, N \div 2, N \div 2 - 1, N \div 2 - 2>>

\* Sign inference, the switch to big-endian and the split only rewrite the
\* metadata: the bytes of the input are what they were before.
MetadataKeepsBytes == [][meta' # meta => value' = value]_vars

\* Spec 4.5, sign selection: once dynamic inference has agreed on a sign
\* for a segment, the sign the descent reads it with is that sign
\* (consensus mode).
SignFollowsInference ==
    \A i \in Idx :
        LET f == meta[i].info
        IN ~RandomSign /\ f.dyn_n = f.dyn_s /\ f.dyn_n # "Unknown" =>
              meta[i].sign = (f.dyn_n = "Signed")
====
