--------------------------- MODULE GradientSearch ---------------------------
(***************************************************************************)
(* IntGdSearch::run (fuzzer/src/search/newgd.rs): the gradient solver on a *)
(* condition whose taint is one input byte, i.e. a MutInput of a single    *)
(* one-byte segment.  The objective it minimizes is CondOutput::get_output *)
(* (module Objective) of the condition the program reaches with that byte, *)
(* or UNREACHABLE when the byte leads elsewhere.                           *)
(*                                                                         *)
(* The program under test is a constant: for each program p, CondOf(p) is  *)
(* the condition record, Arg1(p, b) the operand it compares when the input *)
(* byte is b, and Reach(p, b) whether the comparison is reached at all.    *)
(* The solver is one thread; its only environment is the stop flag that    *)
(* is_stopped_or_skip polls (SIGINT, the time budget or a skip).           *)
(*                                                                         *)
(* Objectives are integers, so the f64 values the solver computes with are *)
(* exact, except where a rounding meets an exact half: there both outcomes *)
(* of the f64 arithmetic are allowed.  Gradients are kept as fractions.    *)
(***************************************************************************)
EXTENDS Integers, Sequences

CONSTANTS
    Programs,       \* the programs, one condition each
    CondOf(_),      \* CondOf(p): the condition record (Objective's Conds)
    Arg1(_, _),     \* Arg1(p, b): the operand compared when the byte is b
    Reach(_, _),    \* Reach(p, b): the condition is reached with byte b
    Seeds,          \* the input byte the fuzz loop hands the solver
    VarSets,        \* cond.variables: the magic-bytes snapshots
    StateTimes,     \* cond.state_times at this visit: 1, or more than 2
    Interesting,    \* get_interesting_bytes(1)[0]
    RandomBytes,    \* the bytes randomize_all_uniform may draw
    SegSigned,      \* the sign of the segment in the MutInput meta
    MaxEpoch,       \* max_epoch (25 in fuzz_loop)
    MAX_NUM_MINIMAL_OPTIMA_ROUND

ASSUME StateTimes = 1 \/ StateTimes > 2
ASSUME Seeds \cup RandomBytes \cup {Interesting % 256} \subseteq 0..255

O == INSTANCE Objective WITH
        Kinds <- {"explore", "exploit"},
        Preds <- {"EQ", "NE", "UGT", "UGE", "ULT", "ULE", "SGT", "SGE", "SLT", "SLE"},
        Sizes <- {1}, Vals <- [z \in {1} |-> 0..255], ByteBits <- 8, cond <- CondOf(CHOOSE p \in Programs : TRUE)

\* defs::UNREACHABLE (u64::MAX), above every objective of a one-byte
\* condition; u64::MAX as f64, the fmin of repick_start_point, is the same
\* number in f64.  execute_cond maps it to f64::INFINITY.
UNREACHABLE == 2^30
INF == UNREACHABLE

(***************************************************************************)
(* The objective and the one-byte segment                                  *)
(***************************************************************************)

\* The condition the child reports when the input byte is b.
CondAt(p, b) == [CondOf(p) EXCEPT !.arg1 = Arg1(p, b)]

\* SearchHandler::execute_cond: the objective, or UNREACHABLE.
execute(p, b) == IF Reach(p, b) THEN O!get_output(CondAt(p, b)) ELSE UNREACHABLE

\* IntGdSearch::execute_cond: UNREACHABLE as +infinity.
AsF64(f) == IF f = UNREACHABLE THEN INF ELSE f
execute_cond(p, b) == AsF64(execute(p, b))

\* The handler marks the condition DONE when an output solves it.
SolvesCond(p, b) == Reach(p, b) /\ O!is_solved(CondAt(p, b), execute(p, b))

Lo == IF SegSigned THEN -128 ELSE 0
Hi == IF SegSigned THEN 127 ELSE 255

\* nth_val of the segment, and the byte that write_nth_val stores for v.
nth_val(b) == IF SegSigned /\ b >= 128 THEN b - 256 ELSE b
ToByte(v) == v % 256

Clamp(v) == IF v > Hi THEN Hi ELSE IF v < Lo THEN Lo ELSE v

\* add_nth_: add s with saturation; the new byte and the change made.
add_nth_(b, s) ==
    LET new == Clamp(nth_val(b) + s)
    IN [byte |-> ToByte(new), delta |-> new - nth_val(b)]

AbsI(n) == IF n < 0 THEN -n ELSE n
Sgn(n) == IF n > 0 THEN 1 ELSE IF n < 0 THEN -1 ELSE 0

(***************************************************************************)
(* partial_gradient                                                        *)
(***************************************************************************)

\* The end of perturbate's loop, given for each try k whether adding
\* d * 2^k saturated (sat[k]) and the f it gave (fs[k]): the first try
\* that saturates gives +inf, the first whose f differs from fx (an
\* infinite f never equals anything) gives that f, and a step doubled past
\* max_step = 256 gives +inf.  The step returned is the last s.
FirstEnd(fx, d, sat, fs) ==
    LET tries == {k \in 0..8 : sat[k] \/ fs[k] # fx \/ fs[k] = INF}
        last == CHOOSE k \in tries : \A j \in tries : k <= j
    IN IF tries = {} THEN [f |-> INF, step |-> d * 2^9]
       ELSE [f |-> IF sat[last] THEN INF ELSE fs[last], step |-> d * 2^last]

\* The value the first k tries leave: b + d * (1 + 2 + .. + 2^(k-1)).
Pos(b, d, k) == nth_val(b) + d * (2^k - 1)

\* The perturbate closure from byte b in direction d: the k-th try adds
\* s = d * 2^k to the value the tries before it left.

perturbate(p, b, fx, d) ==
    FirstEnd(fx, d,
             [k \in 0..8 |-> Clamp(Pos(b, d, k + 1)) # Pos(b, d, k + 1)],
             [k \in 0..8 |-> execute_cond(p, ToByte(Pos(b, d, k + 1)))])

\* The total displacement of the doubled steps s, 2s, .., step.
TotalStep(step) == AbsI(step) * 2 - 1

\* partial_gradient: a fraction <<numerator, denominator>>; the original
\* byte is written back after each probe.  The forward one-sided
\* difference is divided by sub_step, as the code does.
\* The gradient from the forward probe a and the backward probe s.
GradientOf(fx, a, s) ==
    CASE a.f = INF /\ s.f = INF -> <<0, 1>>
         [] a.f = INF -> <<fx - s.f, TotalStep(s.step)>>
         [] s.f = INF -> <<a.f - fx, TotalStep(s.step)>>
         [] OTHER     -> <<a.f - s.f, TotalStep(a.step) + TotalStep(s.step)>>

\* partial_gradient: a probe in each direction from b.
partial_gradient(p, b, fx) ==
    GradientOf(fx, perturbate(p, b, fx, 1), perturbate(p, b, fx, -1))

\* IntGdSearch::gradient: the one partial gradient of the segment.
gradient(p, b, fx) == partial_gradient(p, b, fx)

(***************************************************************************)
(* descend, for the one coordinate                                         *)
(***************************************************************************)

\* Mutant of is_solved: the abs() of an equality's f left out.
is_solved_noabs(p, f) ==
    IF O!is_strict_equality(CondOf(p)) THEN f <= 0 ELSE f < 0

\* IntGdSearch::is_solved (Objective's is_solved_gd) on the solver's f64.
is_solved(p, f) == O!is_solved_gd(CondOf(p), f)

\* -grad * factor with get_factor_of_coefficients = max(|g|, 1) / g^2:
\* a unit step against the gradient when |g| >= 1, else -1 / g.
DescendDelta(g) ==
    IF AbsI(g[1]) >= g[2] THEN <<-Sgn(g[1]), 1>>
    ELSE <<-Sgn(g[1]) * g[2], AbsI(g[1])>>

\* f64::round of n / d; at an exact half the f64 quotient may fall on
\* either side, so both neighbours are possible.
RoundOf(n, d) ==
    LET q == AbsI(n) \div d
        r == AbsI(n) % d
        mags == IF 2 * r > d THEN {q + 1} ELSE IF 2 * r < d THEN {q} ELSE {q, q + 1}
    IN {Sgn(n) * m : m \in mags}

\* add_delta_with_coeffecients for a single coefficient, on a copy of the
\* buffer: None (the byte unchanged) when nth_val + delta leaves the
\* bounds, else the byte set_nth_ writes for the rounded value.
add_delta_with_coeffecients(b, dl) ==
    LET v == nth_val(b)
    IN IF v * dl[2] + dl[1] > Hi * dl[2] \/ v * dl[2] + dl[1] < Lo * dl[2]
       THEN {b}
       ELSE {ToByte(Clamp(v + r)) : r \in RoundOf(dl[1], dl[2])}

\* The LSB hop: inc_lsb on ics_neg or dec_lsb on ics_pos, whichever group
\* holds the coordinate; pushed when add_nth_ moved it by a whole unit.
lsb_hop(b, g) ==
    LET r == add_nth_(b, IF g[1] < 0 THEN 1 ELSE -1)
    IN IF r.delta # 0 THEN <<r.byte>> ELSE <<>>

(***************************************************************************)
(* init_start_point                                                        *)
(***************************************************************************)

\* MutInput::assign of v to the one-byte buffer b.
assign(b, v) == IF Len(v) > 0 THEN v[1] ELSE b

Reversed(v) == [i \in 1..Len(v) |-> v[Len(v) - i + 1]]

\* init_start_point: try the variables snapshot, and its reverse when the
\* first try left f above 1, on a copy; keep the smallest f.  When some
\* try improved, the copy's final buffer is applied, which is the reverse
\* one whenever it was tried.
\* The result of init_start_point from the buffer b, the buffer b1 with
\* the snapshot assigned, the buffer b2 with its reverse assigned on top,
\* and the three objectives.
StartPoint(b, b1, b2, f0, f1, f2) ==
    LET fm1 == IF f1 < f0 THEN f1 ELSE f0
        rev == f1 > 1
    IN [f |-> IF rev /\ f2 < fm1 THEN f2 ELSE fm1,
        byte |-> IF f1 < f0 \/ (rev /\ f2 < fm1) THEN (IF rev THEN b2 ELSE b1) ELSE b,
        evaluated |-> {b, b1} \cup (IF rev THEN {b2} ELSE {})]

init_start_point(p, b, v) ==
    StartPoint(b, assign(b, v), assign(assign(b, v), Reversed(v)),
               execute(p, b), execute(p, assign(b, v)),
               execute(p, assign(assign(b, v), Reversed(v))))

(***************************************************************************)
(* OneByteFuzz and DetFuzz                                                 *)
(***************************************************************************)

\* CondStmt::is_first_time.
is_first_time == StateTimes = 1

\* The dispatch of fuzz_loop on an explore or exploit condition, by the
\* state the condition is in: OneByteFuzz, DetFuzz, or IntGdSearch::run.
Entry == {"one_byte", "det", "start"}

\* OneByteFuzz::execute and execute_direct: execute_cond on an explore
\* condition, execute_input on another; the run leaves the condition
\* done when it solves it.
ExecuteDone(p, b) == SolvesCond(p, b)

\* Mutant of OneByteRange: the last byte value left out.
OneByteRange_short == 0..254

\* The values of i in OneByteFuzz::run, for i in 0..256.
OneByteRange == 0..255

\* config::MAX_SEARCH_EXEC_NUM.
MAX_SEARCH_EXEC_NUM == 376

\* n of bitflip1: min(val_len * 8, MAX_SEARCH_EXEC_NUM) bits of the byte.
DetBits == IF 8 < MAX_SEARCH_EXEC_NUM THEN 8 ELSE MAX_SEARCH_EXEC_NUM

\* MutInput::bitflip(i) on the one byte: value[0] ^= 128 >> i.
bitflip(b, i) ==
    LET m == 2^(7 - i) IN IF (b \div m) % 2 = 1 THEN b - m ELSE b + m

(***************************************************************************)
(* The state of IntGdSearch::run                                           *)
(***************************************************************************)

VARIABLES
    prog,        \* the program whose condition is being solved
    x,           \* the input byte (the MutInput's one segment)
    fCurr,       \* f_curr of run, and of descend while it runs
    pc,          \* "start", "epoch", "descend", "repick" or "exit"
    ep,          \* ep_i, the epoch
    numRestart,  \* num_restart
    sample,      \* sample_index.0 (sample_index.1 is back to 0 each time)
    grad,        \* the gradient of this epoch, a fraction
    dstep,       \* i of descend: the deltas are doubled dstep times
    started,     \* started of descend
    stopped,     \* is_stopped_or_skip
    result,      \* why run returned
    iter         \* i of OneByteFuzz::run or of DetFuzz::bitflip1

vars == <<prog, x, fCurr, pc, ep, numRestart, sample, grad, dstep, started,
          stopped, result, iter>>

Results == {"none", "magic", "unreachable", "solved", "restarts", "epochs", "stopped",
            "skipped", "done", "unsolvable", "flipped"}

Exact == O!is_strict_equality(CondOf(prog))

TypeOK ==
    /\ prog \in Programs
    /\ x \in 0..255
    /\ fCurr \in Int
    /\ pc \in {"one_byte", "det", "start", "epoch", "descend", "repick", "exit"}
    /\ ep \in 0..MaxEpoch
    /\ numRestart \in 0..(MAX_NUM_MINIMAL_OPTIMA_ROUND + 1)
    /\ sample \in 0..1
    /\ grad \in Int \X (Nat \ {0})
    /\ dstep \in Nat
    /\ started \in BOOLEAN
    /\ stopped \in BOOLEAN
    /\ result \in Results
    /\ iter \in 0..256

Init ==
    /\ prog \in Programs
    /\ x \in Seeds
    /\ fCurr = 0
    /\ pc \in Entry
    /\ ep = 0
    /\ numRestart = 0
    /\ sample = 0
    /\ grad = <<0, 1>>
    /\ dstep = 0
    /\ started = FALSE
    /\ stopped = FALSE
    /\ result = "none"
    /\ iter = 0

\* run up to the epoch loop: f0 from init_start_point on the first visit,
\* else from one execution; return when an execution so far solved the
\* condition, or when f0 is UNREACHABLE.
StartFrom(byte, f0, ran) ==
    /\ x' = byte
    /\ CASE \E e \in ran : SolvesCond(prog, e) ->
             pc' = "exit" /\ result' = "magic" /\ UNCHANGED fCurr
         [] f0 = UNREACHABLE ->
             pc' = "exit" /\ result' = "unreachable" /\ UNCHANGED fCurr
         [] OTHER ->
             pc' = "epoch" /\ fCurr' = f0 /\ UNCHANGED result

\* init_start_point's result on the first visit, one execution otherwise.
StartWith(isp) ==
    IF StateTimes = 1
    THEN StartFrom(isp.byte, isp.f, isp.evaluated)
    ELSE StartFrom(x, execute(prog, x), {x})

Start ==
    /\ pc = "start"
    /\ \E v \in VarSets : StartWith(init_start_point(prog, x, v))
    /\ UNCHANGED <<prog, ep, numRestart, sample, grad, dstep, started, stopped, iter>>

\* Mutant of Restart: no bound on the restarts.
Restart_unbounded ==
    pc' = "repick" /\ numRestart' = numRestart + 1 /\ UNCHANGED result

\* The arm of run for Unable, LeadsToHigherValue and ZeroGrad: return once
\* num_restart exceeds MAX_NUM_MINIMAL_OPTIMA_ROUND, else count a restart
\* and repick the start point.
Restart ==
    IF numRestart > MAX_NUM_MINIMAL_OPTIMA_ROUND
    THEN pc' = "exit" /\ result' = "restarts" /\ UNCHANGED numRestart
    ELSE pc' = "repick" /\ numRestart' = numRestart + 1 /\ UNCHANGED result

\* The top of the epoch loop: leave it after max_epoch epochs or when
\* stopped; else compute the gradient at the current input; a zero
\* gradient is ZeroGrad, any other starts descend.
EpochStep(g) ==
    /\ grad' = g
    /\ IF g[1] = 0
       THEN Restart /\ UNCHANGED <<dstep, started>>
       ELSE /\ pc' = "descend" /\ dstep' = 0 /\ started' = FALSE
            /\ UNCHANGED <<numRestart, result>>

\* Epoch: the gradient is EpochStep's.
Epoch ==
    /\ pc = "epoch"
    /\ IF ep = MaxEpoch \/ stopped
       THEN /\ pc' = "exit"
            /\ result' = IF ep = MaxEpoch THEN "epochs" ELSE "stopped"
            /\ UNCHANGED <<numRestart, grad, dstep, started>>
       ELSE EpochStep(gradient(prog, x, fCurr))
    /\ UNCHANGED <<prog, x, fCurr, ep, sample, stopped, iter>>

\* One iteration of the loop of descend.  The delta is the descend delta,
\* or its negation (ascend) when an equality's f is below zero, doubled
\* dstep times.  The candidate is the moved copy; when there is none at
\* the first iteration, the LSB hop.  A solved f returns SolvedHalfWay, a
\* smaller |f| is adopted; otherwise descend returns StepTooLarge after an
\* adopted step, else Unable (no finite f) or LeadsToHigherValue.
DescendStep(bufs, fnew) ==
    IF fnew # INF /\ is_solved(prog, fnew)
    THEN /\ x' = bufs[1] /\ fCurr' = fnew
         /\ pc' = "exit" /\ result' = "solved"
         /\ UNCHANGED <<ep, numRestart, dstep, started>>
    ELSE IF fnew # INF /\ AbsI(fnew) < AbsI(fCurr)
    THEN /\ x' = bufs[1] /\ fCurr' = fnew
         /\ dstep' = dstep + 1 /\ started' = TRUE
         /\ UNCHANGED <<pc, ep, numRestart, result>>
    ELSE IF started
    THEN /\ pc' = "epoch" /\ ep' = ep + 1
         /\ UNCHANGED <<x, fCurr, numRestart, dstep, started, result>>
    ELSE /\ Restart
         /\ UNCHANGED <<x, fCurr, ep, dstep, started>>

\* The candidate's f: +inf when there is no candidate.
DescendOn(bufs) ==
    DescendStep(bufs, IF bufs = <<>> THEN INF ELSE execute_cond(prog, bufs[1]))

\* The descend delta, negated to ascend when an equality's f is below
\* zero, doubled dstep times.
DoubledDelta(d0) ==
    <<(IF fCurr < 0 /\ Exact THEN -1 ELSE 1) * d0[1] * 2^dstep, d0[2]>>

Descend ==
    /\ pc = "descend"
    /\ \E nb \in add_delta_with_coeffecients(x, DoubledDelta(DescendDelta(grad))) :
          DescendOn(IF nb # x THEN <<nb>>
                    ELSE IF dstep = 0 THEN lsb_hop(x, grad) ELSE <<>>)
    /\ UNCHANGED <<prog, sample, grad, stopped, iter>>

(***************************************************************************)
(* repick_start_point                                                      *)
(***************************************************************************)

\* Mutant of next_sample: sample_index not advanced.
next_sample_stuck(s) == s

\* get_interesting_point's advance of sample_index past the segment's one
\* byte.
next_sample(s) == s + 1

\* get_interesting_point has a value left: never after the second visit,
\* once for the one byte otherwise.
HasInterestingPoint == StateTimes <= 2 /\ sample < 1

\* Mutant of Resume: f_curr kept from before the restart.
Resume_stale(b) ==
    /\ x' = b /\ UNCHANGED fCurr
    /\ pc' = "epoch" /\ ep' = ep + 1

\* The end of the restart arm of run: f_curr = execute_cond(input), and
\* the next epoch.
Resume(b) ==
    /\ x' = b /\ fCurr' = execute_cond(prog, b)
    /\ pc' = "epoch" /\ ep' = ep + 1

\* The loop of repick_start_point, stopped: break with the input as is.
RepickStop ==
    /\ pc = "repick" /\ stopped
    /\ Resume(x)
    /\ UNCHANGED <<prog, numRestart, sample, grad, dstep, started, stopped, result,
                   iter>>

\* One iteration with candidate b: the interesting byte while there is
\* one, else a uniform random byte; a candidate whose f1 is below
\* u64::MAX as f64 is kept, any other is dropped.
RepickTry(b) ==
    /\ pc = "repick" /\ ~stopped
    /\ IF HasInterestingPoint
       THEN b = Interesting % 256 /\ sample' = next_sample(sample)
       ELSE b \in RandomBytes /\ UNCHANGED sample
    /\ IF execute(prog, b) < UNREACHABLE
       THEN Resume(b)
       ELSE UNCHANGED <<x, fCurr, pc, ep>>
    /\ UNCHANGED <<prog, numRestart, grad, dstep, started, stopped, result, iter>>

\* The handler's stop: SIGINT, the state's time budget, or a skip.
\* OneByteFuzz and DetFuzz never poll it, so only IntGdSearch's steps
\* are raced against it.
Stop ==
    /\ ~stopped /\ pc \notin {"one_byte", "det", "exit"}
    /\ stopped' = TRUE
    /\ UNCHANGED <<prog, x, fCurr, pc, ep, numRestart, sample, grad, dstep,
                   started, result, iter>>

(***************************************************************************)
(* The other strategies fuzz_loop dispatches a one-byte condition to       *)
(***************************************************************************)

\* One iteration of OneByteFuzz::run, whose first run (execute_direct) is
\* of the input as the fuzz loop handed it.  A condition fuzzed one byte
\* before returns at once; else the loop returns as soon as the last run
\* left the condition done, or sets the byte to the next value i and runs
\* it; after the last value the condition is unsolvable, whatever that
\* last run did.
OneByte ==
    /\ pc = "one_byte"
    /\ CASE ~is_first_time -> pc' = "exit" /\ result' = "skipped" /\ UNCHANGED <<x, iter>>
         [] iter \in OneByteRange /\ ExecuteDone(prog, x) ->
                pc' = "exit" /\ result' = "done" /\ UNCHANGED <<x, iter>>
         [] iter \in OneByteRange -> x' = iter /\ iter' = iter + 1 /\ UNCHANGED <<pc, result>>
         [] OTHER -> pc' = "exit" /\ result' = "unsolvable" /\ UNCHANGED <<x, iter>>
    /\ UNCHANGED <<prog, fCurr, ep, numRestart, sample, grad, dstep, started, stopped>>

\* One iteration of DetFuzz::bitflip1: break when the last run left the
\* condition done, else run the input with bit i flipped and flip it back;
\* return after the n-th bit without looking at that run.
Det ==
    /\ pc = "det"
    /\ CASE iter > 0 /\ ExecuteDone(prog, bitflip(x, iter - 1)) ->
                pc' = "exit" /\ result' = "done" /\ UNCHANGED iter
         [] iter < DetBits -> iter' = iter + 1 /\ UNCHANGED <<pc, result>>
         [] OTHER -> pc' = "exit" /\ result' = "flipped" /\ UNCHANGED iter
    /\ UNCHANGED <<prog, x, fCurr, ep, numRestart, sample, grad, dstep, started, stopped>>

Candidates == RandomBytes \cup {Interesting % 256}

Next ==
    \/ OneByte \/ Det
    \/ Start \/ Epoch \/ Descend \/ RepickStop
    \/ \E b \in Candidates : RepickTry(b)
    \/ Stop

\* The solver is one thread that always takes its next step; the random
\* draw is uniform, so each byte is eventually drawn.  Nothing forces a
\* stop.
Fairness ==
    /\ WF_vars(OneByte \/ Det \/ Start \/ Epoch \/ Descend \/ RepickStop)
    /\ \A b \in Candidates : WF_vars(RepickTry(b))

Spec == Init /\ [][Next]_vars /\ Fairness

(***************************************************************************)
(* Properties                                                              *)
(***************************************************************************)

\* The first of the doubled probes from b in direction dir (displacements
\* 1, 3, 7, .., 511) that leaves the bounds or changes f: its f, or INF,
\* and its displacement.
Probe(p, b, dir) ==
    LET v == nth_val(b)
        pt(k) == v + dir * (2^(k + 1) - 1)
        inb(k) == Lo <= pt(k) /\ pt(k) <= Hi
        moved(k) == inb(k) /\ execute_cond(p, ToByte(pt(k))) # execute_cond(p, b)
        ks == {k \in 0..8 : (~inb(k) \/ moved(k)) /\ \A j \in 0..(k - 1) : inb(j) /\ ~moved(j)}
        k == CHOOSE k \in ks : TRUE
    IN IF ks = {} \/ ~inb(k) THEN [f |-> INF, d |-> 0]
       ELSE [f |-> execute_cond(p, ToByte(pt(k))), d |-> 2^(k + 1) - 1]

\* The slope spec section 4.7 gives the partial: the secant through the
\* points where f first changes on either side, or through the current
\* point when one side never changes f.
SecantSlope(p, b) ==
    LET fx == execute_cond(p, b)
        up == Probe(p, b, 1)
        dn == Probe(p, b, -1)
    IN CASE up.f = INF /\ dn.f = INF -> <<0, 1>>
         [] up.f = INF -> <<fx - dn.f, dn.d>>
         [] dn.f = INF -> <<up.f - fx, up.d>>
         [] OTHER      -> <<up.f - dn.f, up.d + dn.d>>

\* Every epoch starts from the objective of the input it holds: f_curr,
\* which descend compares candidates against and partial_gradient probes
\* against, is the finite execute_cond of the current input, after
\* init_start_point, after each adopted descend step and after every
\* restart.
FCurrFresh ==
    pc \in {"epoch", "descend"} => fCurr = execute_cond(prog, x) /\ fCurr # INF

\* Once run has restarted, every epoch works from the objective of the
\* input it holds: repick_start_point adopts a candidate only when its
\* f1 is below u64::MAX as f64 (an UNREACHABLE result equals it), the
\* restart arm recomputes f_curr of the new input, also when a stop broke
\* the repick loop, and each adopted descend step keeps the pair in step.
\* This holds even when init_start_point left f_curr stale before the
\* first restart.
RestartFresh ==
    numRestart > 0 /\ pc \in {"epoch", "descend"} =>
        fCurr = execute_cond(prog, x) /\ fCurr # INF

\* The partial gradient descend follows is the secant slope of the
\* objective around the current input (spec section 4.7, step 1).
GradientSecant ==
    pc = "descend" =>
        LET s == SecantSlope(prog, x) IN grad[1] * s[2] = s[1] * grad[2]

\* When run returns on SolvedHalfWay, the input it leaves takes the branch
\* the condition wants.
SolvedExitTaken ==
    pc = "exit" /\ result = "solved" =>
        Reach(prog, x) /\ O!Wanted(CondAt(prog, x))

\* OneByteFuzz::run leaves a condition unsolvable, and not done, only when
\* no value of its byte solves it: the enumeration reaches every value
\* before to_unsolvable.
OneByteExhaustive ==
    pc = "exit" /\ result = "unsolvable" /\ ~ExecuteDone(prog, x) =>
        \A b \in 0..255 : ~SolvesCond(prog, b)

\* The dispatched strategy returns: OneByteFuzz and DetFuzz enumerate a
\* bounded range; in run, descend ends, the restarts and epochs are
\* bounded, and repick_start_point finds a reachable start point.
Termination == <>(pc = "exit")
====
