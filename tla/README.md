# TLA+ models of the Valkyrie fuzzer core

This directory holds TLA+ models of the search core of the Valkyrie fuzzer
(`src/fuzzer`, `src/common`, `src/runtime*`), the TLC configurations that
check them, and `PROJECT.json`, which maps every definition to the source
lines it models and lists the runs, mutants, findings and hazards.

## 1. Inventory

### Components

| Component | Source | State | Operations | Interacts with |
|---|---|---|---|---|
| QPriority | `fuzzer/src/depot/qpriority.rs` | a `u16` per condition | `init(op)`, `inc(op)`, `done`, `is_done` | Depot (ordering), fuzz loop (`is_done`) |
| Depot (condition queue) | `fuzzer/src/depot/mod.rs` (not in `src/`; modelled from spec §4.3) | priority queue of `(CondStmt, QPriority)`, lookup by `CondId` | `add`, `get_entry`, `update_entry`, `get_input_buf` | every worker thread, under one mutex |
| Fuzz loop | `fuzzer/src/fuzz_loop.rs` | per worker: the popped condition, its priority | pull / skip-done / dispatch / write back, stop on `running == false`, on `None` or on a DONE priority | Depot, search strategies, Executor |
| CondStmt / CondStmtBase | `fuzzer/src/cond_stmt/cond_stmt.rs`, `common/src/cond_stmt_base.rs`, `cond_id.rs` | condition record, `condition` in {FALSE, TRUE, DONE}, `state_times`, `state` | `mark_as_done`, `is_done`, `is_solved`, `is_first_time`, predicate masks | fuzz loop, strategies |
| CondState machine | `fuzzer/src/cond_stmt/cond_state.rs` (not in `src/`; spec §9) | OneByte, Det, Gradient, Random, Unsolvable, Timeout, Done | `next_state`, `to_unsolvable`, `is_time_expired` | fuzz loop dispatch |
| Objective | `fuzzer/src/cond_stmt/output.rs` | none (pure) | `get_output`, `translate_signed_value`, `sub_abs` | executor, gradient solver |
| Branch map | `fuzzer/src/branches.rs` | global virgin / timeout / crash maps (`RwLock<Trace>`), crash set, `density` counter; per worker the shared-memory trace | `has_new(status)`, `dedup_crash`, `get_path`, `resize`, `clear_trace` | all workers (shared, reader-writer locks), the child process (trace) |
| Shared memory | `common/src/shm.rs`, `runtime_fast/src/shm_branches.rs` | SysV segment (cond slot), POSIX shm (branch table) | create, open/resize, clear, drop | executor and instrumented child |
| Runtime hooks | `runtime_fast/src/fast.rs`, `runtime/src/track.rs` | condition slot in the child; tracking log | `__angora_trace_cmp`, exploit hooks (`div`, `intflow`, `mem_arg`), `*_tt` tracking hooks | child writes the cond slot read by the executor |
| MutInput | `fuzzer/src/mut_input/*.rs` | byte buffer + segment metadata (size, sign, endian, sign info) | `from`, `add_nth_`, `set_nth_`, `add_delta_with_coeffecients`, `split_meta_w_sign_change`, `infer_dyn_sign`, `inc_lsb`/`dec_lsb`, `bitflip`, `assign` | gradient solver, one-byte, det |
| Gradient solver | `fuzzer/src/search/newgd.rs` | input, f, epoch, restarts, sample index | `run`, `gradient_may_split`, `infer_endianness`, `partial_gradient`, `descend`, `init_start_point`, `repick_start_point` | MutInput, executor |
| Secondary strategies | `search/one_byte.rs`, `det.rs`, `afl.rs` | per run counters | one-byte enumeration, bit flips, splice, havoc, length | executor |
| Executor / forkserver | `fuzzer/src/executor/*` (not in `src/`) | forkserver, per-worker shm | `run`, timeouts, tracking runs, `depot.add` | Branch map, Depot |
| Stats / dump / CLI | `stats/fuzz.rs`, `depot/dump.rs`, `bin/*.rs`, `common/src/config.rs` | counters, config | counting, CSV dump, option parsing | none that change the search |

### How they interact

N worker threads run `fuzz_loop` (one per job). They share the Depot (one
mutex), the global branch maps (reader-writer locks, plus an atomic
`density`) and the crash set (reader-writer lock). A worker pops the condition
of smallest priority, runs a strategy on it (every target execution goes
through its own Executor, which fills the condition slot, runs the child and
calls `has_new`; new coverage leads to a tracking run whose conditions are
`add`ed to the Depot), and writes the condition back with `update_entry`.
Cancellation is a shared `running` flag polled at the top of the loop.

### What is hard

* Interleavings of workers on the Depot: a worker can find the queue empty
  while the others hold every live condition, and then leaves its loop for good
  (`fuzz_loop.rs:137`).
* `QPriority::inc` adds 3 to a `u16` without a check when the configured
  `max_priority` is the default `u16::MAX` (`qpriority.rs:25-28`): the
  saturation branch can never fire, and AFL and exploit priorities wrap around
  into other classes (release build) or panic (debug build).
* `has_new` reads the global map under a read lock, releases it, and writes
  under a write lock (`branches.rs:308-344`); two workers can both judge the
  same cell new and count it twice in `density`, and the later write can
  restore bits the earlier one cleared.
* `dedup_crash` checks then inserts under two separate lock acquisitions
  (`branches.rs:273-289`, commented "There is a race condition here?!").
* The objective and the solver's notion of "solved" at the boundary of strict
  and non-strict predicates (`output.rs`, `newgd.rs:328-330`), signed
  translation at the sign boundary (`output.rs:331-381`).
* Saturating arithmetic at the segment bounds (`mut_input.rs:687-713, 816-824`).
* The exploit hooks compute bounds at widths other than the operand size the
  tracking run logs (`fast.rs:91-95, 113, 157-161`); the objective then reads
  the reported operands at the logged size.

### Properties that make each component correct

* Depot + fuzz loop: a condition is never worked on by two workers at once; a
  queued priority stays in the residue class of its condition; the DONE
  priority is reached only by saturation; every live condition is eventually
  popped; workers terminate once every condition is DONE (with a finite
  `max_priority`), and a worker never leaves while live work remains.
* Branch map: the virgin map only loses bits; `density` equals the number of
  cells ever touched; the same coverage is reported novel at most once; a crash
  signature is reported new at most once.
* Objective: `is_solved(get_output(c))` holds exactly when the branch the
  fuzzer wants is taken; `translate_signed_value` is strictly monotone.
* Runtime hooks: the objective of the condition slot says solved exactly when
  the hook's own check of the targeted probe holds, and a solved exploit probe
  means the effect the probe is written for (zero dividend, huge or negative
  argument, overflowed result). The code breaks both on intflow and
  mem_arg sites (runs `intflow_sign` and `mem_target`); div and comparison
  sites agree, but no checked run asserts it for them alone.

## 2. Plan

Order: the most important shared behaviour first.

1. `QPriority.tla` (pure operators) and `FuzzLoop.tla` (workers + Depot +
   QPriority), with `MCFuzzLoop.tla` and runs: the pass run (safety + liveness),
   a violation run for the priority wrap-around, and a reproduction of the
   premature worker exit (`MCFuzzLoopExit.cfg`). **Done.**
2. `BranchMap.tla`: `has_new` split at its lock boundaries, `dedup_crash`,
   with a pass run for one worker and a violation run for two. **Done.**
3. `Objective.tla`: `get_output`, `translate_signed_value`, both `is_solved`
   predicates, checked against a reference definition of each predicate over
   8-bit values and boundary values of wider sizes. **Done.**
4. `CondState.tla` (spec-modelled state machine) composed into `FuzzLoop`,
   with the dispatch of `fuzz_loop.rs:185-221`.
5. `MutInput.tla`: `add_nth_`, `set_nth_`, `add_delta_with_coeffecients`,
   `inc_lsb`/`dec_lsb` at small widths; write-read identity and saturation.
   **Done** (with the metadata steps of sign and endianness inference).
6. `GradientSearch.tla`: the control of `IntGdSearch::run`/`descend` over a
   finite objective table; termination within `max_epoch` and the restart
   budget, classification of `DescendStatus`.  **Done for one coordinate**
   (the objective comes from `Objective`, not from a table).  Left: several
   coordinates, the per-byte partial gradients `gradient_may_split` hands to
   `infer_endianness` (its verdict is modelled in `MutInput`, on gradients
   drawn from a small set), and the second-visit sign inference.  The one-byte enumeration (`OneByteFuzz::run`) and the
   bit flips (`DetFuzz::bitflip1`) that the fuzz loop dispatches the same
   condition to are actions of the module too.
7. An abstract `Depot` specification (a set of conditions, each taken by at
   most one worker) refined by `FuzzLoop` through `INSTANCE ... WITH`.  **Done**
   (`Depot.tla`, property `DepotRefined` of the `fuzzloop` run).
8. `RuntimeHooks.tla`: the tracking and fast hooks of comparisons and of
   the div, intflow and mem_arg exploits, composed with `Objective` over the
   condition slot.  **Done** (switch and fn hooks left out, see below).
9. `AflFuzz.tla`: `AFLFuzz::run` with `afl_len`, the splice loop and
   every arm of `havoc_flip`, over the buffer helpers of `rw.rs`.  **Done.**

## 3. Modules and runs

| Module | Models | State (VARIABLES) | Actions |
|---|---|---|---|
| `QPriority` | `depot/qpriority.rs` | none (operators) | `init`, `inc` (with the `max_priority` check and the `u16` wrap at width `W`), `done`, `is_done` |
| `FuzzLoop` | `fuzz_loop.rs` with the Depot (spec §4.3) | `running`, `known`, `queued`, `prio`, `done`, per worker `pc`, `held` | `Pull` (poll `running`, `get_entry`, both breaks, the DONE skip), `Discover` (a tracking run `add`s a condition), `Finish` (strategy outcome and `update_entry`), `Stop` (SIGINT) |
| `BranchMap` | `branches.rs` | the three global maps, `density`, `crashes`, per worker `pc`, `status`, `toWrite`, `sig` | `HasNewRead` (get_path, collection under the read lock, the `density` fetch_add), `HasNewWrite` (store under the write lock), `DedupCheck`, `DedupInsert` |
| `Objective` | `cond_stmt/output.rs`, `CondStmt::is_solved`, `IntGdSearch::is_solved`; widths scale with `ByteBits` (8 in its own run and in GradientSearch) | `cond`, the condition read back | `Observe` (new operands) |
| `MutInput` | `mut_input/*.rs` | a MutInput (`value`, `meta`) and the operations applied | `from`/`push`, `set_nth_`, `add_nth_`, `inc_lsb`/`dec_lsb`, sign inference, `infer_endianness`'s verdict on per-byte gradients (`EndianVerdict`) driving the flip to big-endian (`ToBe`) or the split and copy-back (`SplitMeta`) in `InferEndianness`, `assign_sign`, the havoc and det buffer steps |
| `Depot` | the Depot's promise (spec §4.3), no source of its own | `running`, `seen`, `available`, `solved`, `taken`, `left` | `Take`, `Give` (solved, spent or back to the pool), `Report`, `Leave`, `Halt` |
| `RuntimeHooks` | `runtime/src/track.rs`, `runtime_fast/src/fast.rs`, with `Objective` | `site` (the hook call site), `target` (the probe number k of the id `cmpid \| k << 28`), `slot` (the condition slot), `flag` (the `u32` condition the hook computed), `input` (the operands of the last fast run) | `Track` (a tracking run: the `_tt` hook logs one condition per probe, one becomes the slot), `Fast` (a fast run: `check_match` picks the probe, `update_cmp` stores its operands) |
| `AflFuzz` | `search/afl.rs`, `mut_input/rw.rs` | `seed` (the handler's buf), `ratio` (`run_ratio`), `pc`, `cur` (the havoc buffer), `left` (stacked steps left), `step` (add_small_len), `times`, `maxTimes`, `skip`, `running`, `last` (the last executed buffer) | `Begin` (`is_first_time` and `afl_len`, or the splice budget), `AddSmallLen` (one iteration), `Splice` (one iteration of the splice loop; on the loop's end the havoc budget and the skip reset), `Havoc` (the havoc loop head, the stacking draw), `Stack` (one arm of `havoc_flip`, or the execute), `Stop` (SIGINT) |
| `BranchTable` | `common/src/shm.rs` (`SharedMemory`, `BranchCountTable`), `runtime_fast/src/shm_branches.rs`, `Branches::new`/`resize`/`clear_trace`, `fast_harness.rs`, with `BranchMap` (EXTENDS) | per worker `fileLen`, `mapLen` (`mmap_size`), `table` (the u16 counters), `srv`, `hpc`, `runStatus`, `tries`, `lastRun`; `glen` (length of the global maps); `restarts` | `ForksrvStart` (the child's `__alloc_branch_count_table`: `open_with_size`), `Resize` (`SharedMemory::resize`, `Trace::resize` of the three maps), `Restart` (the forkserver restarted between runs), `Run` (`run_target`: `clear_trace`, the child's counts; a timeout retried), `Judge` (`has_new`'s read on the table seen through the mapping), `Dedup`; `HasNewWrite` and `DedupInsert` from BranchMap |
| `GradientSearch` | `search/newgd.rs`, `search/one_byte.rs`, `search/det.rs`, the dispatch of `fuzz_loop.rs` | `prog`, `x` (the one-byte input), `fCurr`, `pc`, `ep`, `numRestart`, `sample`, `grad`, `dstep`, `started`, `stopped`, `result`, `iter` (the counter of one-byte and bit flips); `pc` starts at the strategy `fuzz_loop` dispatches to (`Entry`) | `OneByte` (one iteration of `OneByteFuzz::run`), `Det` (one iteration of `bitflip1`), `Start` (run up to the epoch loop, with `init_start_point`), `Epoch` (the loop head and `gradient`), `Descend` (one iteration of `descend`'s loop), `RepickTry`/`RepickStop` (`repick_start_point` with `get_interesting_point`), `Stop` (the handler's stop) |

Each `MC*` module gives the constants small values; `PROJECT.json` maps
every definition to its source lines.

### Runs

| Run | cfg | Expect | What it shows |
|---|---|---|---|
| `fuzzloop` | `MCFuzzLoop.cfg` | pass | Two workers, four conditions (explore, AFL, exploit, one born DONE), `max_priority` 9 at width 4: exclusive ownership, priority classes, no starvation, termination, and refinement of `Depot` under the mapping `available` = queued conditions neither DONE nor at the DONE priority, `taken` = `held`, `solved` = DONE conditions. |
| `priority_wrap` | `MCFuzzLoopWrap.cfg` | violation | `max_priority` = `u16::MAX` (15 at width 4): `inc` wraps an AFL or exploit priority out of its class (`qpriority.rs:28`). |
| `branchmap` | `MCBranchTable.cfg` | pass | One worker and its forkserver child (`BranchTable` over `BranchMap`), through allocation, resize, runs with a timeout retry, a forkserver restart and crash dedup: every trace `has_new` has judged is recorded in the virgin map of its status, with `get_path` clamping `u16` counts above 255 (`CoverageRecorded`). One worker cannot show the races on `density` and on crash dedup; those are the `MCBranchMapDensity` and `MCBranchMapCrash` reproductions. |
| `lost_update` | `MCBranchMapLost.cfg` | violation | Two workers between `has_new`'s read and write locks: a stale write restores cleared bits (`branches.rs:340`). |
| `objective` | `MCObjective.cfg` | pass | `is_solved(get_output(c))` is the wanted branch, and `translate_signed_value` keeps signed order, for every predicate, sign and kind at the boundary operands of 1- and 2-byte compares. |
| `mutinput` | `MCMutInput.cfg` | pass | Up to three operations on MutInputs from three taint layouts of 1- and 2-byte extents: writes read back in every endianness, LSB steps, sign probes, metadata steps keep the bytes and leave every byte covered by as many segments as before (`MetadataKeepsLayout`, across the splits and copy-back of `infer_endianness`), and `infer_endianness` judges a multi-byte segment read little- or big-endian by a linear objective correctly for either sign of the slope (`EndianInferred`). Its ascend test compares the signed gradient where its descend test compares magnitudes, which only this sign case tells apart. |
| `gradsearch` | `MCGradientSearch.cfg` | pass | `run`, one-byte and bit flips on five one-byte conditions from four seeds: once `run` has restarted, `f_curr` is the finite objective of the input it holds (`RestartFresh`; before the first restart it may be stale, see `init_stale`); `SolvedHalfWay` leaves a solving input; one-byte marks a condition unsolvable (and not done) only when no byte value solves it (`OneByteExhaustive`); each strategy returns. |
| `gradient_divisor` | `MCGradientSearchSecant.cfg` | violation | `partial_gradient`'s `(false, true)` arm divides by the backward probe's step (`newgd.rs:315`). |
| `init_stale` | `MCGradientSearchStale.cfg` | violation | `init_start_point` returns the forward try's f but applies the reversed buffer (`newgd.rs:677`). |
| `intflow_sign` | `MCRuntimeHooksIntflow.cfg` | violation | On an intflow site the objective of the signed probe `s_result > I::MAX` disagrees with the hook's check: `translate_signed_value` picks its branch by the low byte's sign but shifts the whole sign-extended `u64`, so a 1-byte `s_result` of -129 (-5 at 3-bit bytes) reads as solved though -129 > 127 is false (`output.rs:138`, `fast.rs:133-140`). |
| `afl` | `MCAflFuzz.cfg` | pass | `AFLFuzz::run` on three seeds within `MAX_INPUT_LEN` against a depot of three inputs: for such seeds no havoc step panics on an empty `gen_range` and no executed buffer is longer than `MAX_INPUT_LEN` (`HavocSafe`); unless stopped, run returns only once the handler's budget is spent (`BudgetSpent`); run always returns (`Termination`). |
| `mem_target` | `MCRuntimeHooksMem.cfg` | violation | The mem_arg bound `(1 << size) - 1` counts bytes: a 4-byte argument of 16 solves the "arg > 0xffffffff" probe (`fast.rs:158`). |

Seven further configurations are kept for reproduction but are not among the
checked runs:

* `MCBranchMapCrash.cfg` shows two workers both reporting the same crash new:
  `dedup_crash` checks under the read lock and inserts under a separate write
  lock (`branches.rs:283`).
* `MCMutInputOdd.cfg` shows a 3-byte taint extent giving three segments on
  its first byte (`mut_input.rs:462`).
* `MCBranchMapDensity.cfg` shows `density` counting a cell twice when two
  workers both see it new.
* `MCObjectiveGd.cfg` shows `IntGdSearch::is_solved` disagreeing with
  `CondStmt::is_solved` on the non-strict predicates at `f = 0`.
* `MCMutInputSign.cfg` shows a segment's sign not following the inference.
* `MCFuzzLoopExit.cfg` shows `NoPrematureExit` violated: a worker leaves
  for good on an empty queue while another holds the last live condition
  (`fuzz_loop.rs:52`). The spec does not say whether a worker may retire
  there, so no checked run asserts it.
* `MCAflFuzzLong.cfg` shows `HavocSafe` violated for a seed of five bytes
  with `MAX_INPUT_LEN` 4: the clone cap `max_len - byte_len` underflows in
  `u32` (`afl.rs:192`). Seeds are not cut to `MAX_INPUT_LEN` on import,
  so `HavocSafe` in the `afl` run speaks only of seeds within the limit.

Every property of a passing run has a mutant in `PROJECT.json`: a plausible
bug in the definition it is about, under which TLC finds the property
violated.

### Bounds

* **FuzzLoop.** Width `W = 4` keeps the class structure mod 3 of a `u16`
  (16 ≡ 1 mod 3, like 65536), so the wrap reaches the same classes.
  `MaxPriority` 9 lets each class be incremented more than once before
  saturating.
* **BranchMap.** Two cells and three traces cover distinct buckets,
  including a count above 255. Two signatures are enough for the races
  between two workers.
* **BranchTable.** It runs one worker; the races of two are the
  BranchMap reproductions. Two runs that both hit `e1` once would read
  as bucket 2 if the table were not cleared. The executor's `TMOUT_SKIP`
  3 is cut to 1: each retry clears the table as the first attempt does.
  One forkserver restart is allowed. File and mapping lengths are 0 or
  the full table, the only lengths the code sets. The model follows
  `fast_harness`: the forkserver allocates the table before
  `Branches::resize`. This is an assumption: the spec only says the
  child sends `ready`, and `Forksrv` is not in the sources. The hazard
  at `fast_harness.rs:75` names what breaks without it.
* **Objective and MutInput.** Objective uses the boundary values of 1- and
  2-byte operands. MutInput uses a three-byte seed, three taint layouts
  (mixed widths, signs, a gap), `MaxOps` 3, and steps and targets around
  the saturation points. Per-byte gradients come from {-256, -1, 0, 1,
  256}: both signs, equal and unequal magnitudes, so every verdict of
  `infer_endianness` happens. Segments have at most two bytes, so
  `EndianInferred` checks 2-byte segments; TLC's 32-bit integers cannot
  hold the gradient of the top byte of an 8-byte segment.
* **GradientSearch.** `max_epoch` 4 and `MAX_NUM_MINIMAL_OPTIMA_ROUND` 2
  stand for the code's 25 and 8. Every exit of `run` is reached with them:
  magic, unreachable, solved, restarts, epochs and stopped.
* **GradientSearch programs.** The programs are an equality, a guarded
  comparison with unreachable inputs, a signed comparison of an unsigned
  byte, a disequality, and `b == 255`, which only the last value of the
  one-byte enumeration solves. The secant run adds a plateau objective (`b/4`).
  Two random bytes and one interesting value drive `repick_start_point`.
* **RuntimeHooks.** A byte is 3 bits, so u64 is 24 bits and u32 is 12.
  Operands of 1, 2, 4 and 8 bytes are then 3, 6, 12 and 24 bits wide. Every
  width the hooks tell apart (operand size, `bit_size`, u32, u64) stays
  distinct and fits TLC's integers. Operand values are the bounds of each
  width and the bounds the hooks compare with. Taint labels are 0, an
  unsigned label and a signed label.
* **AflFuzz.** Bytes are one bit and `MAX_INPUT_LEN` is 4, so the
  block-length arms (1..32 and above) all hit the clamp at the buffer's
  length, the clone cap fires, and add_small_len breaks after two or three
  tails. The splice and havoc budgets (45 each) are one per ratio unit with
  ratio 2, so both loops run twice. `max_stacking` 64 becomes 2, enough to
  grow a buffer to the cap and to delete it down to one byte. The seeds are
  one, two and three bytes; the inputs splice with some of them and not
  with others, so both exits of the splice loop are reached.
* **GradientSearch integers.** `defs::UNREACHABLE` (`u64::MAX`) is `2^30`,
  above every objective of a one-byte input.
* **GradientSearch rounding.** At an exact half the rounding of
  `add_delta_with_coeffecients` may go either way, as the f64 error allows.

### Fairness

* **FuzzLoop.** Each worker thread always takes its next step: weak
  fairness on `Pull` and `Finish`. Nothing forces a discovery or a SIGINT.
* **GradientSearch.** The solver is one thread, so it has weak fairness on
  its own steps, one-byte's and the bit flips' included. The uniform random draw justifies weak fairness of the
  repick with each candidate byte. `Stop` has no fairness.
* **AflFuzz.** `AFLFuzz::run` is one thread: weak fairness on all of its
  steps except `Stop`.
* **Other modules.** BranchMap (with BranchTable), Objective, MutInput and RuntimeHooks check
  safety only.

### Not modelled

* **Executor, stats and CLI.** These are I/O, or not in the sources; see
  `PROJECT.json` for each. The executor's run, its timeout retry and its
  forkserver restart are modelled in `BranchTable` from spec §4.4.
* **Shared memory not modelled.**
  * The SysV condition slot (`SHM<T>`): `RuntimeHooks` treats it as a
    record.
  * No caller checks `is_fail`.
  * `SharedMemory` has no `Drop`. The branch-table file is never
    unlinked, though spec §5 says the parent unlinks it. The file
    outlives the process, which the model does not follow.
  * `__alloc_branch_count_table` exits the child with status 0 when it
    cannot open the table. The executor would then see a normal run
    with no coverage, but its exit classification is not in the
    sources.
* **Runtime hooks not modelled.**
  * The switch and fn hooks: `update_switch`, `check_match`, `update_cmp`
    and the magic-byte log are outside the repository. `check_match` and
    `update_cmp` are modelled from the spec's description of the slot.
  * `exploit_val`: a bare `log_cmp`.
  * `infer_shape`: a tag-set side effect.
  * The debug-build panic of `dividend - 1`: the release wrap is modelled.
* **The `CondState` machine.** `cond_state.rs` is not in the sources; the
  dispatch picks any of the three states. A second one-byte visit returns
  at once (`is_first_time`), but the runs check first visits only.
* **`AFLFuzz::random_len`.** This is dead code: `ENABLE_RANDOM_LEN` is
  false (`config.rs`). It would also divide by the length of an empty seed.
* **Sizes 8 in havoc.** The interesting and arithmetic arms draw
  `gen_range(0, 3)`, so only sizes 1, 2 and 4 occur; spec §4.8 lists 8 as
  well. The model follows the code. A buffer of exactly `size` bytes is
  skipped (`byte_len > size`).
* **The length, exploit and fn strategies.** These are not in the sources.
* **GradientSearch with several coordinates.** The per-byte gradients
  that feed `infer_endianness` come from a small set in `MutInput`. Their
  computation on a multi-byte segment is not modelled.
* **Dead code in `mut_input.rs`.** Nothing calls `randomize_all`,
  `randomize_all_with_weight`, `randomize_all_mut_based`, `add_nth`,
  `set_nth`, or the setters of `Numeral`. `repick_start_point` calls only
  `randomize_all_uniform`; that call is modelled in `GradientSearch`.
* **`fast_harness` interactive mode.** This is console I/O. Its prompt
  loop treats a read of 0 bytes (end of input) as an empty line and
  prompts again. It ends only on a read error. So when stdin closes early,
  the loop spins forever and "Incomplete information" is never printed
  (`fast_harness.rs:148-150`).
* **Floating-point objectives (`FCMP`).** Beyond their routing in
  `get_output`, these are not modelled.
