----------------------------- MODULE BranchMap ------------------------------
(***************************************************************************)
(* The global branch maps and the crash set shared by the fuzzing threads *)
(* (fuzzer/src/branches.rs).                                              *)
(*                                                                         *)
(* Each worker's Branches::has_new turns the hit counts of its last run   *)
(* into buckets (get_path), collects the cells to update while holding    *)
(* the read lock of the map chosen by the run's status, releases it, adds *)
(* the newly touched cells to the density counter, and applies the       *)
(* collected values under the write lock.  dedup_crash checks the crash   *)
(* set under its read lock and inserts under a separate write lock.  Each *)
(* lock-protected block is one atomic step; the relaxed fetch_add on      *)
(* density commutes with every other step and is taken with the read.    *)
(***************************************************************************)
EXTENDS Naturals, FiniteSets, Bitwise

CONSTANTS
    Workers,    \* the fuzzing threads, each with its own Branches
    Cells,      \* edges of the branch table
    Traces,     \* raw branch tables a run may leave: a u16 count per cell
    Sigs,       \* CrashInfo values (error kind and stack hash)
    MaxReports  \* bound on the reports counted per crash signature

ASSUME Traces \subseteq [Cells -> 0..65535]
ASSUME MaxReports \in Nat \ {0}

\* The statuses whose runs has_new compares against a global map; any
\* other status returns (false, false, 0) without touching shared state.
MapStatus == {"Normal", "Timeout", "Crash"}

\* COUNT_LOOKUP: [1], [2], [3], [4, 7], [8, 15], [16, 31], [32, 127],
\* [128, infinity] map to one bit each.
COUNT_LOOKUP(c) ==
    CASE c = 0           -> 0
      [] c = 1           -> 1
      [] c = 2           -> 2
      [] c = 3           -> 4
      [] c \in 4..7      -> 8
      [] c \in 8..15     -> 16
      [] c \in 16..31    -> 32
      [] c \in 32..127   -> 64
      [] OTHER           -> 128

\* Mutant of get_path: the u16 count truncated with `v as u8` instead of
\* being clamped to 255.
get_path_truncated(t) ==
    [i \in {j \in Cells : t[j] % 256 > 0} |-> COUNT_LOOKUP(t[i] % 256)]

\* get_path: the cells with a nonzero count, clamped to 255 and bucketed.
get_path(t) ==
    LET clamp(v) == IF v > 255 THEN 255 ELSE v
    IN [i \in {j \in Cells : clamp(t[j]) > 0} |-> COUNT_LOOKUP(clamp(t[i]))]

VARIABLES
    virgin,    \* virgin[s][i]: cell i of the global map for status s
    density,   \* GlobalBranches::density
    crashes,   \* GlobalBranches::crashes
    pc,        \* pc[w]: "idle", "write" (has_new) or "insert" (dedup_crash)
    status,    \* status[w]: the status of the run has_new is judging
    toWrite,   \* toWrite[w]: cell |-> new value, collected under the read lock
    sig,       \* sig[w]: the CrashInfo dedup_crash is inserting
    observed,  \* observed[w]: <<status, trace>> of w's last has_new, or <<>>
    reports    \* reports[x]: how often dedup_crash returned new for x

vars == <<virgin, density, crashes, pc, status, toWrite, sig, observed, reports>>

\* The u8 `!b`.
NotU8(b) == 255 - b

TypeOK ==
    /\ virgin \in [MapStatus -> [Cells -> 0..255]]
    /\ density \in 0..Cardinality(Cells)
    /\ crashes \subseteq Sigs
    /\ pc \in [Workers -> {"idle", "write", "insert"}]
    /\ status \in [Workers -> MapStatus]
    /\ \A w \in Workers : DOMAIN toWrite[w] \subseteq Cells
    /\ sig \in [Workers -> Sigs]
    /\ reports \in [Sigs -> 0..MaxReports]

Init ==
    \* Branches::resize fills every map with 255 before the first run.
    /\ virgin = [s \in MapStatus |-> [i \in Cells |-> 255]]
    /\ density = 0
    /\ crashes = {}
    /\ pc = [w \in Workers |-> "idle"]
    /\ status = [w \in Workers |-> "Normal"]
    /\ toWrite = [w \in Workers |-> <<>>]
    /\ sig = [w \in Workers |-> CHOOSE x \in Sigs : TRUE]
    /\ observed = [w \in Workers |-> <<>>]
    /\ reports = [x \in Sigs |-> 0]

(***************************************************************************)
(* Branches::has_new                                                       *)
(***************************************************************************)

\* Under the read lock: the cells of path whose bucket is still set in the
\* global map gb, each with gb's value with that bucket cleared.
Novel(path, gb) ==
    [i \in {j \in DOMAIN path : (path[j] & gb[j]) > 0} |->
        gb[i] & NotU8(path[i])]

\* Mutant of NewEdges: count the cells with a novel bucket rather than
\* the cells never touched.
NewEdges_novel(path, gb) ==
    Cardinality({j \in DOMAIN path : (path[j] & gb[j]) > 0})

\* Under the read lock: the cells of path that are still 255 in gb.
NewEdges(path, gb) == Cardinality({j \in DOMAIN path : gb[j] = 255})

\* Only new edges of the virgin map are counted in density.
CountsDensity(s) == s = "Normal"

\* has_new up to the release of the read lock, and the fetch_add on
\* density.  A call with nothing to write returns here.
HasNewRead(w, s, t) ==
    LET path == get_path(t)
        writes == Novel(path, virgin[s])
        num_new_edge == NewEdges(path, virgin[s])
    IN
    /\ pc[w] = "idle"
    /\ density' = IF num_new_edge > 0 /\ CountsDensity(s)
                  THEN density + num_new_edge ELSE density
    /\ observed' = [observed EXCEPT ![w] = <<s, t>>]
    /\ IF DOMAIN writes = {}
       THEN UNCHANGED <<pc, status, toWrite>>
       ELSE /\ pc' = [pc EXCEPT ![w] = "write"]
            /\ status' = [status EXCEPT ![w] = s]
            /\ toWrite' = [toWrite EXCEPT ![w] = writes]
    /\ UNCHANGED <<virgin, crashes, sig, reports>>

\* has_new under the write lock: store the values computed under the read
\* lock, whatever the map holds now.
HasNewWrite(w) ==
    LET s == status[w] IN
    /\ pc[w] = "write"
    /\ virgin' = [virgin EXCEPT ![s] =
          [i \in Cells |-> IF i \in DOMAIN toWrite[w]
                           THEN toWrite[w][i] ELSE virgin[s][i]]]
    /\ pc' = [pc EXCEPT ![w] = "idle"]
    /\ toWrite' = [toWrite EXCEPT ![w] = <<>>]
    /\ UNCHANGED <<density, crashes, status, sig, observed, reports>>

(***************************************************************************)
(* Branches::dedup_crash                                                   *)
(***************************************************************************)

\* Under the read lock: a CrashInfo absent from the set is new, and that
\* is what the call returns; a new one is inserted afterwards.
DedupCheck(w, x) ==
    /\ pc[w] = "idle"
    /\ IF x \notin crashes
       THEN /\ reports[x] < MaxReports
            /\ reports' = [reports EXCEPT ![x] = @ + 1]
            /\ pc' = [pc EXCEPT ![w] = "insert"]
            /\ sig' = [sig EXCEPT ![w] = x]
       ELSE UNCHANGED <<reports, pc, sig>>
    /\ UNCHANGED <<virgin, density, crashes, status, toWrite, observed>>

\* Under the write lock: insert the CrashInfo.
DedupInsert(w) ==
    /\ pc[w] = "insert"
    /\ crashes' = crashes \cup {sig[w]}
    /\ pc' = [pc EXCEPT ![w] = "idle"]
    /\ UNCHANGED <<virgin, density, status, toWrite, sig, observed, reports>>

Next ==
    \E w \in Workers :
        \/ \E s \in MapStatus, t \in Traces : HasNewRead(w, s, t)
        \/ HasNewWrite(w)
        \/ \E x \in Sigs : DedupCheck(w, x)
        \/ DedupInsert(w)

Spec == Init /\ [][Next]_vars

(***************************************************************************)
(* Properties                                                              *)
(***************************************************************************)

\* The bucket of a hit count as spec section 3 states it: counts 1, 2, 3,
\* 4-7, 8-15, 16-31, 32-127 and 128 or more (clamped at 255) set bits 0
\* to 7 in turn.
SpecBucket(v) ==
    LET lo == <<1, 2, 3, 4, 8, 16, 32, 128>>
        c == IF v > 255 THEN 255 ELSE v
    IN IF c = 0 THEN 0
       ELSE 2^(CHOOSE k \in 0..7 : lo[k + 1] <= c /\ (k = 7 \/ c < lo[k + 2]))

AllIdle == \A w \in Workers : pc[w] = "idle"

\* Spec invariant 2 (novelty idempotence): once has_new has returned on a
\* trace, every bucket of that trace is cleared in the map of its status,
\* so the same trace is never novel again.
CoverageRecorded ==
    \A w \in Workers :
        pc[w] = "idle" /\ observed[w] # <<>> =>
            LET s == observed[w][1]
                t == observed[w][2]
            IN \A i \in Cells : (SpecBucket(t[i]) & virgin[s][i]) = 0

\* density counts the virgin-map cells that some run has touched: between
\* calls of has_new it equals the number of cells no longer 255.
DensityExact ==
    AllIdle =>
        density = Cardinality({i \in Cells : virgin["Normal"][i] # 255})

\* dedup_crash returns "new" at most once for each CrashInfo.
CrashReportedOnce == \A x \in Sigs : reports[x] <= 1
====
