---------------------------- MODULE BranchTable -----------------------------
(***************************************************************************)
(* The branch table each worker shares with its forkserver child, composed *)
(* with the global branch maps of BranchMap.                               *)
(*                                                                         *)
(* Branches::new creates an empty POSIX shared-memory file and maps        *)
(* nothing (SharedMemory::create_empty).  The forkserver child, when its   *)
(* runtime asks for the counters (__alloc_branch_count_table), reopens the *)
(* file with O_TRUNC, sets its length to one u16 per edge and maps it.     *)
(* Branches::resize then maps the file at its current length and resizes   *)
(* the three global maps to one cell per u16.  Each run clears the table   *)
(* through the fuzzer's mapping (clear_trace), the child adds its hit      *)
(* counts, and has_new reads the table back through the same mapping.     *)
(*                                                                         *)
(* The executor (not in the sources) is modelled from spec section 4.4: a *)
(* timed-out run is retried up to TMOUT_SKIP times before it is judged, a *)
(* crash is deduplicated after has_new, and the forkserver is restarted    *)
(* between runs, which reruns the allocation in the new child.  File and   *)
(* mapping lengths are 0 or the full table: no other length is ever set.   *)
(***************************************************************************)
EXTENDS BranchMap

CONSTANTS
    TMOUT_SKIP,   \* config::TMOUT_SKIP
    MaxRestarts   \* bound on forkserver restarts

VARIABLES
    fileLen,    \* fileLen[w]: length in bytes of w's shared-memory file
    mapLen,     \* mapLen[w]: SharedMemory::mmap_size of w's Branches::trace
    table,      \* table[w]: the u16 counters of the file
    glen,       \* Trace::len of the global maps
    srv,        \* srv[w]: "none" before the forkserver is up, then "up"
    hpc,        \* hpc[w]: "new", "ready", "ran" (awaiting has_new), "dedup"
    runStatus,  \* runStatus[w]: the status of w's last run
    tries,      \* tries[w]: timed-out attempts of the current run
    lastRun,    \* lastRun[w]: the hit counts of w's last attempt
    restarts    \* forkserver restarts so far

tvars == <<fileLen, mapLen, table, glen, srv, hpc, runStatus, tries, lastRun, restarts>>

allVars == <<vars, tvars>>

Zero == [i \in Cells |-> 0]

\* alloc_size = size * nmemb: one u16 counter per edge.
TableBytes == 2 * Cardinality(Cells)

\* open_with_size: shm_open with O_TRUNC empties the file and ftruncate
\* extends it with zeros to size bytes.
open_with_size(size) == [len |-> size, counters |-> Zero]

\* BranchCountTable::new over the fuzzer's mapping: mmap_size / 2 entries,
\* none while nothing is mapped.
Visible(w) == IF mapLen[w] = TableBytes THEN table[w] ELSE Zero

\* clear_trace: memset of the mmap_size mapped bytes.
clear_trace(w) == IF mapLen[w] = TableBytes THEN Zero ELSE table[w]

\* Branches::resize: new_size = size >> 1.
NewSize(size) == size \div 2

\* Trace::resize(new_len) of every global map: Vec::resize keeps the cells
\* below the new length and fills the cells past the old one with 255; at
\* the two lengths the model has, a change of length leaves every cell
\* 255 and a resize to the same length keeps every cell.
trace_resize(new_len) ==
    IF new_len = glen THEN virgin ELSE [s \in MapStatus |-> [i \in Cells |-> 255]]

TableTypeOK ==
    /\ TypeOK
    /\ fileLen \in [Workers -> {0, TableBytes}]
    /\ mapLen \in [Workers -> {0, TableBytes}]
    /\ table \in [Workers -> [Cells -> 0..65535]]
    /\ glen \in 0..TableBytes
    /\ srv \in [Workers -> {"none", "up"}]
    /\ hpc \in [Workers -> {"new", "ready", "ran", "dedup"}]
    /\ runStatus \in [Workers -> MapStatus]
    /\ tries \in [Workers -> 0..TMOUT_SKIP]
    /\ lastRun \in [Workers -> [Cells -> 0..65535]]
    /\ restarts \in 0..MaxRestarts

\* After GlobalBranches::new and each worker's Branches::new: empty files,
\* nothing mapped, global maps of length 0.
TableInit ==
    /\ Init
    /\ fileLen = [w \in Workers |-> 0]
    /\ mapLen = [w \in Workers |-> 0]
    /\ table = [w \in Workers |-> Zero]
    /\ glen = 0
    /\ srv = [w \in Workers |-> "none"]
    /\ hpc = [w \in Workers |-> "new"]
    /\ runStatus = [w \in Workers |-> "Normal"]
    /\ tries = [w \in Workers |-> 0]
    /\ lastRun = [w \in Workers |-> Zero]
    /\ restarts = 0

(***************************************************************************)
(* Allocation, mapping and resize                                          *)
(***************************************************************************)

\* Forksrv::new: the child's runtime calls __alloc_branch_count_table
\* before it reports ready.
ForksrvStart(w) ==
    LET f == open_with_size(TableBytes) IN
    /\ srv[w] = "none"
    /\ srv' = [srv EXCEPT ![w] = "up"]
    /\ fileLen' = [fileLen EXCEPT ![w] = f.len]
    /\ table' = [table EXCEPT ![w] = f.counters]
    /\ UNCHANGED <<vars, mapLen, glen, hpc, runStatus, tries, lastRun, restarts>>

\* SharedMemory::resize: the new mmap_size, the file's length when it
\* differs from the mapping's (an mmap of 0 bytes would fail and unwrap
\* panic, which the order of the calls rules out).
shm_resize(w) == IF fileLen[w] # mapLen[w] THEN fileLen[w] ELSE mapLen[w]

\* Branches::resize after Forksrv::new: remap, then resize each global
\* map under its write lock.
Resize(w) ==
    LET size == shm_resize(w) IN
    /\ hpc[w] = "new"
    /\ srv[w] = "up"
    /\ mapLen' = [mapLen EXCEPT ![w] = size]
    /\ glen' = NewSize(size)
    /\ virgin' = trace_resize(NewSize(size))
    /\ hpc' = [hpc EXCEPT ![w] = "ready"]
    /\ UNCHANGED <<density, crashes, pc, status, toWrite, sig, observed, reports,
                   fileLen, table, srv, runStatus, tries, lastRun, restarts>>

\* A restart of the forkserver between runs (periodic, or after a dead
\* forkserver before the retry): the new child allocates the table again.
Restart(w) ==
    LET f == open_with_size(TableBytes) IN
    /\ hpc[w] = "ready"
    /\ restarts < MaxRestarts
    /\ restarts' = restarts + 1
    /\ fileLen' = [fileLen EXCEPT ![w] = f.len]
    /\ table' = [table EXCEPT ![w] = f.counters]
    /\ UNCHANGED <<vars, mapLen, glen, srv, hpc, runStatus, tries, lastRun>>

(***************************************************************************)
(* One run of the executor                                                 *)
(***************************************************************************)

\* run_target: clear_trace, then the child adds the hit counts t of the
\* attempt to the u16 counters.  A timed-out attempt is retried while
\* fewer than TMOUT_SKIP attempts have timed out.
Run(w, st, t) ==
    /\ pc[w] = "idle"
    /\ \/ hpc[w] = "ready" /\ tries' = [tries EXCEPT ![w] = 0]
       \/ /\ hpc[w] = "ran" /\ runStatus[w] = "Timeout"
          /\ tries[w] < TMOUT_SKIP
          /\ tries' = [tries EXCEPT ![w] = @ + 1]
    /\ table' = [table EXCEPT ![w] =
          LET c == clear_trace(w) IN [i \in Cells |-> (c[i] + t[i]) % 65536]]
    /\ runStatus' = [runStatus EXCEPT ![w] = st]
    /\ lastRun' = [lastRun EXCEPT ![w] = t]
    /\ hpc' = [hpc EXCEPT ![w] = "ran"]
    /\ UNCHANGED <<vars, fileLen, mapLen, glen, srv, restarts>>

\* The run is accepted (not a timeout, or the last retry) and has_new
\* reads the table through the fuzzer's mapping; a crash goes on to
\* dedup_crash.
Judge(w) ==
    /\ hpc[w] = "ran"
    /\ runStatus[w] # "Timeout" \/ tries[w] = TMOUT_SKIP
    /\ HasNewRead(w, runStatus[w], Visible(w))
    /\ hpc' = [hpc EXCEPT ![w] = IF runStatus[w] = "Crash" THEN "dedup" ELSE "ready"]
    /\ UNCHANGED <<fileLen, mapLen, table, glen, srv, runStatus, tries, lastRun, restarts>>

Dedup(w, x) ==
    /\ hpc[w] = "dedup"
    /\ DedupCheck(w, x)
    /\ hpc' = [hpc EXCEPT ![w] = "ready"]
    /\ UNCHANGED <<fileLen, mapLen, table, glen, srv, runStatus, tries, lastRun, restarts>>

TableNext ==
    \E w \in Workers :
        \/ ForksrvStart(w)
        \/ Resize(w)
        \/ Restart(w)
        \/ \E st \in MapStatus, t \in Traces : Run(w, st, t)
        \/ Judge(w)
        \/ HasNewWrite(w) /\ UNCHANGED tvars
        \/ \E x \in Sigs : Dedup(w, x)
        \/ DedupInsert(w) /\ UNCHANGED tvars

TableSpec == TableInit /\ [][TableNext]_allVars
====
