----------------------------- MODULE FuzzLoop ------------------------------
(***************************************************************************)
(* Worker threads running fuzz_loop (fuzzer/src/fuzz_loop.rs) over the     *)
(* shared Depot, ordered by QPriority.                                     *)
(*                                                                         *)
(* Each worker repeatedly pulls the condition of smallest priority from   *)
(* the Depot (get_entry), skips it if it is already DONE, otherwise runs  *)
(* a search strategy on it, and writes it back (update_entry).  While a    *)
(* strategy runs, its executions may find new coverage, whose tracking     *)
(* run adds new conditions to the Depot.  The Depot (depot/mod.rs) is not  *)
(* part of the sources at hand: get_entry, update_entry and add follow     *)
(* spec section 4.3.  The strategy itself is abstracted to its outcome:   *)
(* the condition is solved (marked DONE) or not; AFL entries are never    *)
(* solved.                                                                *)
(***************************************************************************)
EXTENDS Naturals, FiniteSets, QPriority

CONSTANTS
    Workers,      \* the fuzzing threads
    Conds,        \* every condition the tracking runs can report
    Op,           \* Op[c]: the kind of c's op, one of Ops
    InitConds,    \* conditions added from the seeds before the loops start
    BornDone,     \* conditions the tracker logs already DONE (switch cases)
    NoCond        \* a worker holding no condition

ASSUME Op \in [Conds -> Ops]
ASSUME InitConds \subseteq Conds /\ BornDone \subseteq Conds
ASSUME NoCond \notin Conds

VARIABLES
    running,  \* the shared AtomicBool polled at the top of the loop
    known,    \* conditions the Depot has a CondStmt for
    queued,   \* conditions currently in the Depot's priority queue
    prio,     \* prio[c]: the QPriority the Depot keeps for c
    done,     \* done[c]: c.base.condition = COND_DONE_ST
    pc,       \* pc[w]: "pull" (top of the loop), "fuzz", or "exited"
    held      \* held[w]: the condition w took from the Depot, or NoCond

vars == <<running, known, queued, prio, done, pc, held>>

TypeOK ==
    /\ running \in BOOLEAN
    /\ known \subseteq Conds
    /\ queued \subseteq known
    /\ prio \in [Conds -> Priorities]
    /\ done \in [Conds -> BOOLEAN]
    /\ pc \in [Workers -> {"pull", "fuzz", "exited"}]
    /\ held \in [Workers -> Conds \cup {NoCond}]

(***************************************************************************)
(* Depot operations (spec section 4.3).                                   *)
(***************************************************************************)

\* Mutant of MinQueued: Ord for QPriority without the reversal, so the
\* BinaryHeap hands out the largest priority first.
MaxFirstQueued == {c \in queued : \A d \in queued : prio[c] >= prio[d]}

\* The conditions get_entry may return: those of smallest priority (the
\* Ord of QPriority is reversed for the max-first BinaryHeap).
MinQueued == {c \in queued : \A d \in queued : prio[c] <= prio[d]}

\* get_entry returns None: the queue is empty or its minimum is DONE.
NoEntry == queued = {} \/ \E c \in MinQueued : is_done(prio[c])

\* Mutant of get_entry: peek at the minimum without popping it.
get_entry_peek(c) ==
    /\ c \in MinQueued
    /\ ~is_done(prio[c])
    /\ UNCHANGED queued

\* Mutant of get_entry: the DONE-priority check left out.
get_entry_anyprio(c) ==
    /\ c \in MinQueued
    /\ queued' = queued \ {c}

\* get_entry pops c: it has the smallest priority, and that is not DONE.
get_entry(c) ==
    /\ c \in MinQueued
    /\ ~is_done(prio[c])
    /\ queued' = queued \ {c}

\* update_entry writes c back: a DONE condition is dropped (its CondStmt
\* stays known); any other is reinserted with its priority increased.
update_entry(c, isDone) ==
    IF isDone
    THEN UNCHANGED <<queued, prio>>
    ELSE /\ queued' = queued \cup {c}
         /\ prio' = [prio EXCEPT ![c] = inc(prio[c], Op[c])]

\* Mutant of add: the CondStmt is queued but not recorded by CondId.
add_unindexed(c) ==
    /\ c \notin known
    /\ UNCHANGED known
    /\ queued' = queued \cup {c}
    /\ prio' = [prio EXCEPT ![c] = init(Op[c])]
    /\ done' = [done EXCEPT ![c] = c \in BornDone]

\* add: a condition seen for the first time becomes a CondStmt with
\* priority init(op); one already known only merges its offsets.
add(c) ==
    /\ c \notin known
    /\ known' = known \cup {c}
    /\ queued' = queued \cup {c}
    /\ prio' = [prio EXCEPT ![c] = init(Op[c])]
    /\ done' = [done EXCEPT ![c] = c \in BornDone]

(***************************************************************************)
(* The fuzz loop of one worker.                                            *)
(***************************************************************************)

Init ==
    /\ running = TRUE
    /\ known = InitConds
    /\ queued = InitConds
    /\ prio = [c \in Conds |-> init(Op[c])]
    /\ done = [c \in Conds |-> c \in BornDone]
    /\ pc = [w \in Workers |-> "pull"]
    /\ held = [w \in Workers |-> NoCond]

\* Top of the loop: leave it when `running` is cleared, when get_entry
\* returns None or a DONE priority; write back a condition that is already
\* DONE; otherwise take the condition to fuzz it.
Pull(w) ==
    /\ pc[w] = "pull"
    /\ \/ /\ ~running \/ NoEntry
          /\ pc' = [pc EXCEPT ![w] = "exited"]
          /\ UNCHANGED <<queued, prio, held>>
       \/ /\ running
          /\ \E c \in Conds :
                /\ get_entry(c)
                /\ UNCHANGED prio
                \* A DONE condition is written back, which drops it.
                /\ IF done[c]
                   THEN UNCHANGED <<pc, held>>
                   ELSE /\ pc' = [pc EXCEPT ![w] = "fuzz"]
                        /\ held' = [held EXCEPT ![w] = c]
    /\ UNCHANGED <<running, known, done>>

\* An execution of w's strategy finds new coverage; the tracking run
\* reports a condition that the Depot adds.
Discover(w) ==
    /\ pc[w] = "fuzz"
    /\ \E c \in Conds : add(c)
    /\ UNCHANGED <<running, pc, held>>

\* The strategy returns, having solved the condition or not (AFLFuzz never
\* marks its entry DONE), and the loop writes the condition back.
Finish(w) ==
    LET c == held[w] IN
    /\ pc[w] = "fuzz"
    /\ \E solved \in (IF Op[c] = "afl" THEN {FALSE} ELSE BOOLEAN) :
          /\ done' = [done EXCEPT ![c] = solved]
          /\ update_entry(c, solved)
    /\ pc' = [pc EXCEPT ![w] = "pull"]
    /\ held' = [held EXCEPT ![w] = NoCond]
    /\ UNCHANGED <<running, known>>

\* SIGINT: the handler clears `running`.
Stop ==
    /\ running
    /\ running' = FALSE
    /\ UNCHANGED <<known, queued, prio, done, pc, held>>

Next ==
    \/ \E w \in Workers : Pull(w) \/ Discover(w) \/ Finish(w)
    \/ Stop

\* Each thread keeps running its loop while it can; nothing forces a
\* discovery or a SIGINT.
Fairness == \A w \in Workers : WF_vars(Pull(w)) /\ WF_vars(Finish(w))

Spec == Init /\ [][Next]_vars /\ Fairness

(***************************************************************************)
(* Properties.                                                             *)
(***************************************************************************)

\* A condition is live while the fuzz loop still has work to do on it.
Live(c) == c \in known /\ ~done[c] /\ ~is_done(prio[c])

\* The class the spec gives each kind of op: 3k explore, 3k+1 AFL, 3k+2
\* exploit.
SpecClass(op) ==
    CASE op = "afl" -> 1 [] op = "exploit" -> 2 [] OTHER -> 0

\* Spec scenario S6 (pop-then-reinsert): no condition is fuzzed by two
\* workers at once, and a condition being fuzzed is not in the queue.
ExclusiveOwnership ==
    \A w \in Workers : held[w] # NoCond =>
        /\ held[w] \notin queued
        /\ \A v \in Workers \ {w} : held[v] # held[w]

\* QPriority's partition: every priority short of DONE stays in the residue
\* class of its condition's op, however often inc has run on it.
PriorityClass ==
    \A c \in known : ~is_done(prio[c]) => prio[c] % 3 = SpecClass(Op[c])

\* Round-robin over priorities: a live condition in the queue is eventually
\* taken by some worker, unless the fuzzer is stopped.
NoStarvation ==
    \A c \in Conds :
        (c \in queued /\ Live(c)) ~> (~running \/ \E w \in Workers : held[w] = c)

\* fuzz_loop breaks out of its loop for good on None from get_entry.  While
\* the fuzzer runs, a worker should leave only when no live condition is
\* left, neither queued nor held by another worker.
NoPrematureExit ==
    \A w \in Workers :
        pc[w] = "exited" /\ running => \A c \in known : ~Live(c)

\* The conditions the Depot still has work for: queued, not DONE, and
\* short of the DONE priority.
Pending == {c \in queued : ~done[c] /\ ~is_done(prio[c])}

AbstractDepot == INSTANCE Depot WITH
    None <- NoCond, seen <- known, available <- Pending,
    solved <- {c \in known : done[c]}, taken <- held,
    left <- {w \in Workers : pc[w] = "exited"}

\* The fuzz loops over the Depot implement the Depot's promise: the
\* priority queue, get_entry's DONE checks, update_entry's drop and add's
\* merge hand each condition with work left to one worker at a time, give
\* it back unless solved or spent, and let a worker leave only when
\* stopped or when nothing is left to take.
DepotRefined == AbstractDepot!Spec

\* With a finite max_priority every worker eventually leaves its loop.
Termination == <>(\A w \in Workers : pc[w] = "exited")
=============================================================================
