------------------------------- MODULE Depot --------------------------------
(***************************************************************************)
(* What the Depot promises the fuzz loops (spec section 4.3), without      *)
(* priorities: a pool of the conditions that still have work, from which   *)
(* a worker takes one at a time, so that no condition is worked on by two  *)
(* workers at once, and to which a worker gives it back unless it was      *)
(* solved or its budget is spent.  A worker leaves when the fuzzer is      *)
(* stopped or when it finds the pool empty.                                *)
(***************************************************************************)
CONSTANTS
    Workers,   \* the fuzzing threads
    Conds,     \* the conditions that can be reported
    None       \* a worker holding no condition

VARIABLES
    running,    \* the fuzzer has not been stopped
    seen,       \* conditions reported so far
    available,  \* conditions with work left that no worker holds
    solved,     \* conditions solved (DONE)
    taken,      \* taken[w]: the condition w works on, or None
    left        \* workers that have left their loop

vars == <<running, seen, available, solved, taken, left>>

Init ==
    /\ running = TRUE
    /\ seen \subseteq Conds
    /\ solved \subseteq seen
    /\ available = seen \ solved
    /\ taken = [w \in Workers |-> None]
    /\ left = {}

\* A worker takes a condition with work left.
Take(w, c) ==
    /\ running
    /\ w \notin left /\ taken[w] = None
    /\ c \in available
    /\ available' = available \ {c}
    /\ taken' = [taken EXCEPT ![w] = c]
    /\ UNCHANGED <<running, seen, solved, left>>

\* A worker gives its condition back: solved, spent, or to the pool.
Give(w) ==
    LET c == taken[w] IN
    /\ c # None
    /\ \/ solved' = solved \cup {c} /\ UNCHANGED available
       \/ available' = available \cup {c} /\ UNCHANGED solved
       \/ UNCHANGED <<available, solved>>
    /\ taken' = [taken EXCEPT ![w] = None]
    /\ UNCHANGED <<running, seen, left>>

\* A new condition is reported, with work left or already solved.
Report(c) ==
    /\ c \notin seen
    /\ seen' = seen \cup {c}
    /\ \/ available' = available \cup {c} /\ UNCHANGED solved
       \/ solved' = solved \cup {c} /\ UNCHANGED available
    /\ UNCHANGED <<running, taken, left>>

\* A worker that holds nothing leaves when stopped or when the pool is empty.
Leave(w) ==
    /\ w \notin left /\ taken[w] = None
    /\ ~running \/ available = {}
    /\ left' = left \cup {w}
    /\ UNCHANGED <<running, seen, available, solved, taken>>

Halt ==
    /\ running
    /\ running' = FALSE
    /\ UNCHANGED <<seen, available, solved, taken, left>>

Next ==
    \/ \E w \in Workers : Give(w) \/ Leave(w) \/ \E c \in Conds : Take(w, c)
    \/ \E c \in Conds : Report(c)
    \/ Halt

Spec == Init /\ [][Next]_vars
====
