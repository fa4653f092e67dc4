---------------------------- MODULE MCFuzzLoop -----------------------------
(***************************************************************************)
(* FuzzLoop for TLC: two worker threads, four conditions, one of each     *)
(* kind of op plus a switch case the tracker logs already DONE.           *)
(***************************************************************************)
EXTENDS FuzzLoop

CONSTANTS w1, w2, c1, c2, c3, c4

MCWorkers == {w1, w2}
MCConds == {c1, c2, c3, c4}

\* c1 an explore comparison, c2 the AFL entry of a seed, c3 an exploit
\* check, c4 a switch case.
MCOp == [c \in MCConds |->
            CASE c = c2 -> "afl" [] c = c3 -> "exploit" [] OTHER -> "explore"]

\* The seeds' tracking runs report c1 and c2; c3 and c4 are found later.
MCInitConds == {c1, c2}
MCBornDone == {c4}
=============================================================================
