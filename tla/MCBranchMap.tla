---------------------------- MODULE MCBranchMap -----------------------------
(***************************************************************************)
(* BranchMap for TLC: two edges, hit counts that fall in distinct buckets *)
(* (including one above 255), two crash signatures.                      *)
(***************************************************************************)
EXTENDS BranchMap, TLC

CONSTANTS w1, w2, e1, e2, x1, x2

OneWorker == {w1}
TwoWorkers == {w1, w2}
MCCells == {e1, e2}
MCSigs == {x1, x2}

\* Three runs: the first two set different buckets of e1, the second hits
\* e2 256 times (clamped to 255), the third hits e2 once.
MCTraces == {(e1 :> 1 @@ e2 :> 0), (e1 :> 2 @@ e2 :> 256), (e1 :> 0 @@ e2 :> 1)}
=============================================================================
