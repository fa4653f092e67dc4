--------------------------- MODULE MCBranchTable ----------------------------
(***************************************************************************)
(* BranchTable for TLC: the edges, traces and signatures of MCBranchMap,  *)
(* with one worker and its forkserver child.                               *)
(***************************************************************************)
EXTENDS BranchTable, TLC

CONSTANTS w1, e1, e2, x1, x2

OneWorker == {w1}
MCCells == {e1, e2}
MCSigs == {x1, x2}

\* The runs of MCBranchMap: two set different buckets of e1, one hits e2
\* 256 times (clamped to 255), one hits e2 once.
MCTraces == {(e1 :> 1 @@ e2 :> 0), (e1 :> 2 @@ e2 :> 256), (e1 :> 0 @@ e2 :> 1)}
=============================================================================
