---------------------------- MODULE MCMutInput -----------------------------
(***************************************************************************)
(* A three-byte seed with bytes at the unsigned and signed cliffs, and     *)
(* offset lists that give a u16 and an i8, an i8 and a u16, and a u16      *)
(* whose second extent runs past the end of the input.                     *)
(***************************************************************************)
EXTENDS MutInput

MCInputs == {<<255, 127, 128>>}

Tag(b, e, s) == [begin |-> b, end |-> e, sign |-> s]

MCTags ==
    { <<Tag(0, 2, FALSE), Tag(2, 3, TRUE)>>,
      <<Tag(0, 1, TRUE), Tag(1, 3, TRUE)>>,
      <<Tag(1, 1, FALSE), Tag(2, 4, FALSE)>> }

\* A three-byte extent (a 24-bit field, or three bytes of a string).
MCTagsOdd == {<<Tag(0, 3, FALSE)>>}
\* add_nth_ steps, and set_nth_ targets in halves: -1.5, 0.5, 255.5, 35000.
MCSteps == {1, -2}
MCTargets == {-3, 1, 511, 70000}
\* Per-byte gradients of either sign and three magnitudes: a byte that
\* does not matter, a low byte and a byte one place more significant.
MCGradVals == {-256, -1, 0, 1, 256}
====
