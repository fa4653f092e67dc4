------------------------------ MODULE MCAflFuzz ------------------------------
(***************************************************************************)
(* AflFuzz for TLC: one-bit bytes, MAX_INPUT_LEN of 4, and seeds of one,   *)
(* two and three bytes, so that havoc both deletes down to one byte (where *)
(* random_block_len clamps its range) and clones up to the length cap.     *)
(***************************************************************************)
EXTENDS AflFuzz

\* get_interesting_bytes(n): zero and all ones of the window.
MCInteresting(n) == {0, 2^(ByteBits * n) - 1}

\* A seed too short to splice, and two that differ in two places.
MCSeeds == {<<1>>, <<0, 1>>, <<1, 1, 0>>}

MCInputs == {<<1>>, <<1, 0>>, <<0, 0, 1>>}

\* A seed longer than MAX_INPUT_LEN.
MCLongSeeds == {<<1, 0, 1, 1, 0>>}
=============================================================================
