--------------------------- MODULE MCRuntimeHooks ---------------------------
(***************************************************************************)
(* RuntimeHooks for TLC with a byte of 3 bits: u64 is 24 bits, u32 is 12,  *)
(* and operands of 1, 2, 4 and 8 bytes are 3, 6, 12 and 24 bits, so every *)
(* size the hooks distinguish fits TLC's integers with its bounds intact.  *)
(***************************************************************************)
EXTENDS RuntimeHooks

MCSizes == {1, 2, 4, 8}

\* 0, 1, the signed and unsigned bounds of n bits, and the bounds the hooks
\* compare with: 2^size - 1 and 2^size (mem_upper), u32::MAX - 1 .. u32::MAX + 1.
Boundary(z) ==
    LET n == 3 * z
    IN {0, 1, 2^(n - 1) - 1, 2^(n - 1), 2^n - 1}
       \cup ({2^z - 1, 2^z} \cap 0..(2^n - 1))
       \cup (IF z = 8 THEN {2^12 - 2, 2^12 - 1, 2^12} ELSE {})

MCVals == [z \in MCSizes |-> Boundary(z)]

\* Results of an arithmetic op at bit_size b: in range, just past each
\* bound, and far past it (the i64 and u64 results of the widened op).
MCSResults == [z \in MCSizes |->
    LET b == IF z = 8 THEN 12 ELSE 3 * z
    IN {-2^(b - 1) - 1, -2^(b - 1), 0, 2^(b - 1) - 1, 2^(b - 1), 2^b + 2^(b - 1)}]
MCUResults == [z \in MCSizes |->
    LET b == IF z = 8 THEN 12 ELSE 3 * z
    IN {0, 2^b - 1, 2^b, 2^24 - 1}]

Site(h, z, p) == [hook |-> h, size |-> z, pred |-> p, expid |-> 0]

\* Comparisons of each signedness, and the division and memory-argument
\* probes at every size.
MCSites ==
    {Site("cmp", 1, "EQ"), Site("cmp", 2, "SLT"), Site("cmp", 4, "UGE")}
    \cup {Site(h, z, "EQ") : h \in {"div", "mem"}, z \in MCSizes}

\* The integer-overflow probes.
MCIntflowSites == {Site("intflow", z, "EQ") : z \in MCSizes}

\* The memory-argument probes at 4 and 8 bytes.
MCMemSites == {Site("mem", 4, "EQ"), Site("mem", 8, "EQ")}
====
