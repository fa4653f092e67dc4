-------------------------- MODULE MCGradientSearch --------------------------
(***************************************************************************)
(* GradientSearch for TLC: small programs that compare one input byte.    *)
(*   eq      if (b == 100)                    linear objective, exact      *)
(*   ugt     if (b >= 40) { if (b > 200) }    unreachable below 40         *)
(*   sle     if ((int8_t)b <= -50)            signed compare, the segment  *)
(*                                            read unsigned: a cliff at 128*)
(*   ne      if (b >= 5) { if (b != 7) }      a one-point objective        *)
(*   quarter if (b / 4 == 40)                 plateaus of width 4          *)
(*   top     if (b == 255)                    solved by the last byte only *)
(***************************************************************************)
EXTENDS GradientSearch

\* A condition record as CondStmtBase holds it, arg1 filled per run.
CondRec(pred, sign, arg2) ==
    [kind |-> "explore", pred |-> pred, sign |-> sign, condition |-> "FALSE",
     size |-> 1, arg1 |-> 0, arg2 |-> arg2]

MCCondOf(p) ==
    CASE p = "eq"  -> CondRec("EQ", FALSE, 100)
      [] p = "ugt" -> CondRec("UGT", FALSE, 200)
      [] p = "sle" -> CondRec("SLE", TRUE, 206)
      [] p = "ne"  -> CondRec("NE", FALSE, 7)
      [] p = "quarter" -> CondRec("EQ", FALSE, 40)
      [] p = "top" -> CondRec("EQ", FALSE, 255)

MCArg1(p, b) == IF p = "quarter" THEN b \div 4 ELSE b

MCReach(p, b) ==
    CASE p = "ugt" -> b >= 40
      [] p = "ne"  -> b >= 5
      [] OTHER     -> TRUE

\* Snapshots of cond.variables: none, and one magic byte.
MCVarSets == {<<>>, <<90>>}

\* A two-byte snapshot whose first byte improves f and whose reverse does
\* not.
MCVarSetsStale == {<<120, 200>>}
=============================================================================
