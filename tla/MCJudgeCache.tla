---------------------------- MODULE MCJudgeCache ----------------------------
(***************************************************************************)
(* An instance of JudgeCache: three processes of one machine, and one of   *)
(* another that may have died over the evidence before.                    *)
(***************************************************************************)
EXTENDS JudgeCache, TLC

CONSTANTS p0, p1, p2, p3

TwoHosts == [p \in Proc |-> IF p = p3 THEN "other" ELSE "here"]
Symmetry == Permutations({p1, p2})

=============================================================================
