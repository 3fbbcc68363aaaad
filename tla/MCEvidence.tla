----------------------------- MODULE MCEvidence -----------------------------
(***************************************************************************)
(* An instance of Evidence: a criterion of each kind (one that preserves a *)
(* file and has a check as well), two tests in two files.                  *)
(***************************************************************************)
EXTENDS Evidence

CONSTANTS b, j, s, k1, k2, t1, t2

ThePreserved == [c \in Criteria |-> IF c = s THEN {"kept.js"} ELSE {}]
TheCheckOf == [k \in Check |-> IF k = k1 THEN b ELSE s]
TheFileOf == [t \in Test |-> IF t = t1 THEN "kept.js" ELSE "other.js"]
TheChanges == {{"in"}, {"in", "out"}, {"in", "guarded"}, {"in", "odd"}, {"in", "hook"}, {"in", "lost"}, {"lost"}}
TheContracts ==
  [waive : BOOLEAN, approved : {TRUE}, constraint : {k2}]
    \cup {[waive |-> TRUE, approved |-> FALSE, constraint |-> "allowed_changes"]}
TheHowOf ==
  [t \in Test |-> IF t = t1 THEN {"passed", "skipped", "failed"} ELSE {"passed", "failed", "failed_otherwise"}]

=============================================================================
