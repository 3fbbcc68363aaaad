------------------------------ MODULE Evidence ------------------------------
(***************************************************************************)
(* From what the sandbox saw of a candidate to the verdict on it           *)
(* (lib/sandbox/pipeline.js, stages 5 and 6; verify/tests.js,              *)
(* preservation.js, policy.js and verifier.js; verify/checks/results.js).  *)
(*                                                                         *)
(* The stages run one after another and each may fail; verify() then reads *)
(* what there is.  A test is a member of Test; its full identity and the   *)
(* way it fails are what the comparison with the base tree goes by.        *)
(*                                                                         *)
(* A definition that precedes the one it resembles is a seeded fault.      *)
(***************************************************************************)
EXTENDS Naturals, FiniteSets

CONSTANTS
  Criteria,    \* the acceptance criteria
  Judged,      \* those of kind non_behavioral with nothing to preserve
  Preserves,   \* the test files each criterion names; {}: it preserves nothing
  Check,       \* the executable checks
  CriterionOf, \* the criterion each check is bound to
  Test, FileOf,\* tests, and the file of each
  Allowed, Protected,   \* changed paths, as the contract's globs sort them
  NotPlain,    \* paths that the policy cannot reason about
  GitPaths,    \* captured paths with a .git component
  Unresolved,  \* what the capture came upon and could not represent
  Changes,     \* sets of paths a candidate may change
  Contracts,   \* the contracts: waiver of old failures, approval, the constraint's enforcement
  HowOf, Blurred, \* bounds: what a run may report of each test; the tests it may blur
  None

ASSUME EvidenceAssumption ==
  /\ Judged \subseteq Criteria
  /\ Preserves \in [Criteria -> SUBSET {FileOf[t] : t \in Test}]
  /\ \A c \in Judged : Preserves[c] = {}
  /\ CriterionOf \in [Check -> Criteria \ Judged]
  /\ HowOf \in [Test -> SUBSET {"passed", "skipped", "failed", "failed_otherwise"}]
  /\ Blurred \subseteq Test

V == INSTANCE Verdict WITH Waive <- FALSE

VARIABLES
  contract,   \* test_policy and the constraint's enforcement
  execution,  \* what the sandbox returns
  stage,      \* the sandbox stage that runs next
  report      \* verify()'s report

vars == <<contract, execution, stage, report>>

\* A run of the test command: `exit` is Docker's exit code, `how` what the report says of each
\* test, `unclear` the failing tests whose identity is missing or not unique in it.  A run that
\* was stopped has no exit code; "unreadable" is one without a usable report (none, malformed or
\* inconsistent, a file that did not load, cancelled tests, a missing executable).
NoRun == [fate |-> "not_run", exit |-> 0, how |-> [t \in Test |-> "skipped"], unclear |-> {}]
NoChecks == [usable |-> FALSE, status |-> [k \in Check |-> "error"]]

Failing(run) == {t \in Test : run.how[t] \in {"failed", "failed_otherwise"}}
Passing(run) == {t \in Test : run.how[t] = "passed"}

-----------------------------------------------------------------------------
(* verify/tests.js *)

\* baseFailures: the base run counts only if it finished, was read and agrees with its exit code.
Trusted(base) ==
  /\ base.fate = "reported"
  /\ base.exit = IF Failing(base) = {} THEN 0 ELSE 1

\* compareFailures: one failure on each side with this identity, and the same failure.
SameName(run, base, t) == t \in Failing(base)
SameFailure(run, base, t) ==
  /\ t \in Failing(base)
  /\ t \notin run.unclear \cup base.unclear
  /\ run.how[t] = base.how[t]
Regressions(run, base) ==
  {t \in Failing(run) : ~(Trusted(base) /\ SameFailure(run, base, t))}

ClassifyTestRun(run, base, waive) ==
  IF run.fate = "not_run" THEN "not_run"
  ELSE IF run.fate # "reported" THEN "error"
  ELSE IF Failing(run) # {}
       THEN IF run.exit = 0 THEN "error"
            ELSE IF Regressions(run, base) = {} /\ waive THEN "preexisting_failures" ELSE "failed"
  ELSE IF run.exit # 0 \/ Passing(run) = {} THEN "error"
  ELSE "passed"

Outcome(e) == ClassifyTestRun(e.run, e.base, contract.waive)

-----------------------------------------------------------------------------
(* The criteria *)

\* criterionFromChecks
ChecksOf(c) == {k \in Check : CriterionOf[k] = c}
NothingFailed(c, checks) ==
  IF ChecksOf(c) = {} THEN "unknown"
  ELSE IF checks.usable /\ \E k \in ChecksOf(c) : checks.status[k] = "fail" THEN "unmet"
  ELSE IF checks.usable /\ \E k \in ChecksOf(c) : checks.status[k] = "error" THEN "unknown" ELSE "met"
CriterionFromChecks(c, checks) ==
  IF ChecksOf(c) = {} \/ ~checks.usable THEN "unknown"
  ELSE IF \E k \in ChecksOf(c) : checks.status[k] = "fail" THEN "unmet"
  ELSE IF \A k \in ChecksOf(c) : checks.status[k] = "pass" THEN "met" ELSE "unknown"

\* decidePreservation: each named file ran, something in it passed and nothing failed.
FileHolds(f, run) ==
  /\ \E t \in Passing(run) : FileOf[t] = f
  /\ \A t \in Failing(run) : FileOf[t] # f
DecidedOnAnyRun(c, e) ==
  IF \A f \in Preserves[c] : FileHolds(f, e.run) THEN "met" ELSE "unmet"
DecidePreservation(c, e) ==
  IF Outcome(e) \notin {"passed", "failed", "preexisting_failures"} THEN "unknown"
  ELSE IF \A f \in Preserves[c] : FileHolds(f, e.run) THEN "met" ELSE "unmet"

PreservationResult(c, e) ==
  LET t == DecidePreservation(c, e)
      k == CriterionFromChecks(c, e.checks)
  IN IF ChecksOf(c) = {} THEN t
     ELSE IF "unmet" \in {t, k} THEN "unmet"
     ELSE IF {t, k} = {"met"} THEN "met" ELSE "unknown"

HasDiff(e) == e.changed \ Unresolved # {}

\* The judge is asked about a captured diff, or about the snapshot of an unchanged tree.
JudgeResult(c, e) ==
  IF (e.status = "completed" /\ HasDiff(e)) \/ (e.status = "no_change" /\ e.snapshot) THEN e.judged[c] ELSE "unknown"

CriterionResult(c, e) ==
  IF e.status \in V!FailedExecution THEN "unknown"
  ELSE IF c \in Judged THEN JudgeResult(c, e)
  ELSE IF Preserves[c] # {} THEN PreservationResult(c, e)
  ELSE CriterionFromChecks(c, e.checks)
CriteriaResults(e) == [c \in Criteria |-> CriterionResult(c, e)]

-----------------------------------------------------------------------------
(* verify/policy.js *)

\* What could not be captured counts as changed.
OutOfScope(changed) == (changed \ Protected) \cap (NotPlain \cup (changed \ Allowed))

\* One constraint, enforced by a check, by the protected paths or by the scope.
ConstraintStatus(e) ==
  LET by == contract.constraint
      holds(ok) == IF ok THEN "enforced" ELSE "violated"
  IN IF by = "undeclared" THEN "unresolved"
     ELSE IF by = "advisory" THEN "advisory"
     ELSE IF by = "protected_paths" THEN holds(e.changed \cap Protected = {})
     ELSE IF by = "allowed_changes" THEN holds(OutOfScope(e.changed) = {})
     ELSE IF ~e.checks.usable \/ e.checks.status[by] = "error" THEN "unresolved"
     ELSE holds(e.checks.status[by] = "pass")

EvaluatePolicy(e) ==
  IF e.changed \cap Protected # {} \/ ConstraintStatus(e) = "violated" THEN "fail"
  ELSE IF OutOfScope(e.changed) # {} \/ ConstraintStatus(e) = "unresolved" THEN "unresolved"
  ELSE "ok"

-----------------------------------------------------------------------------
(* verify() *)

UnsupportedChanges(e) == e.changed \cap (GitPaths \cup Unresolved)

VerdictOf(e) ==
  V!Aggregate([status |-> e.status, diff |-> HasDiff(e), criteria |-> CriteriaResults(e),
               tests |-> Outcome(e), policy |-> EvaluatePolicy(e),
               unsupported |-> UnsupportedChanges(e) # {}, approved |-> contract.approved])

Report(e) == [verdict |-> VerdictOf(e), criteria |-> CriteriaResults(e), tests |-> Outcome(e),
              policy |-> EvaluatePolicy(e)]

-----------------------------------------------------------------------------
(* The stages *)

Init ==
  /\ contract \in Contracts
  /\ \E status \in {"completed", "no_change", "execution_error"}, changed \in Changes \cup {{}} :
       /\ changed = {} <=> status # "completed"
       /\ execution = [status |-> status, changed |-> changed, run |-> NoRun, base |-> NoRun,
                       checks |-> NoChecks, snapshot |-> FALSE,
                       judged |-> [c \in Judged |-> "unknown"]]
       /\ stage = IF status = "execution_error" THEN "report"
                  ELSE IF changed \cap Unresolved # {} THEN "judge" ELSE "verify"
  /\ report = None

\* The exit code and the report need not agree.
TestRuns(exits) ==
  {[NoRun EXCEPT !.fate = "stopped"], [NoRun EXCEPT !.fate = "unreadable", !.exit = 1]}
    \cup {r \in [fate : {"reported"}, exit : exits, unclear : SUBSET Blurred,
                how : {h \in [Test -> UNION {HowOf[t] : t \in Test}] : \A t \in Test : h[t] \in HowOf[t]}] :
            r.unclear \subseteq Failing(r)}

\* Stage 5, and the same command on the base tree when it exited nonzero.  The test plan may
\* have been refused.  Of the candidate's exit code it only matters whether it is zero.
Verify ==
  /\ stage = "verify"
  /\ \E run \in TestRuns({0, 1}) \cup {NoRun} :
       /\ execution' = [execution EXCEPT !.run = run]
       /\ stage' = IF run.fate \notin {"not_run", "stopped"} /\ run.exit # 0 THEN "verify-base" ELSE "checks"
  /\ UNCHANGED <<contract, report>>

VerifyBase ==
  /\ stage = "verify-base"
  /\ \E base \in TestRuns({0, 1, 2}) : execution' = [execution EXCEPT !.base = base]
  /\ stage' = "checks"
  /\ UNCHANGED <<contract, report>>

\* Stage 6.  Results that are incomplete, of another tree or of another check set are unusable.
RunChecks ==
  /\ stage = "checks"
  /\ \/ UNCHANGED execution
     \/ \E status \in [Check -> {"pass", "fail", "error"}] :
          execution' = [execution EXCEPT !.checks = [usable |-> TRUE, status |-> status]]
  /\ stage' = "snapshot"
  /\ UNCHANGED <<contract, report>>

\* The unchanged files; for a change, what the judge is not shown it reports as missing.
Snapshot ==
  /\ stage = "snapshot"
  /\ \E ok \in BOOLEAN :
       /\ ok => execution.status = "no_change"
       /\ execution' = [execution EXCEPT !.snapshot = ok]
  /\ stage' = "judge"
  /\ UNCHANGED <<contract, report>>

\* verify() asks the judge; a split vote counts like missing evidence here.
Judge ==
  /\ stage = "judge"
  /\ \E j \in [Judged -> {"met", "unmet", "missing"}] : execution' = [execution EXCEPT !.judged = j]
  /\ stage' = "report"
  /\ UNCHANGED <<contract, report>>

MakeReport ==
  /\ stage = "report"
  /\ report' = Report(execution)
  /\ stage' = "done"
  /\ UNCHANGED <<contract, execution>>

Next == Verify \/ VerifyBase \/ RunChecks \/ Snapshot \/ Judge \/ MakeReport

Spec == Init /\ [][Next]_vars

-----------------------------------------------------------------------------
(* Properties *)

Reported == stage = "done"

\* A pass rests on its own evidence: every criterion on the kind of evidence that may decide it,
\* every failing test on the same failure of the base tree and the contract's waiver, the
\* change, captured in full, on the approved scope (verify/verifier.js QB-09, QB-10, QB-15, QB-16).
PassIsBacked ==
  Reported /\ report.verdict = "pass" =>
    LET e == execution IN
    /\ contract.approved
    /\ e.run.fate = "reported"
    /\ Passing(e.run) \cup Failing(e.run) # {}
    /\ \A t \in Failing(e.run) :
         /\ contract.waive
         /\ e.base.fate = "reported" /\ e.base.exit = 1
         /\ e.base.how[t] = e.run.how[t]
         /\ \A f \in UNION {Preserves[c] : c \in Criteria} : FileOf[t] # f
    /\ \A k \in Check : e.checks.usable /\ e.checks.status[k] = "pass"
    /\ \A c \in Criteria :
         \/ ChecksOf(c) # {}
         \/ c \in Judged /\ e.judged[c] = "met"
         \/ Preserves[c] # {}
    /\ e.changed \subseteq Allowed \ (Protected \cup NotPlain \cup GitPaths \cup Unresolved)

\* A criterion is called unmet, and the agent sent to repair it, only on evidence that it is:
\* a check that failed, a named test that failed or never ran in a run that can be trusted, or
\* a judge that saw enough.  A broken run blames nobody ("null is never proof").
BlameIsBacked ==
  Reported =>
    \A c \in Criteria : report.criteria[c] = "unmet" =>
      \/ c \in Judged /\ execution.judged[c] = "unmet"
      \/ \E k \in ChecksOf(c) : execution.checks.usable /\ execution.checks.status[k] = "fail"
      \/ /\ execution.run.fate = "reported"
         /\ execution.run.exit = 0 <=> Failing(execution.run) = {}
         /\ \E f \in Preserves[c] : ~FileHolds(f, execution.run)

\* What a stage that failed would have left of this execution.
Degraded(e) ==
  {[e EXCEPT !.run = NoRun], [e EXCEPT !.run.fate = "stopped", !.base = NoRun],
   [e EXCEPT !.base = NoRun], [e EXCEPT !.checks = NoChecks],
   [e EXCEPT !.snapshot = FALSE, !.judged = [c \in Judged |-> "unknown"]]}

\* Losing evidence never helps: where one of the stages had failed, no criterion would have been
\* decided the other way and no verdict would have become a pass.
LossNeverHelps ==
  Reported =>
    \A e \in Degraded(execution) :
      /\ \A c \in Criteria : CriterionResult(c, e) \in {report.criteria[c], "unknown"}
      /\ VerdictOf(e) = "pass" => report.verdict = "pass"

=============================================================================
