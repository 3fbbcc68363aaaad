------------------------------- MODULE Verdict -------------------------------
(***************************************************************************)
(* How one attempt is judged and what happens next: the pure part of layer *)
(* 4 (verify/verdict.js, verify/routing.js, and what verify/verifier.js    *)
(* hands them), under rules 6, the only ones a run is recorded with.       *)
(*                                                                         *)
(* A definition that precedes the one it resembles is a seeded fault.      *)
(***************************************************************************)
EXTENDS Naturals

CONSTANTS
  Criteria,   \* the contract's acceptance criteria
  Waive,      \* test_policy.preexisting_failures is "waive"
  None        \* no patch; no report

ASSUME VerdictAssumption == Waive \in BOOLEAN /\ Criteria # {}

FailedExecution == {"execution_error", "timeout", "cancelled", "oom", "infra_error", "setup_failed"}
NeverApproved == {"blocked", "unresolved"}
Verdicts == {"pass", "fail", "partial", "no-diff", "error", "unresolved"}

\* A criterion is met, not met, unknown, or unknown because evidence the judge needed is missing.
Met == {"met", "unmet", "unknown", "missing"}

\* The sandbox's test run. Failures that the base tree has too, the same way, are old.
TestRun == {"passing", "regressions", "old_failures", "unusable", "not_run"}
TestOutcomes == {"passed", "failed", "preexisting_failures", "error", "not_run"}
TestsOK == {"passed", "preexisting_failures"}

Classify(run, waive) ==
  CASE run = "passing" -> "passed"
    [] run = "regressions" -> "failed"
    [] run = "old_failures" -> IF waive THEN "preexisting_failures" ELSE "failed"
    [] run = "unusable" -> "error"
    [] run = "not_run" -> "not_run"

\* The captured change against the contract's scope and constraints.
PolicyFinding == {"clean", "violated", "out_of_scope", "undeclared"}
PolicyEffect(finding) ==
  IF finding = "clean" THEN "ok" ELSE IF finding = "violated" THEN "fail" ELSE "unresolved"

\* What aggregate() is given, and what the run record keeps to replay it.
Input == [status : FailedExecution \cup NeverApproved \cup {"dry_run", "no_change", "completed"},
          diff : BOOLEAN, criteria : [Criteria -> Met], tests : TestOutcomes,
          policy : {"ok", "fail", "unresolved"}, unsupported : BOOLEAN, approved : BOOLEAN]

Unmet(criteria) == {c \in Criteria : criteria[c] = "unmet"}
AllMet(criteria) == \A c \in Criteria : criteria[c] = "met"

\* The agent changed nothing: a pass needs the requirement to be verified as it stands.
NoChangeVerdict(in) ==
  IF Unmet(in.criteria) # {} \/ in.tests = "failed" THEN "fail"
  ELSE IF AllMet(in.criteria) /\ in.tests \in TestsOK THEN "pass" ELSE "unresolved"

CriteriaVerdict(in) ==
  IF ~in.diff THEN "no-diff"
  ELSE IF Unmet(in.criteria) # {} THEN "fail"
  ELSE IF AllMet(in.criteria) THEN "pass" ELSE "partial"

CaptureVerdict(in) ==
  IF in.unsupported /\ CriteriaVerdict(in) = "pass" THEN "unresolved" ELSE CriteriaVerdict(in)

\* Only classified, passing test evidence can approve.
FailuresOnly(in, v) == IF v \in {"pass", "partial"} /\ in.tests = "failed" THEN "fail" ELSE v
TestedVerdict(in, v) ==
  IF v \in {"pass", "partial"} /\ in.tests = "failed" THEN "fail"
  ELSE IF v = "pass" /\ in.tests \notin TestsOK THEN "unresolved" ELSE v

AggregateCore(in) ==
  IF in.status \in FailedExecution THEN "error"
  ELSE IF in.status \in NeverApproved THEN "unresolved"
  ELSE IF in.status = "dry_run" THEN "no-diff"
  ELSE IF in.status = "no_change" THEN NoChangeVerdict(in)
  ELSE TestedVerdict(in, CaptureVerdict(in))

ApplyPolicyAndOracle(in, v) ==
  IF in.policy = "fail" /\ v \in {"pass", "partial", "unresolved", "fail"} THEN "fail"
  ELSE IF v = "pass" /\ (in.policy = "unresolved" \/ ~in.approved) THEN "unresolved" ELSE v

\* A criterion left unknown for want of evidence is not a partial result.
Aggregate(in) ==
  LET v == AggregateCore(in)
      starved == v = "partial" /\ \E c \in Criteria : in.criteria[c] = "missing"
  IN  ApplyPolicyAndOracle(in, IF starved THEN "unresolved" ELSE v)

-----------------------------------------------------------------------------
(* The report of one attempt, and the input kept for its replay *)

\* One hint per failed criterion, policy finding and newly failing test that can be acted on.
Hints(ex, criteria) ==
  Unmet(criteria)
    \cup {h \in {"POLICY"} : ex.policy \in {"violated", "out_of_scope"}}
    \cup {h \in {"TEST"} : ex.tests = "regressions"}

VerifyInput(ex, criteria, approved) ==
  [status |-> ex.status, diff |-> ex.patch # None, criteria |-> criteria,
   tests |-> Classify(ex.tests, Waive), policy |-> PolicyEffect(ex.policy),
   unsupported |-> ex.unsupported, approved |-> approved]

\* `waived` is reported only with failing tests.
Report(ex, criteria, approved) ==
  [verdict |-> Aggregate(VerifyInput(ex, criteria, approved)),
   criteria |-> criteria, tests |-> Classify(ex.tests, Waive),
   waived |-> Waive /\ ex.tests \in {"regressions", "old_failures"},
   policy |-> PolicyEffect(ex.policy), approved |-> approved, hints |-> Hints(ex, criteria)]

InputUnderTheDefaultPolicy(report, ex) ==
  [status |-> ex.status, diff |-> ex.patch # None, criteria |-> report.criteria,
   tests |-> Classify(ex.tests, FALSE), policy |-> report.policy,
   unsupported |-> ex.unsupported, approved |-> report.approved]
InputFromReport(report, ex) ==
  [status |-> ex.status, diff |-> ex.patch # None, criteria |-> report.criteria,
   tests |-> Classify(ex.tests, report.waived), policy |-> report.policy,
   unsupported |-> ex.unsupported, approved |-> report.approved]

-----------------------------------------------------------------------------
(* What happens after the attempt *)

\* `previous` is the patch of the attempt before, whatever it was.
RouteWithoutProgress(report, patch, isRetry, previous) ==
  CASE report.verdict = "pass" -> "done"
    [] report.verdict = "error" \/ (report.verdict # "pass" /\ report.tests = "error") -> "environment"
    [] OTHER -> IF report.hints = {} THEN "stop" ELSE "repair"
RouteByHintsFirst(report, patch, isRetry, previous) ==
  IF report.verdict = "pass" THEN "done"
  ELSE IF report.hints = {} \/ (isRetry /\ patch = previous) THEN "stop" ELSE "repair"
RouteRepair(report, patch, isRetry, previous) ==
  IF report.verdict = "pass" THEN "done"
  ELSE IF report.verdict = "error" \/ report.tests = "error" THEN "environment"
  ELSE IF report.hints = {} \/ (isRetry /\ patch = previous) THEN "stop"
  ELSE "repair"
=============================================================================
