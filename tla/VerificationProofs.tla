------------------------- MODULE VerificationProofs -------------------------
(***************************************************************************)
(* What a verdict rests on: the evidence, for any contract, any tests and  *)
(* checks, and whatever the stages of the sandbox leave behind; and the    *)
(* judge's decision, for any number of processes, machines and votes that  *)
(* share the judge cache.                                                  *)
(***************************************************************************)
EXTENDS Evidence, JudgeCache, TLAPS

-----------------------------------------------------------------------------
(* The operators *)

\* aggregate() passes only what it was shown in full and found good.
LEMMA PassMeans ==
  ASSUME NEW e, VerdictOf(e) = "pass"
  PROVE  /\ e.status \notin V!FailedExecution
         /\ \A c \in Criteria : CriterionResult(c, e) = "met"
         /\ Outcome(e) \in {"passed", "preexisting_failures"}
         /\ EvaluatePolicy(e) = "ok"
         /\ contract.approved
         /\ e.status = "completed" => UnsupportedChanges(e) = {}
<1> DEFINE in == [status |-> e.status, diff |-> HasDiff(e), criteria |-> CriteriaResults(e),
                  tests |-> Outcome(e), policy |-> EvaluatePolicy(e),
                  unsupported |-> UnsupportedChanges(e) # {}, approved |-> contract.approved]
<1>1. V!Aggregate(in) = "pass"
  BY DEF VerdictOf
<1>2. EvaluatePolicy(e) \in {"ok", "fail", "unresolved"}
  BY DEF EvaluatePolicy
<1>3. in.policy = "ok" /\ in.approved /\ V!AggregateCore(in) = "pass"
  BY <1>1, <1>2 DEF V!Aggregate, V!ApplyPolicyAndOracle
<1>4. /\ in.status \notin V!FailedExecution
      /\ V!AllMet(in.criteria)
      /\ in.tests \in V!TestsOK
  BY <1>3 DEF V!AggregateCore, V!NoChangeVerdict, V!TestedVerdict, V!CaptureVerdict, V!CriteriaVerdict
<1>5. \A c \in Criteria : CriterionResult(c, e) = "met"
  BY <1>4 DEF V!AllMet, CriteriaResults
<1>6. in.status = "completed" => ~in.unsupported
  BY <1>3 DEF V!AggregateCore, V!TestedVerdict, V!CaptureVerdict, V!FailedExecution, V!NeverApproved
<1> QED BY <1>3, <1>4, <1>5, <1>6 DEF V!TestsOK

\* A run that may approve was read, ran something, and failed only as the base tree fails.
LEMMA GoodTests ==
  ASSUME NEW e, Outcome(e) \in {"passed", "preexisting_failures"}
  PROVE  /\ e.run.fate = "reported"
         /\ Passing(e.run) \cup Failing(e.run) # {}
         /\ Outcome(e) = "passed" => Failing(e.run) = {}
         /\ \A t \in Failing(e.run) :
              /\ contract.waive
              /\ e.base.fate = "reported" /\ e.base.exit = 1
              /\ e.base.how[t] = e.run.how[t]
<1>1. /\ e.run.fate = "reported"
      /\ Passing(e.run) \cup Failing(e.run) # {}
      /\ Outcome(e) = "passed" => Failing(e.run) = {}
  BY DEF Outcome, ClassifyTestRun
<1>2. ASSUME NEW t \in Failing(e.run)
      PROVE  contract.waive /\ Trusted(e.base) /\ SameFailure(e.run, e.base, t)
  BY <1>2 DEF Outcome, ClassifyTestRun, Regressions
<1>3. \A t \in Failing(e.run) : e.base.fate = "reported" /\ e.base.exit = 1 /\ e.base.how[t] = e.run.how[t]
  BY <1>2 DEF Trusted, SameFailure
<1> QED BY <1>1, <1>2, <1>3

\* aggregate() sees an execution through these six things.
LEMMA SameVerdict ==
  ASSUME NEW d, NEW e,
         d.status = e.status, d.changed = e.changed,
         \A c \in Criteria : CriterionResult(c, d) = CriterionResult(c, e),
         Outcome(d) = Outcome(e), EvaluatePolicy(d) = EvaluatePolicy(e)
  PROVE  VerdictOf(d) = VerdictOf(e)
<1>1. CriteriaResults(d) = CriteriaResults(e)
  BY DEF CriteriaResults
<1> QED BY <1>1 DEF VerdictOf, HasDiff, UnsupportedChanges

-----------------------------------------------------------------------------
(* What the report was made from *)

\* The stages' results, as far as their shape goes.
TestRun == [fate : {"not_run", "stopped", "unreadable", "reported"}, exit : {0, 1, 2},
            how : [Test -> {"passed", "skipped", "failed", "failed_otherwise"}], unclear : SUBSET Test]
Execution == [status : {"completed", "no_change", "execution_error"}, changed : Changes \cup {{}},
              run : TestRun, base : TestRun,
              checks : [usable : BOOLEAN, status : [Check -> {"pass", "fail", "error"}]],
              snapshot : BOOLEAN, judged : [Judged -> {"met", "unmet", "missing", "unknown"}]]

\* Nothing that the report was made from changes once it is made.
ReportInv ==
  /\ execution \in Execution
  /\ execution.changed # {} => execution.status = "completed"
  /\ Reported => report = Report(execution)

LEMMA NoRunIsARun == NoRun \in TestRun
BY DEF NoRun, TestRun

LEMMA RunsAreRuns == ASSUME NEW exits \in SUBSET {0, 1, 2} PROVE TestRuns(exits) \subseteq TestRun
<1> SUFFICES ASSUME NEW r \in TestRuns(exits) PROVE r \in TestRun
  OBVIOUS
<1> DEFINE Words == {"passed", "skipped", "failed", "failed_otherwise"}
           Hows == {h \in [Test -> UNION {HowOf[t] : t \in Test}] : \A t \in Test : h[t] \in HowOf[t]}
<1>1. Hows \subseteq [Test -> Words]
  BY EvidenceAssumption
<1>2. CASE r = [NoRun EXCEPT !.fate = "stopped"] \/ r = [NoRun EXCEPT !.fate = "unreadable", !.exit = 1]
  BY <1>2, NoRunIsARun DEF TestRun
<1>3. CASE r \in [fate : {"reported"}, exit : exits, unclear : SUBSET Blurred, how : Hows]
  <2> HIDE DEF Hows
  <2> QED BY <1>1, <1>3, EvidenceAssumption DEF TestRun
<1> QED BY <1>2, <1>3 DEF TestRuns

LEMMA EvidenceInit == Init => ReportInv
<1> SUFFICES ASSUME Init PROVE ReportInv
  OBVIOUS
<1>1. NoChecks \in [usable : BOOLEAN, status : [Check -> {"pass", "fail", "error"}]]
  BY DEF NoChecks
<1>2. execution \in Execution
  BY <1>1, NoRunIsARun DEF Init, Execution
<1>3. ~Reported /\ (execution.changed # {} => execution.status = "completed")
  BY DEF Init, Reported
<1> QED BY <1>2, <1>3 DEF ReportInv

LEMMA EvidenceNext == ReportInv /\ [Next]_vars => ReportInv'
<1> SUFFICES ASSUME ReportInv, [Next]_vars PROVE ReportInv'
  OBVIOUS
<1>1. CASE Verify
  <2>1. PICK run \in TestRuns({0, 1}) \cup {NoRun} :
          execution' = [execution EXCEPT !.run = run] /\ stage' \in {"verify-base", "checks"}
    BY <1>1 DEF Verify
  <2>2. run \in TestRun
    BY RunsAreRuns, NoRunIsARun
  <2>3. execution' \in Execution
    BY <2>1, <2>2 DEF ReportInv, Execution
  <2> QED BY <2>1, <2>3 DEF ReportInv, Reported
<1>2. CASE VerifyBase
  <2>1. PICK base \in TestRuns({0, 1, 2}) : execution' = [execution EXCEPT !.base = base] /\ stage' = "checks"
    BY <1>2 DEF VerifyBase
  <2>2. base \in TestRun
    BY RunsAreRuns
  <2>3. execution' \in Execution
    BY <2>1, <2>2 DEF ReportInv, Execution
  <2> QED BY <2>1, <2>3 DEF ReportInv, Reported
<1>3. CASE RunChecks
  <2>1. execution' = execution \/ \E status \in [Check -> {"pass", "fail", "error"}] :
          execution' = [execution EXCEPT !.checks = [usable |-> TRUE, status |-> status]]
    BY <1>3 DEF RunChecks
  <2>2. ASSUME NEW status \in [Check -> {"pass", "fail", "error"}],
               execution' = [execution EXCEPT !.checks = [usable |-> TRUE, status |-> status]]
        PROVE  execution' \in Execution
    <3>1. [usable |-> TRUE, status |-> status] \in [usable : BOOLEAN, status : [Check -> {"pass", "fail", "error"}]]
      OBVIOUS
    <3> QED BY <2>2, <3>1 DEF ReportInv, Execution
  <2>3. execution' \in Execution
    BY <2>1, <2>2 DEF ReportInv
  <2>4. execution'.changed = execution.changed /\ execution'.status = execution.status
    BY <2>1 DEF ReportInv, Execution
  <2> QED BY <1>3, <2>3, <2>4 DEF RunChecks, ReportInv, Reported
<1>4. CASE Snapshot
  BY <1>4 DEF Snapshot, ReportInv, Execution, Reported
<1>5. CASE Judge
  BY <1>5 DEF Judge, ReportInv, Execution, Reported
<1>6. CASE MakeReport
  <2>1. Report(execution)' = Report(execution)
    BY <1>6 DEF MakeReport, Report, VerdictOf, CriteriaResults, CriterionResult, JudgeResult, HasDiff,
       PreservationResult, DecidePreservation, Outcome, EvaluatePolicy, ConstraintStatus
  <2> QED BY <1>6, <2>1 DEF MakeReport, ReportInv
<1>7. CASE UNCHANGED vars
  <2>1. Report(execution)' = Report(execution)
    BY <1>7 DEF vars, Report, VerdictOf, CriteriaResults, CriterionResult, JudgeResult, HasDiff,
       PreservationResult, DecidePreservation, Outcome, EvaluatePolicy, ConstraintStatus
  <2> QED BY <1>7, <2>1 DEF vars, ReportInv, Reported
<1> QED BY <1>1, <1>2, <1>3, <1>4, <1>5, <1>6, <1>7 DEF Next

\* The report stays the one made from the evidence that is there, whatever the stages did.
THEOREM ReportIsOfTheEvidence == Spec => []ReportInv
<1> QED BY EvidenceInit, EvidenceNext, PTL DEF Spec

-----------------------------------------------------------------------------
(* The properties *)

LEMMA CheckedCriterion ==
  ASSUME NEW e, NEW c \in Criteria, ChecksOf(c) # {}, CriterionResult(c, e) = "met", c \notin Judged
  PROVE  e.checks.usable /\ \A k \in ChecksOf(c) : e.checks.status[k] = "pass"
<1>1. CriterionFromChecks(c, e.checks) = "met"
  BY DEF CriterionResult, PreservationResult
<1> QED BY <1>1 DEF CriterionFromChecks

LEMMA PreservedCriterion ==
  ASSUME NEW e, NEW c \in Criteria, Preserves[c] # {}, CriterionResult(c, e) = "met", c \notin Judged
  PROVE  \A f \in Preserves[c] : FileHolds(f, e.run)
<1>1. DecidePreservation(c, e) = "met"
  BY DEF CriterionResult, PreservationResult
<1> QED BY <1>1 DEF DecidePreservation

LEMMA PolicyIsOk ==
  ASSUME NEW e, EvaluatePolicy(e) = "ok"
  PROVE  e.changed \subseteq Allowed \ (Protected \cup NotPlain)
BY DEF EvaluatePolicy, OutOfScope

\* A pass rests on its own evidence for every contract and every set of checks and tests: each
\* criterion on evidence of its kind, each failing test on the base tree's same failure.
THEOREM Backed == Spec => []PassIsBacked
<1>1. ReportInv => PassIsBacked
  <2> SUFFICES ASSUME ReportInv, Reported, report.verdict = "pass"
               PROVE  PassIsBacked
    BY DEF PassIsBacked
  <2> DEFINE e == execution
  <2> HIDE DEF e
  <2>1. VerdictOf(e) = "pass"
    BY DEF ReportInv, Report, e
  <2>2. /\ \A c \in Criteria : CriterionResult(c, e) = "met"
        /\ Outcome(e) \in {"passed", "preexisting_failures"}
        /\ EvaluatePolicy(e) = "ok"
        /\ contract.approved
    BY <2>1, PassMeans
  <2>3. /\ e.run.fate = "reported"
        /\ Passing(e.run) \cup Failing(e.run) # {}
        /\ \A t \in Failing(e.run) :
             contract.waive /\ e.base.fate = "reported" /\ e.base.exit = 1 /\ e.base.how[t] = e.run.how[t]
    BY <2>2, GoodTests
  <2>4. ASSUME NEW t \in Failing(e.run), NEW c \in Criteria, NEW f \in Preserves[c]
        PROVE  FileOf[t] # f
    <3>1. c \notin Judged
      BY EvidenceAssumption
    <3>2. FileHolds(f, e.run)
      BY <2>2, <3>1, PreservedCriterion
    <3> QED BY <3>2 DEF FileHolds
  <2>5. ASSUME NEW k \in Check
        PROVE  e.checks.usable /\ e.checks.status[k] = "pass"
    <3>1. CriterionOf[k] \in Criteria \ Judged /\ k \in ChecksOf(CriterionOf[k])
      BY EvidenceAssumption DEF ChecksOf
    <3> QED BY <2>2, <3>1, CheckedCriterion
  <2>6. ASSUME NEW c \in Criteria
        PROVE  ChecksOf(c) # {} \/ (c \in Judged /\ e.judged[c] = "met") \/ Preserves[c] # {}
    BY <2>2 DEF CriterionResult, JudgeResult, CriterionFromChecks
  <2>7. e.changed \subseteq Allowed \ (Protected \cup NotPlain \cup GitPaths \cup Unresolved)
    <3>1. e.changed # {} => e.status = "completed"
      BY DEF ReportInv, e
    <3>2. e.changed \cap (GitPaths \cup Unresolved) = {}
      BY <2>1, <3>1, PassMeans DEF UnsupportedChanges
    <3> QED BY <2>2, <3>2, PolicyIsOk
  <2>8. \A t \in Failing(e.run) : \A f \in UNION {Preserves[c] : c \in Criteria} : FileOf[t] # f
    BY <2>4
  <2> QED BY <2>2, <2>3, <2>5, <2>6, <2>7, <2>8 DEF PassIsBacked, e
<1> QED BY <1>1, ReportIsOfTheEvidence, PTL

\* Nothing is called unmet except on a failed check, a judge that saw enough, or a test run that
\* can be trusted: the exit code and the report agree.
THEOREM BlamedForCause == Spec => []BlameIsBacked
<1>1. ReportInv => BlameIsBacked
  <2> SUFFICES ASSUME ReportInv, Reported, NEW c \in Criteria, report.criteria[c] = "unmet"
               PROVE  \/ c \in Judged /\ execution.judged[c] = "unmet"
                      \/ \E k \in ChecksOf(c) : execution.checks.usable /\ execution.checks.status[k] = "fail"
                      \/ /\ execution.run.fate = "reported"
                         /\ execution.run.exit = 0 <=> Failing(execution.run) = {}
                         /\ \E f \in Preserves[c] : ~FileHolds(f, execution.run)
    BY DEF BlameIsBacked
  <2> DEFINE e == execution
  <2> HIDE DEF e
  <2>1. CriterionResult(c, e) = "unmet"
    BY DEF ReportInv, Report, CriteriaResults, e
  <2>2. CASE c \in Judged
    BY <2>1, <2>2 DEF CriterionResult, JudgeResult, e
  <2>3. CASE CriterionFromChecks(c, e.checks) = "unmet"
    BY <2>3 DEF CriterionFromChecks, e
  <2>4. CASE DecidePreservation(c, e) = "unmet"
    <3>1. /\ Outcome(e) \in {"passed", "failed", "preexisting_failures"}
          /\ \E f \in Preserves[c] : ~FileHolds(f, e.run)
      BY <2>4 DEF DecidePreservation
    <3>2. e.run.fate = "reported" /\ (e.run.exit = 0 <=> Failing(e.run) = {})
      BY <3>1 DEF Outcome, ClassifyTestRun
    <3> QED BY <3>1, <3>2 DEF e
  <2> QED BY <2>1, <2>2, <2>3, <2>4 DEF CriterionResult, PreservationResult
<1> QED BY <1>1, ReportIsOfTheEvidence, PTL

-----------------------------------------------------------------------------
(* The loss of a stage *)

LEMMA NothingAgainstNoRun == Failing(NoRun) = {}
BY DEF Failing, NoRun

\* Neither a criterion nor the verdict is better for what is lost.
Worse(d, e) ==
  /\ \A c \in Criteria : CriterionResult(c, d) \in {CriterionResult(c, e), "unknown"}
  /\ VerdictOf(d) = "pass" => VerdictOf(e) = "pass"

\* Where the criteria are as good or unknown, a pass could only come of the tests or the policy.
LEMMA WorseFrom ==
  ASSUME NEW d, NEW e,
         \A c \in Criteria : CriterionResult(c, d) \in {CriterionResult(c, e), "unknown"},
         VerdictOf(d) = "pass" => /\ d.status = e.status /\ d.changed = e.changed
                                 /\ Outcome(d) = Outcome(e) /\ EvaluatePolicy(d) = EvaluatePolicy(e)
  PROVE  Worse(d, e)
<1> SUFFICES ASSUME VerdictOf(d) = "pass" PROVE VerdictOf(e) = "pass"
  BY DEF Worse
<1>1. \A c \in Criteria : CriterionResult(c, d) = CriterionResult(c, e)
  BY PassMeans
<1> QED BY <1>1, SameVerdict

\* A run of the candidate that never reports decides no test criterion and no pass.
LEMMA WithoutRun ==
  ASSUME NEW d, NEW e, Outcome(d) \in {"not_run", "error"}, d.status = e.status, d.changed = e.changed,
         d.checks = e.checks, d.snapshot = e.snapshot, d.judged = e.judged
  PROVE  Worse(d, e)
<1>1. VerdictOf(d) # "pass"
  BY PassMeans
<1>2. \A c \in Criteria : DecidePreservation(c, d) = "unknown"
  BY DEF DecidePreservation
<1>3. ASSUME NEW c \in Criteria
      PROVE  CriterionResult(c, d) \in {CriterionResult(c, e), "unknown"}
  BY <1>2 DEF CriterionResult, JudgeResult, HasDiff, PreservationResult
<1> QED BY <1>1, <1>3 DEF Worse

\* Without the base tree's run no failure is an old one.
LEMMA WithoutBase ==
  ASSUME NEW e \in Execution
  PROVE  Worse([e EXCEPT !.base = NoRun], e)
<1> DEFINE d == [e EXCEPT !.base = NoRun]
<1>1. /\ d.status = e.status /\ d.changed = e.changed /\ d.run = e.run /\ d.base = NoRun
      /\ d.checks = e.checks /\ d.snapshot = e.snapshot /\ d.judged = e.judged
  BY DEF Execution
<1> HIDE DEF d
<1>2. Outcome(d) = Outcome(e) \/ (Outcome(d) = "failed" /\ Outcome(e) = "preexisting_failures")
  <2>1. Regressions(d.run, d.base) = Failing(d.run)
    BY <1>1, NothingAgainstNoRun DEF Regressions, SameFailure
  <2>2. Outcome(d) # Outcome(e) => Outcome(d) = "failed" /\ Outcome(e) = "preexisting_failures"
    <3> HIDE DEF Regressions
    <3> QED BY <1>1, <2>1 DEF Outcome, ClassifyTestRun
  <2> QED BY <2>2
<1>3. \A c \in Criteria : DecidePreservation(c, d) = DecidePreservation(c, e)
  BY <1>1, <1>2 DEF DecidePreservation
<1>4. \A c \in Criteria : CriterionResult(c, d) = CriterionResult(c, e)
  BY <1>1, <1>3 DEF CriterionResult, JudgeResult, HasDiff, PreservationResult
<1>5. EvaluatePolicy(d) = EvaluatePolicy(e)
  BY <1>1 DEF EvaluatePolicy, ConstraintStatus
<1>6. VerdictOf(d) = "pass" => Outcome(d) = Outcome(e)
  BY <1>2, PassMeans
<1>7. Worse(d, e)
  BY <1>1, <1>4, <1>5, <1>6, WorseFrom
<1> QED BY <1>7 DEF d

\* Without the checks no criterion that has one is decided, except by a test, and a constraint that
\* a check enforces is unresolved.
LEMMA WithoutChecks ==
  ASSUME NEW e \in Execution
  PROVE  Worse([e EXCEPT !.checks = NoChecks], e)
<1> DEFINE d == [e EXCEPT !.checks = NoChecks]
<1>1. /\ d.status = e.status /\ d.changed = e.changed /\ d.run = e.run /\ d.base = e.base
      /\ d.checks = NoChecks /\ ~d.checks.usable /\ d.snapshot = e.snapshot /\ d.judged = e.judged
  BY DEF Execution, NoChecks
<1> HIDE DEF d
<1>2. Outcome(d) = Outcome(e) /\ \A c \in Criteria : DecidePreservation(c, d) = DecidePreservation(c, e)
  BY <1>1 DEF DecidePreservation, Outcome
<1>3. \A c \in Criteria : CriterionFromChecks(c, d.checks) = "unknown"
  BY <1>1 DEF CriterionFromChecks
<1>4. ASSUME NEW c \in Criteria
      PROVE  CriterionResult(c, d) \in {CriterionResult(c, e), "unknown"}
  BY <1>1, <1>2, <1>3 DEF CriterionResult, JudgeResult, HasDiff, PreservationResult
<1>5. EvaluatePolicy(d) = "ok" => EvaluatePolicy(e) = "ok"
  BY <1>1 DEF EvaluatePolicy, ConstraintStatus
<1>6. VerdictOf(d) = "pass" => EvaluatePolicy(d) = EvaluatePolicy(e)
  BY <1>5, PassMeans
<1>7. Worse(d, e)
  BY <1>1, <1>2, <1>4, <1>6, WorseFrom
<1> QED BY <1>7 DEF d

\* Without the judge no criterion that only the judge decides is decided.
LEMMA WithoutJudge ==
  ASSUME NEW e \in Execution
  PROVE  Worse([e EXCEPT !.snapshot = FALSE, !.judged = [c \in Judged |-> "unknown"]], e)
<1> DEFINE d == [e EXCEPT !.snapshot = FALSE, !.judged = [c \in Judged |-> "unknown"]]
<1>1. /\ d.status = e.status /\ d.changed = e.changed /\ d.run = e.run /\ d.base = e.base
      /\ d.checks = e.checks /\ \A c \in Judged : d.judged[c] = "unknown"
  BY DEF Execution
<1> HIDE DEF d
<1>2. Outcome(d) = Outcome(e) /\ \A c \in Criteria : DecidePreservation(c, d) = DecidePreservation(c, e)
  BY <1>1 DEF DecidePreservation, Outcome
<1>3. ASSUME NEW c \in Criteria
      PROVE  CriterionResult(c, d) \in {CriterionResult(c, e), "unknown"}
  BY <1>1, <1>2 DEF CriterionResult, JudgeResult, HasDiff, PreservationResult
<1>4. EvaluatePolicy(d) = EvaluatePolicy(e)
  BY <1>1 DEF EvaluatePolicy, ConstraintStatus
<1>5. Worse(d, e)
  BY <1>1, <1>2, <1>3, <1>4, WorseFrom
<1> QED BY <1>5 DEF d

LEMMA DegradedIsWorse == ASSUME NEW e \in Execution, NEW d \in Degraded(e) PROVE Worse(d, e)
<1>1. CASE d = [e EXCEPT !.run = NoRun]
  <2>1. /\ d.run = NoRun /\ d.status = e.status /\ d.changed = e.changed /\ d.checks = e.checks
        /\ d.snapshot = e.snapshot /\ d.judged = e.judged
    BY <1>1 DEF Execution
  <2>2. Outcome(d) = "not_run"
    BY <2>1 DEF Outcome, ClassifyTestRun, NoRun
  <2> QED BY <2>1, <2>2, WithoutRun
<1>2. CASE d = [e EXCEPT !.run.fate = "stopped", !.base = NoRun]
  <2>1. /\ d.run.fate = "stopped" /\ d.status = e.status /\ d.changed = e.changed /\ d.checks = e.checks
        /\ d.snapshot = e.snapshot /\ d.judged = e.judged
    BY <1>2 DEF Execution, TestRun
  <2>2. Outcome(d) = "error"
    BY <2>1 DEF Outcome, ClassifyTestRun
  <2> QED BY <2>1, <2>2, WithoutRun
<1>3. CASE d = [e EXCEPT !.base = NoRun]
  BY <1>3, WithoutBase
<1>4. CASE d = [e EXCEPT !.checks = NoChecks]
  BY <1>4, WithoutChecks
<1>5. CASE d = [e EXCEPT !.snapshot = FALSE, !.judged = [c \in Judged |-> "unknown"]]
  BY <1>5, WithoutJudge
<1> QED BY <1>1, <1>2, <1>3, <1>4, <1>5 DEF Degraded

\* Had a stage failed, no criterion would be decided the other way and no verdict would become a
\* pass, for every contract and every set of tests and checks.
THEOREM LossesNeverHelp == Spec => []LossNeverHelps
<1>1. ReportInv => LossNeverHelps
  <2> SUFFICES ASSUME ReportInv, Reported, NEW d \in Degraded(execution)
               PROVE  /\ \A c \in Criteria : CriterionResult(c, d) \in {report.criteria[c], "unknown"}
                      /\ VerdictOf(d) = "pass" => report.verdict = "pass"
    BY DEF LossNeverHelps
  <2>1. Worse(d, execution)
    BY DegradedIsWorse DEF ReportInv
  <2>2. /\ report.verdict = VerdictOf(execution)
        /\ \A c \in Criteria : report.criteria[c] = CriterionResult(c, execution)
    BY DEF ReportInv, Report, CriteriaResults
  <2> QED BY <2>1, <2>2 DEF Worse
<1> QED BY <1>1, ReportIsOfTheEvidence, PTL

-----------------------------------------------------------------------------
(* One decision *)


LEMMA DecisionInit == JudgeInit => DecisionInv
<1> SUFFICES ASSUME JudgeInit PROVE DecisionInv
  OBVIOUS
<1>1. PICK dead \in SUBSET Earlier :
        pc = [p \in Proc |-> IF p \in dead THEN "dead" ELSE IF p \in Earlier THEN "done" ELSE "start"]
  BY DEF JudgeInit
<1>2. DecisionsTyped
  BY <1>1 DEF JudgeInit, DecisionsTyped, NoDecision, Place
<1>3. DecisionStands
  BY <1>1 DEF JudgeInit, DecisionStands, NoDecision
<1>4. OneDecision
  BY DEF JudgeInit, OneDecision, Decision, NoDecision
<1> QED BY <1>2, <1>3, <1>4 DEF DecisionInv

LEMMA DecisionNext == DecisionInv /\ [JudgeNext]_judgeVars => DecisionInv'
<1> SUFFICES ASSUME DecisionInv, [JudgeNext]_judgeVars
             PROVE  DecisionInv'
  OBVIOUS
<1> USE DEF DecisionInv, DecisionsTyped, DecisionStands, OneDecision, Decision, NoDecision, Place, Owning,
            Goto, Answer, disk, memory
<1>1. ASSUME NEW p \in Proc, Waiting(p) PROVE DecisionInv'
  <2>1. CASE Lookup(p) BY <2>1 DEF Lookup
  <2>2. CASE OpenClaim(p) BY <2>2 DEF OpenClaim
  <2>3. CASE Peek(p) BY <2>3 DEF Peek
  <2>4. CASE Hit(p) BY <2>4 DEF Hit
  <2>5. CASE Stat(p) BY <2>5 DEF Stat
  <2>6. CASE Inspect(p) BY <2>6 DEF Inspect
  <2>7. CASE Poll(p) BY <2>7 DEF Poll
  <2> QED BY <1>1, <2>1, <2>2, <2>3, <2>4, <2>5, <2>6, <2>7 DEF Waiting
<1>2. ASSUME NEW p \in Proc, TakingOver(p) PROVE DecisionInv'
  <2>1. CASE MoveAside(p) BY <2>1 DEF MoveAside
  <2>2. CASE ReadMoved(p) BY <2>2 DEF ReadMoved
  <2>3. CASE LinkBack(p) BY <2>3 DEF LinkBack
  <2> QED BY <1>2, <2>1, <2>2, <2>3 DEF TakingOver
<1>3. ASSUME NEW p \in Proc, Judging(p) PROVE DecisionInv'
  <2>1. CASE WriteClaim(p) BY <2>1 DEF WriteClaim
  <2>2. CASE ReLookup(p) BY <2>2 DEF ReLookup
  <2>3. CASE Sample(p)
    <3>1. PICK votes \in [1..Votes -> {"yes", "no", "null", "failed"}], missing \in BOOLEAN :
            LET j == Judgment(votes, missing)
            IN IF j \in Decision
               THEN draft' = [draft EXCEPT ![p] = j] /\ UNCHANGED result /\ Goto(p, "publish")
               ELSE Answer(p, j) /\ UNCHANGED draft /\ Goto(p, "release")
      BY <2>3 DEF Sample
    <3>2. Judgment(votes, missing) \in Decision \cup {"unjudged"}
      BY DEF Judgment
    <3> QED BY <2>3, <3>1, <3>2 DEF Sample
  <2>4. CASE Publish(p) BY <2>4 DEF Publish
  <2>5. CASE Recheck(p) BY <2>5 DEF Recheck
  <2>6. CASE Replace(p) BY <2>6 DEF Replace
  <2>7. CASE ReleaseRead(p) BY <2>7 DEF ReleaseRead
  <2>8. CASE ReleaseUnlink(p) BY <2>8 DEF ReleaseUnlink
  <2> QED BY <1>3, <2>1, <2>2, <2>3, <2>4, <2>5, <2>6, <2>7, <2>8 DEF Judging
<1>4. ASSUME NEW p \in Proc, Cancel(p) \/ TimeOut(p) PROVE DecisionInv'
  BY <1>4 DEF Cancel, TimeOut
<1>5. ASSUME NEW p \in Proc, Beat(p) \/ Crash(p) PROVE DecisionInv'
  BY <1>5 DEF Beat, Crash
<1>6. CASE GrowOld BY <1>6 DEF GrowOld
<1>7. CASE UNCHANGED judgeVars BY <1>7 DEF judgeVars
<1> QED BY <1>1, <1>2, <1>3, <1>4, <1>5, <1>6, <1>7 DEF JudgeNext

\* Whatever is claimed, taken over, stalled or lost, processes that judge the same evidence
\* return the decision that was published first (verify/judge-cache.js publish()).
THEOREM DecisionIsOne == JudgeSpec => []OneDecision
<1>1. DecisionInv => OneDecision BY DEF DecisionInv
<1> QED BY <1>1, DecisionInit, DecisionNext, PTL DEF JudgeSpec

-----------------------------------------------------------------------------
(* One sample *)

LEMMA NoClaimIsNoFile == NoFile \notin Claim
BY JudgeCacheAssumption DEF Claim

LEMMA ClaimInit == JudgeInit => ClaimInv
<1> SUFFICES ASSUME JudgeInit PROVE ClaimInv
  OBVIOUS
<1>1. PICK dead \in SUBSET Earlier :
        /\ pc = [p \in Proc |-> IF p \in dead THEN "dead" ELSE IF p \in Earlier THEN "done" ELSE "start"]
        /\ (dead = {} /\ lock = NoFile /\ faults = 0) \/ faults = 1
  BY DEF JudgeInit
<1>2. dead = {} /\ lock = NoFile => ClaimIsOwned
  BY <1>1 DEF JudgeInit, ClaimIsOwned, Place, Owning
<1> QED BY <1>1, <1>2 DEF ClaimInv

\* Once there was a fault, nothing is asked of the claim any more.
LEMMA ClaimAfterFault ==
  ASSUME ClaimInv, faults' \in Nat, faults' # 0
  PROVE  ClaimInv'
BY DEF ClaimInv

\* A process that does not count the claim as its own moves on, and leaves the claim alone.
LEMMA ClaimWaits ==
  ASSUME ClaimInv, NEW p \in Proc, NEW l \in Place \ Owning, Goto(p, l), pc[p] \notin Owning,
         l \in {"rename", "read", "linkback", "dead"} => faults # 0,
         UNCHANGED <<lock, entry, faults>>,
         faults = 0 => sawOld' \in [Proc -> BOOLEAN] /\ \A q \in Proc : ~sawOld'[q]
  PROVE  ClaimInv'
<1>1. CASE faults # 0
  BY <1>1 DEF ClaimInv
<1>2. CASE faults = 0
  <2>1. ClaimIsOwned /\ pc' = [pc EXCEPT ![p] = l]
    BY <1>2 DEF ClaimInv, Goto
  <2>2. /\ pc' \in [Proc -> Place \ {"rename", "read", "linkback", "dead"}] /\ pc'[p] = l
        /\ \A q \in Proc \ {p} : pc'[q] = pc[q]
    BY <1>2, <2>1 DEF ClaimIsOwned
  <2>3. "sample" \in Owning
    BY DEF Owning
  <2>4. lock # NoFile => ~lock.old /\ pc'[lock.owner] \in Owning
    BY <2>1, <2>2 DEF ClaimIsOwned, Claim
  <2>5. ClaimIsOwned'
    BY <1>2, <2>1, <2>2, <2>3, <2>4 DEF ClaimIsOwned
  <2> QED BY <2>5 DEF ClaimInv
<1> QED BY <1>1, <1>2

LEMMA ClaimNext == ASSUME NoFile \notin Claim, ClaimInv, [JudgeNext]_judgeVars PROVE ClaimInv'
<1> USE DEF ClaimInv, ClaimIsOwned, Place, Owning, Goto, Answer, disk, memory
<1>1. ASSUME NEW p \in Proc, Waiting(p) PROVE ClaimInv'
  <2>1. CASE Lookup(p)
    <3>1. pc[p] = "start" /\ UNCHANGED <<lock, entry, faults, sawOld>> /\ (Goto(p, "done") \/ Goto(p, "claim"))
      BY <2>1 DEF Lookup
    <3> QED BY <3>1, ClaimWaits
  <2>2. CASE OpenClaim(p) /\ lock = NoFile
    <3> DEFINE c == [owner |-> p, written |-> FALSE, old |-> FALSE]
    <3>1. c \in Claim /\ c.owner = p /\ ~c.old
      BY DEF Claim
    <3>2. lock' = c /\ pc' = [pc EXCEPT ![p] = "write"] /\ UNCHANGED <<entry, faults, sawOld>>
      BY <2>2 DEF OpenClaim
    <3> HIDE DEF c
    <3>3. c # NoFile
      BY <3>1
    <3> QED BY <2>2, <3>1, <3>2, <3>3
  <2>3. CASE OpenClaim(p) /\ lock # NoFile
    <3>1. pc[p] = "claim" /\ UNCHANGED <<lock, entry, faults, sawOld>> /\ Goto(p, "peek")
      BY <2>3 DEF OpenClaim
    <3> QED BY <3>1, ClaimWaits
  <2>4. CASE Peek(p) \/ Hit(p) \/ Poll(p)
    <3>1. /\ pc[p] \notin Owning /\ UNCHANGED <<lock, entry, faults, sawOld>>
          /\ \E l \in {"hit", "stat", "done", "claim"} : Goto(p, l)
      BY <2>4 DEF Peek, Hit, Poll
    <3> QED BY <3>1, ClaimWaits
  <2>5. CASE Stat(p)
    <3>1. /\ pc[p] = "stat" /\ UNCHANGED <<lock, entry, faults>>
          /\ \/ UNCHANGED sawOld /\ Goto(p, "wait")
             \/ lock # NoFile /\ sawOld' = [sawOld EXCEPT ![p] = lock.old] /\ Goto(p, "inspect")
      BY <2>5 DEF Stat
    <3>2. CASE lock # NoFile /\ sawOld' = [sawOld EXCEPT ![p] = lock.old] /\ Goto(p, "inspect")
      <4>1. faults = 0 => sawOld' \in [Proc -> BOOLEAN] /\ \A q \in Proc : ~sawOld'[q]
        BY <3>2 DEF Claim
      <4> QED BY <3>1, <3>2, <4>1, ClaimWaits
    <3> QED BY <3>1, <3>2, ClaimWaits
  <2>6. CASE Inspect(p)
    <3>1. pc[p] = "inspect" /\ UNCHANGED <<lock, entry, faults>> /\ sawOld' = [sawOld EXCEPT ![p] = FALSE]
      BY <2>6 DEF Inspect
    <3>2. Goto(p, "wait") \/ (Goto(p, "rename") /\ lock # NoFile /\ (sawOld[p] \/ pc[lock.owner] = "dead"))
      BY <2>6 DEF Inspect, DeadHere
    <3> QED BY <3>1, <3>2, ClaimWaits
  <2> QED BY <1>1, <2>1, <2>2, <2>3, <2>4, <2>5, <2>6 DEF Waiting
<1>2. ASSUME NEW p \in Proc, TakingOver(p) PROVE ClaimInv'
  <2>1. faults # 0 /\ UNCHANGED faults
    BY <1>2 DEF TakingOver, MoveAside, ReadMoved, LinkBack
  <2> QED BY <2>1
<1>3. ASSUME NEW p \in Proc, Judging(p) PROVE ClaimInv'
  <2>1. CASE WriteClaim(p)
    <3>1. pc[p] = "write" /\ pc' = [pc EXCEPT ![p] = "reget"] /\ UNCHANGED <<entry, faults, sawOld>>
      BY <2>1 DEF WriteClaim
    <3>2. lock # NoFile /\ lock.owner = p => lock' = [lock EXCEPT !.written = TRUE]
      BY <2>1 DEF WriteClaim
    <3>3. ASSUME faults = 0
          PROVE  /\ lock \in Claim /\ lock # NoFile /\ lock.owner = p /\ lock' \in Claim
                 /\ lock'.owner = p /\ lock'.written /\ ~lock'.old
      BY <3>1, <3>2, <3>3 DEF Claim
    <3>4. faults = 0 => lock' # NoFile
      BY <3>3
    <3> QED BY <3>1, <3>3, <3>4
  <2>2. CASE ReLookup(p) BY <2>2 DEF ReLookup
  <2>3. CASE Sample(p) BY <2>3 DEF Sample
  <2>4. CASE Publish(p) BY <2>4 DEF Publish
  <2>5. CASE Recheck(p) BY <2>5 DEF Recheck
  <2>6. CASE Replace(p) BY <2>6 DEF Replace
  <2>7. CASE ReleaseRead(p) BY <2>7 DEF ReleaseRead
  <2>8. CASE ReleaseUnlink(p) BY <2>8 DEF ReleaseUnlink
  <2> QED BY <1>3, <2>1, <2>2, <2>3, <2>4, <2>5, <2>6, <2>7, <2>8 DEF Judging
<1>4. ASSUME NEW p \in Proc, Cancel(p) \/ TimeOut(p) PROVE ClaimInv'
  <2>1. pc[p] \notin Owning /\ UNCHANGED <<lock, entry, faults, sawOld>> /\ Goto(p, "done")
    BY <1>4 DEF Cancel, TimeOut
  <2> QED BY <2>1, ClaimWaits
<1>5. ASSUME NEW p \in Proc, Beat(p) PROVE ClaimInv'
  BY <1>5 DEF Beat
<1>6. ASSUME NEW p \in Proc, Crash(p) PROVE ClaimInv'
  BY <1>6, ClaimAfterFault DEF Crash
<1>7. CASE GrowOld
  BY <1>7, ClaimAfterFault DEF GrowOld
<1>8. CASE UNCHANGED judgeVars BY <1>8 DEF judgeVars
<1> QED BY <1>1, <1>2, <1>3, <1>4, <1>5, <1>6, <1>7, <1>8 DEF JudgeNext

\* While no process dies or stalls, the judge is asked once for this evidence, and never after a
\* decision (judgeOne: "the evidence is CLAIMED before sampling").
THEOREM TheJudgeIsAskedOnce == JudgeSpec => []ClaimedBeforeSampling
<1>1. ClaimInv => ClaimedBeforeSampling
  BY DEF ClaimInv, ClaimIsOwned, Owning, ClaimedBeforeSampling
<1>2. JudgeInit => ClaimInv
  BY ClaimInit
<1>3. ClaimInv /\ [JudgeNext]_judgeVars => ClaimInv'
  BY NoClaimIsNoFile, ClaimNext
<1> QED BY <1>1, <1>2, <1>3, PTL DEF JudgeSpec

=============================================================================
