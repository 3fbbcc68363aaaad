---------------------------- MODULE QbRunProofs ----------------------------
(***************************************************************************)
(* Proofs about the verdict, the pipeline and a whole run, for every set   *)
(* of criteria, every number of retries and every budget: what the         *)
(* pipeline's proofs say from the first attempt on holds from the request  *)
(* on, and what the intent session promises holds for any ambiguity rules, *)
(* defaults, answers and rounds.                                           *)
(***************************************************************************)
EXTENDS QbRun, SequenceTheorems, TLAPS

-----------------------------------------------------------------------------
(* The verdict *)

ExecutionRecord ==
  [status : FailedExecution \cup NeverApproved \cup {"dry_run", "no_change", "completed"},
   patch : Patches \cup {None}, tests : TestRun, policy : PolicyFinding, unsupported : BOOLEAN]

\* What the sandbox brings back has a status, a patch, tests and findings; a tree that
\* did not change was captured in full.
LEMMA ExecutionIsARecord ==
  ASSUME NEW ex \in Executions
  PROVE  ex \in ExecutionRecord /\ (ex.status = "no_change" => ~ex.unsupported)
<1>1. CASE \E status \in {"dry_run", "blocked"} : ex = NoExecution(status)
  <2>1. PICK status \in {"dry_run", "blocked"} : ex = NoExecution(status)
    BY <1>1
  <2> QED BY <2>1 DEF NoExecution, ExecutionRecord, NeverApproved, TestRun, PolicyFinding
<1>2. CASE ex \in [status : {"completed"}, patch : Patches, tests : TestRuns, policy : Policies,
                   unsupported : {FALSE}]
  BY <1>2, RunPipelineAssumption DEF ExecutionRecord
<1>3. CASE \/ ex \in [status : {"completed"}, patch : Patches, tests : TestRuns, policy : {"clean"},
                     unsupported : {TRUE}]
           \/ ex \in [status : {"completed"}, patch : {None}, tests : {"not_run"}, policy : {"clean"},
                     unsupported : {TRUE}]
  BY <1>3, RunPipelineAssumption DEF ExecutionRecord, TestRun, PolicyFinding
<1>4. CASE ex \in [status : {"no_change"}, patch : {None}, tests : TestRuns,
                   policy : Policies \ {"out_of_scope"}, unsupported : {FALSE}]
  BY <1>4, RunPipelineAssumption DEF ExecutionRecord
<1>5. CASE ex \in [status : FailedStatuses, patch : Patches \cup {None}, tests : {"not_run"},
                   policy : {"clean"}, unsupported : {FALSE}]
  <2>1. ex \in ExecutionRecord
    BY <1>5, RunPipelineAssumption DEF ExecutionRecord, TestRun, PolicyFinding
  <2>2. ~ex.unsupported
    BY <1>5
  <2> QED BY <2>1, <2>2
<1> QED BY <1>1, <1>2, <1>3, <1>4, <1>5 DEF Executions

\* The evidence of an attempt is evidence that aggregate() takes.
LEMMA EvidenceIsInput ==
  ASSUME NEW ex \in ExecutionRecord, NEW results \in [Criteria -> Met], NEW approved \in BOOLEAN
  PROVE  VerifyInput(ex, results, approved) \in Input
BY VerdictAssumption
   DEF VerifyInput, Input, ExecutionRecord, Classify, TestRun, TestOutcomes, PolicyEffect, PolicyFinding

\* aggregate() returns one of its verdicts.
LEMMA AggregateIsAVerdict ==
  ASSUME NEW in \in Input PROVE Aggregate(in) \in Verdicts
<1>1. AggregateCore(in) \in Verdicts
  BY DEF AggregateCore, Verdicts, NoChangeVerdict, TestedVerdict, CaptureVerdict, CriteriaVerdict
<1> QED BY <1>1 DEF Aggregate, ApplyPolicyAndOracle, Verdicts

\* verify/verdict.js:4: the input rebuilt from a report is the input the verdict was made of.
THEOREM ReplayInputIsTheEvidence ==
  ASSUME NEW ex \in ExecutionRecord, NEW results \in [Criteria -> Met], NEW approved \in BOOLEAN
  PROVE  InputFromReport(Report(ex, results, approved), ex) = VerifyInput(ex, results, approved)
<1>1. Classify(ex.tests, Waive /\ ex.tests \in {"regressions", "old_failures"}) = Classify(ex.tests, Waive)
  BY VerdictAssumption DEF Classify, ExecutionRecord, TestRun
<1> QED BY <1>1 DEF InputFromReport, Report, VerifyInput

\* verify/verdict.js: a pass takes an approved contract, a finished agent whose change (if
\* any) was captured in full, no policy finding, every criterion met, and good tests.
THEOREM PassNeedsEvidence ==
  ASSUME NEW in \in Input, Aggregate(in) = "pass"
  PROVE  /\ in.approved /\ in.policy = "ok" /\ AllMet(in.criteria) /\ in.tests \in TestsOK
         /\ in.status \in {"completed", "no_change"}
         /\ in.status = "completed" => in.diff /\ ~in.unsupported
<1>1. AggregateCore(in) = "pass" /\ in.approved /\ in.policy = "ok"
  BY DEF Aggregate, ApplyPolicyAndOracle, Input
<1>2. in.status \in {"completed", "no_change"}
  BY <1>1 DEF AggregateCore, Input, FailedExecution, NeverApproved
<1>3. CASE in.status = "no_change"
  BY <1>1, <1>3 DEF AggregateCore, NoChangeVerdict, FailedExecution, NeverApproved
<1>4. CASE in.status = "completed"
  <2>1. TestedVerdict(in, CaptureVerdict(in)) = "pass"
    BY <1>1, <1>4 DEF AggregateCore, FailedExecution, NeverApproved
  <2>2. CaptureVerdict(in) = "pass" /\ in.tests \in TestsOK
    BY <2>1 DEF TestedVerdict
  <2>3. CriteriaVerdict(in) = "pass" /\ ~in.unsupported
    BY <2>2 DEF CaptureVerdict
  <2> QED BY <1>1, <1>4, <2>2, <2>3 DEF CriteriaVerdict
<1> QED BY <1>1, <1>2, <1>3, <1>4

-----------------------------------------------------------------------------
(* The report and the record of an attempt *)

\* A report carries the verdict of its evidence, and what is recorded of it replays.
LEMMA ReportIsFaithful ==
  ASSUME NEW ex \in ExecutionRecord, NEW results \in [Criteria -> Met], NEW approved \in BOOLEAN,
         NEW r, r = Report(ex, results, approved)
  PROVE  /\ InputFromReport(r, ex) = VerifyInput(ex, results, approved)
         /\ InputFromReport(r, ex) \in Input
         /\ Aggregate(InputFromReport(r, ex)) = r.verdict /\ r.verdict \in Verdicts
         /\ InputFromReport(r, ex).tests = r.tests /\ InputFromReport(r, ex).criteria = results
         /\ r.criteria = results /\ r.approved = approved
         /\ r.hints \in SUBSET (Criteria \cup {"POLICY", "TEST"})
<1>1. r.hints \in SUBSET (Criteria \cup {"POLICY", "TEST"})
  BY DEF Report, Hints, Unmet
<1>2. VerifyInput(ex, results, approved) \in Input
  BY EvidenceIsInput
<1>3. InputFromReport(r, ex) = VerifyInput(ex, results, approved)
  BY ReplayInputIsTheEvidence
<1>4. r.verdict = Aggregate(VerifyInput(ex, results, approved))
  BY DEF Report
<1>5. VerifyInput(ex, results, approved).tests = r.tests /\ VerifyInput(ex, results, approved).criteria = results
  BY DEF VerifyInput, Report
<1>6. r.criteria = results /\ r.approved = approved
  BY DEF Report
<1> QED BY <1>1, <1>2, <1>3, <1>4, <1>5, <1>6, AggregateIsAVerdict

\* finishAttempt closes the attempt under way and leaves the others alone.
LEMMA FinishAttemptClosesOne ==
  ASSUME TypeOK, attempt > 0, NEW r, r.verdict \in Verdicts, InputFromReport(r, execution) \in Input
  PROVE  /\ FinishAttempt(r) \in Seq(AttemptRecord) /\ Len(FinishAttempt(r)) = attempt
         /\ \A i \in 1..attempt : i # attempt => FinishAttempt(r)[i] = attempts[i]
         /\ ~FinishAttempt(r)[attempt].open
         /\ FinishAttempt(r)[attempt].patch = execution.patch
         /\ FinishAttempt(r)[attempt].verdict = r.verdict
         /\ FinishAttempt(r)[attempt].input = InputFromReport(r, execution)
         /\ FinishAttempt(r)[attempt].reason = attempts[attempt].reason
<1> DEFINE in == InputFromReport(r, execution)
           closed == [attempts[attempt] EXCEPT !.open = FALSE, !.patch = execution.patch,
                                               !.verdict = r.verdict, !.input = in]
<1>1. attempts \in Seq(AttemptRecord) /\ Len(attempts) = attempt /\ attempt \in 1..Len(attempts)
  BY RunPipelineAssumption DEF TypeOK
<1>2. attempts[attempt] \in AttemptRecord
  BY <1>1
<1>3. in \in Input /\ execution.patch \in Patches \cup {None}
  BY DEF TypeOK
<1> HIDE DEF in
<1>4. /\ closed \in AttemptRecord /\ closed.open = FALSE /\ closed.patch = execution.patch
      /\ closed.verdict = r.verdict /\ closed.input = in /\ closed.reason = attempts[attempt].reason
  BY <1>2, <1>3 DEF AttemptRecord
<1> HIDE DEF closed
<1>5. FinishAttempt(r) = [attempts EXCEPT ![attempt] = closed]
  BY DEF FinishAttempt, closed, in
<1> QED BY <1>1, <1>4, <1>5, ExceptSeq DEF in

\* The record of the next attempt is well formed.
LEMMA NewAttemptIsARecord ==
  ASSUME NEW n \in 1..MaxRetries, NEW hints \in SUBSET (Criteria \cup {"POLICY", "TEST"})
  PROVE  NewAttempt(n, hints) \in AttemptRecord
BY DEF NewAttempt, AttemptRecord

-----------------------------------------------------------------------------
(* The inductive invariant *)

\* What the await in progress says of the attempt under way and of those before it.
Progress ==
  /\ pc = "context" => attempt = 0 /\ agentMs = 0
  /\ pc \in {"agent", "verify", "memory", "record"} => attempt > 0
  /\ pc \in {"agent", "verify"} => attempts[attempt].open
  /\ \A i \in 1..Len(attempts) : i < attempt => ~attempts[i].open
  /\ pc \in {"agent", "verify"} /\ attempt > 1 => previousPatch = attempts[attempt - 1].patch
  /\ pc \in {"context", "agent", "verify", "memory", "record"} => outcome = "RUNNING"

\* Behind a report stands the execution it reports.
Reported ==
  /\ pc \in {"verify", "memory", "record"} => execution \in Executions /\ execution.status # "blocked"
  /\ pc \in {"memory", "record"} =>
       /\ \E results \in [Criteria -> Met] : report = Report(execution, results, Approved)
       /\ ~attempts[attempt].open
       /\ attempts[attempt].patch = execution.patch /\ attempts[attempt].verdict = report.verdict
       /\ attempts[attempt].input = InputFromReport(report, execution)

\* The history holds one entry per verified attempt and says what the record says.
HistoryMatches ==
  /\ history \in Seq([attempt : Nat, patch : Patches \cup {None}, verdict : Verdicts, approved : BOOLEAN,
                      criteria : [Criteria -> Met], hints : SUBSET (Criteria \cup {"POLICY", "TEST"})])
  /\ pc = "context" => history = <<>>
  /\ pc \in {"agent", "verify"} => Len(history) = attempt - 1
  /\ pc \in {"memory", "record"} => Len(history) = attempt
  /\ Len(history) <= Len(attempts)
  /\ \A i \in 1..Len(history) :
       /\ ~attempts[i].open
       /\ history[i].patch = attempts[i].patch /\ history[i].verdict = attempts[i].verdict
       /\ history[i].criteria = attempts[i].input.criteria /\ history[i].approved = Approved

\* Memory is told last, of the whole history.
Told ==
  /\ pc \in {"context", "agent", "verify", "memory"} => remembered = None
  /\ remembered # None =>
       /\ Len(history) = Len(attempts) /\ attempt > 0
       /\ remembered.attempts = Len(attempts)
       /\ remembered.links = LinkRepairs(history)
       /\ outcome \in {"RUNNING", "ABANDONED", OutcomeFor(remembered.verdict)}
  /\ pc = "record" => remembered.verdict = report.verdict

\* What a step needs to know of the steps before it to keep the properties.
IInv ==
  /\ TypeOK /\ Progress /\ Reported /\ HistoryMatches /\ Told
  /\ VerifiedIsEarned /\ RetriesAreJustified /\ RecordReplays

\* A run starts in the invariant.
LEMMA InitIInv == Init => IInv
<1> SUFFICES ASSUME Init PROVE IInv
  OBVIOUS
<1> USE RunPipelineAssumption DEF Init, BeforeTheLoop
<1>1. TypeOK
  <2>1. execution.patch = None
    BY DEF NoExecution
  <2>2. aborted \in BOOLEAN
    BY Zenon
  <2>3. attempts \in Seq(AttemptRecord) /\ Len(attempts) = attempt /\ attempt \in 0..MaxRetries
    OBVIOUS
  <2> QED BY <2>1, <2>2, <2>3 DEF TypeOK
<1>2. Progress /\ Reported /\ HistoryMatches /\ Told
  BY DEF Progress, Reported, HistoryMatches, Told
<1>3. VerifiedIsEarned /\ RetriesAreJustified /\ RecordReplays
  BY DEF VerifiedIsEarned, RetriesAreJustified, RecordReplays
<1> QED BY <1>1, <1>2, <1>3 DEF IInv

\* A step that leaves the record of the attempts alone leaves what it says alone.
LEMMA RecordKept ==
  ASSUME IInv, UNCHANGED <<mode, attempts>>
  PROVE  RetriesAreJustified' /\ RecordReplays'
BY DEF IInv, RetriesAreJustified, RecordReplays

\* A run that ends otherwise than by its verdict is not VERIFIED, and memory, told nothing
\* yet or told of a killed run, is not contradicted.
LEMMA EndingKeepsIInv ==
  ASSUME IInv, UNCHANGED <<mode, loopVars, attempts, remembered>>, aborted' = aborted,
         pc' \in {"ended", "killed"},
         outcome' \in {"CANCELLED", "ERROR", "ABANDONED"},
         outcome' = "ABANDONED" \/ remembered = None
  PROVE  IInv'
<1> USE DEF IInv, loopVars
<1>1. TypeOK'
  BY DEF TypeOK
<1>2. Progress' /\ Reported'
  BY DEF Progress, Reported
<1>3. HistoryMatches'
  BY DEF HistoryMatches, Approved
<1>4. Told'
  <2>1. LinkRepairs(history)' = LinkRepairs(history)
    BY DEF LinkRepairs, LinkOutcome
  <2> QED BY <2>1 DEF Told
<1>5. VerifiedIsEarned'
  BY DEF VerifiedIsEarned
<1> QED BY <1>1, <1>2, <1>3, <1>4, <1>5, RecordKept

\* The first attempt is always begun: nothing is spent and there is a retry to spend.
LEMMA ContextReadyKeepsIInv ==
  ASSUME IInv, ContextReady PROVE IInv'
<1> USE DEF IInv
<1>1. attempt = 0 /\ agentMs = 0 /\ attempts = <<>> /\ history = <<>> /\ remembered = None
      /\ pc = "context" /\ outcome = "RUNNING" /\ repairHints \in SUBSET (Criteria \cup {"POLICY", "TEST"})
  BY DEF ContextReady, Progress, TypeOK, HistoryMatches, Told
<1>2. /\ attempts' = Append(<<>>, NewAttempt(1, repairHints)) /\ attempt' = 1 /\ pc' = "agent"
      /\ UNCHANGED <<mode, agentMs, repairHints, previousPatch, execution, report, history,
                      outcome, remembered, aborted>>
  BY <1>1, RunPipelineAssumption DEF ContextReady, NextAttempt, AgentTimeSpent
<1>3. NewAttempt(1, repairHints) \in AttemptRecord /\ NewAttempt(1, repairHints).open
  BY <1>1, NewAttemptIsARecord, RunPipelineAssumption DEF NewAttempt
<1> HIDE DEF NewAttempt
<1>4. attempts' \in Seq(AttemptRecord) /\ Len(attempts') = 1 /\ attempts'[1].open
  BY <1>2, <1>3
<1>5. TypeOK'
  BY <1>2, <1>4, RunPipelineAssumption DEF TypeOK
<1>6. Progress' /\ Reported' /\ Told'
  BY <1>1, <1>2, <1>4 DEF Progress, Reported, Told
<1>7. HistoryMatches'
  BY <1>1, <1>2, <1>4 DEF HistoryMatches
<1>8. VerifiedIsEarned' /\ RetriesAreJustified' /\ RecordReplays'
  BY <1>1, <1>2, <1>4 DEF VerifiedIsEarned, RetriesAreJustified, RecordReplays
<1> QED BY <1>5, <1>6, <1>7, <1>8

\* The answer of the sandbox is verified next, or the run is blocked.
LEMMA AgentReturnsKeepsIInv ==
  ASSUME IInv, AgentReturns PROVE IInv'
<1> USE DEF IInv
<1>1. /\ pc = "agent" /\ execution' \in Executions /\ agentMs' \in Nat
      /\ UNCHANGED <<mode, attempt, repairHints, previousPatch, report, history, attempts, remembered, aborted>>
      /\ \/ execution'.status = "blocked" /\ pc' = "ended" /\ outcome' = "BLOCKED"
         \/ execution'.status # "blocked" /\ pc' = "verify" /\ outcome' = outcome
  BY RunPipelineAssumption DEF AgentReturns, EndWith, TypeOK
<1>2. execution'.patch \in Patches \cup {None} /\ Executions' = Executions
  <2>1. execution' \in ExecutionRecord
    BY <1>1, ExecutionIsARecord
  <2>2. Executions' = Executions
    BY <1>1 DEF Executions
  <2> QED BY <2>1, <2>2 DEF ExecutionRecord
<1>3. TypeOK'
  BY <1>1, <1>2 DEF TypeOK
<1>4. Progress' /\ Reported'
  BY <1>1, <1>2 DEF Progress, Reported
<1>5. HistoryMatches'
  BY <1>1 DEF HistoryMatches, Approved
<1>6. Told' /\ VerifiedIsEarned'
  BY <1>1 DEF Told, VerifiedIsEarned, Progress
<1> QED BY <1>1, <1>3, <1>4, <1>5, <1>6, RecordKept

\* Memory is told of the history as it stands.
LEMMA RememberKeepsIInv ==
  ASSUME IInv, Remember PROVE IInv'
<1> USE DEF IInv
<1>1. /\ pc = "memory" /\ pc' = "record"
      /\ remembered' = [verdict |-> report.verdict, attempts |-> attempt, links |-> LinkRepairs(history)]
      /\ UNCHANGED <<mode, loopVars, attempts, outcome, aborted>>
  BY DEF Remember
<1>2. TypeOK' /\ Progress'
  BY <1>1 DEF TypeOK, Progress, loopVars
<1>3. Reported'
  <2>1. Executions' = Executions /\ Approved' = Approved
    BY <1>1 DEF Executions, Approved
  <2> QED BY <1>1, <2>1 DEF Reported, loopVars
<1>4. HistoryMatches'
  BY <1>1 DEF HistoryMatches, Approved, loopVars
<1>5. Told'
  <2>1. LinkRepairs(history)' = LinkRepairs(history)
    BY <1>1 DEF LinkRepairs, LinkOutcome, loopVars
  <2>2. Len(history) = Len(attempts) /\ attempt > 0 /\ Len(attempts) = attempt /\ outcome = "RUNNING"
    BY <1>1 DEF HistoryMatches, Progress, TypeOK
  <2> HIDE DEF LinkRepairs
  <2> QED BY <1>1, <2>1, <2>2 DEF Told, loopVars
<1>6. VerifiedIsEarned'
  BY <1>1 DEF VerifiedIsEarned, Progress, loopVars
<1> QED BY <1>1, <1>2, <1>3, <1>4, <1>5, <1>6, RecordKept

\* The outcome of a run whose last report passes is earned.
LEMMA PassIsEarned ==
  ASSUME IInv, pc = "record", report.verdict = "pass"
  PROVE  /\ mode = "approved"
         /\ \/ execution.status = "completed" /\ execution.patch # None
            \/ execution.status = "no_change"
         /\ ~execution.unsupported /\ execution.policy = "clean"
         /\ execution.tests = "passing" \/ (Waive /\ execution.tests = "old_failures")
         /\ AllMet(report.criteria)
<1>1. execution \in ExecutionRecord /\ (execution.status = "no_change" => ~execution.unsupported)
  BY ExecutionIsARecord DEF IInv, Reported
<1>2. PICK results \in [Criteria -> Met] : report = Report(execution, results, Approved)
  BY DEF IInv, Reported
<1>3. Approved \in BOOLEAN
  BY DEF Approved
<1> DEFINE in == VerifyInput(execution, results, Approved)
<1>4. in \in Input /\ Aggregate(in) = "pass" /\ report.criteria = results
  BY <1>1, <1>2, <1>3, ReportIsFaithful
<1> HIDE DEF in
<1>5. /\ in.approved /\ in.policy = "ok" /\ AllMet(in.criteria) /\ in.tests \in TestsOK
      /\ in.status \in {"completed", "no_change"}
      /\ in.status = "completed" => in.diff /\ ~in.unsupported
  BY <1>4, PassNeedsEvidence
<1>6. /\ in.status = execution.status /\ in.diff = (execution.patch # None) /\ in.criteria = results
      /\ in.tests = Classify(execution.tests, Waive) /\ in.policy = PolicyEffect(execution.policy)
      /\ in.unsupported = execution.unsupported /\ in.approved = Approved
  BY DEF in, VerifyInput
<1>7. execution.policy = "clean"
  BY <1>5, <1>6 DEF PolicyEffect
<1>8. execution.tests = "passing" \/ (Waive /\ execution.tests = "old_failures")
  BY <1>1, <1>5, <1>6, VerdictAssumption DEF Classify, TestsOK, ExecutionRecord, TestRun
<1> QED BY <1>1, <1>4, <1>5, <1>6, <1>7, <1>8 DEF Approved

\* The outcome is that of the last report.
LEMMA FinishRunKeepsIInv ==
  ASSUME IInv, FinishRun PROVE IInv'
<1> USE DEF IInv
<1>1. /\ pc = "record" /\ pc' = "ended" /\ outcome' = OutcomeFor(report.verdict)
      /\ UNCHANGED <<mode, loopVars, attempts, remembered, aborted>>
  BY DEF FinishRun, EndWith
<1>2. TypeOK'
  <2>1. outcome' \in {"VERIFIED", "FAILED", "UNRESOLVED", "ERROR", "DRY_RUN"}
    BY <1>1 DEF OutcomeFor
  <2> QED BY <1>1, <2>1 DEF TypeOK, loopVars
<1>3. Progress' /\ Reported'
  BY <1>1 DEF Progress, Reported, loopVars
<1>4. HistoryMatches'
  BY <1>1 DEF HistoryMatches, Approved, loopVars
<1>5. Told'
  <2>1. LinkRepairs(history)' = LinkRepairs(history)
    BY <1>1 DEF LinkRepairs, LinkOutcome, loopVars
  <2>2. remembered.verdict = report.verdict
    BY <1>1 DEF Told
  <2>3. OutcomeFor(remembered.verdict)' = OutcomeFor(remembered.verdict)
    BY <1>1 DEF OutcomeFor
  <2> HIDE DEF LinkRepairs, OutcomeFor
  <2> QED BY <1>1, <2>1, <2>2, <2>3 DEF Told, loopVars
<1>6. VerifiedIsEarned'
  <2> SUFFICES ASSUME outcome' = "VERIFIED" PROVE VerifiedIsEarned'
    BY DEF VerifiedIsEarned
  <2>1. report.verdict = "pass"
    BY <1>1 DEF OutcomeFor
  <2>2. Last(attempts).patch = execution.patch /\ ~Last(attempts).open
    BY <1>1 DEF Reported, TypeOK, Last
  <2> QED BY <1>1, <2>1, <2>2, PassIsEarned DEF VerifiedIsEarned, loopVars, AllMet, Last
<1> QED BY <1>1, <1>2, <1>3, <1>4, <1>5, <1>6, RecordKept

\* The deadline changes only whether the run is aborted.
LEMMA DeadlineKeepsIInv ==
  ASSUME IInv, UNCHANGED <<mode, pc, loopVars, recordVars>>, aborted' \in BOOLEAN PROVE IInv'
<1> USE DEF IInv, loopVars, recordVars
<1>1. TypeOK' /\ Progress'
  BY DEF TypeOK, Progress
<1>2. Reported' /\ HistoryMatches'
  BY DEF Reported, HistoryMatches, Approved, Executions
<1>3. Told'
  BY DEF Told, LinkRepairs, LinkOutcome, OutcomeFor
<1>4. VerifiedIsEarned'
  BY DEF VerifiedIsEarned, AllMet, Last
<1> QED BY <1>1, <1>2, <1>3, <1>4, RecordKept

-----------------------------------------------------------------------------
(* The step that decides: an attempt is verified and recorded, and another begins or not *)

\* What verification adds to what is known, whatever it decides.
LEMMA VerifiedAttempt ==
  ASSUME IInv, VerifyReturns
  PROVE  /\ pc = "verify" /\ ~aborted /\ outcome = "RUNNING" /\ remembered = None
         /\ attempt \in 1..MaxRetries /\ Len(attempts) = attempt /\ Len(history) = attempt - 1
         /\ \E results \in [Criteria -> Met] :
              /\ report' = Report(execution, results, Approved)
              /\ InputFromReport(report', execution).criteria = results
         /\ InputFromReport(report', execution) \in Input
         /\ Aggregate(InputFromReport(report', execution)) = report'.verdict /\ report'.verdict \in Verdicts
         /\ InputFromReport(report', execution).tests = report'.tests
         /\ InputFromReport(report', execution).criteria = report'.criteria
         /\ report'.criteria \in [Criteria -> Met] /\ report'.approved = Approved
         /\ report'.hints \in SUBSET (Criteria \cup {"POLICY", "TEST"})
         /\ execution.patch \in Patches \cup {None}
<1>1. PICK results \in CriteriaResults(execution) : report' = Report(execution, results, Approved)
  BY DEF VerifyReturns
<1>2. results \in [Criteria -> Met]
  BY <1>1 DEF CriteriaResults, Met
<1>3. execution \in ExecutionRecord /\ Approved \in BOOLEAN
  BY ExecutionIsARecord DEF IInv, Reported, VerifyReturns, Approved
<1>4. /\ InputFromReport(report', execution) \in Input
      /\ Aggregate(InputFromReport(report', execution)) = report'.verdict /\ report'.verdict \in Verdicts
      /\ InputFromReport(report', execution).tests = report'.tests
      /\ InputFromReport(report', execution).criteria = results /\ report'.criteria = results
      /\ report'.approved = Approved
      /\ report'.hints \in SUBSET (Criteria \cup {"POLICY", "TEST"})
  BY <1>1, <1>2, <1>3, ReportIsFaithful
<1>5. pc = "verify" /\ ~aborted
  BY DEF VerifyReturns, CheckpointPassed
<1>6. outcome = "RUNNING" /\ remembered = None
  BY <1>5 DEF IInv, Progress, Told
<1>7. attempt \in 1..MaxRetries /\ Len(attempts) = attempt /\ Len(history) = attempt - 1
  BY <1>5, RunPipelineAssumption DEF IInv, TypeOK, Progress, HistoryMatches
<1> QED BY <1>1, <1>2, <1>3, <1>4, <1>5, <1>6, <1>7 DEF ExecutionRecord

\* The attempt is recorded, and then either the run goes on to memory or another attempt
\* begins, for a reason and within the budgets.
LEMMA RecordedAttempt ==
  ASSUME IInv, VerifyReturns
  PROVE  /\ attempts' = FinishAttempt(report') /\ attempt' = attempt /\ pc' = "memory"
         \/ /\ attempts' = Append(FinishAttempt(report'), NewAttempt(attempt + 1, report'.hints))
            /\ attempt' = attempt + 1 /\ pc' = "agent" /\ previousPatch' = execution.patch
            /\ attempt < MaxRetries /\ agentMs < AgentTime
            /\ report'.verdict \notin {"pass", "error"} /\ report'.tests # "error" /\ report'.hints # {}
            /\ attempt > 1 => execution.patch # previousPatch
<1>1. CASE RouteRepair(report', execution.patch, attempt > 1, previousPatch) = "repair" /\ attempt < MaxRetries
  <2>1. /\ report'.verdict \notin {"pass", "error"} /\ report'.tests # "error" /\ report'.hints # {}
        /\ attempt > 1 => execution.patch # previousPatch
    BY <1>1 DEF RouteRepair
  <2>2. NextAttempt(FinishAttempt(report'), agentMs, report'.hints)
    BY <1>1 DEF VerifyReturns
  <2>3. previousPatch' = execution.patch
    BY <2>1 DEF VerifyReturns
  <2>4. AgentTimeSpent(agentMs) \/ agentMs < AgentTime
    BY RunPipelineAssumption DEF AgentTimeSpent, IInv, TypeOK
  <2>5. CASE attempt >= MaxRetries \/ AgentTimeSpent(agentMs)
    BY <2>2, <2>5 DEF NextAttempt
  <2>6. CASE ~(attempt >= MaxRetries \/ AgentTimeSpent(agentMs))
    BY <1>1, <2>1, <2>2, <2>3, <2>4, <2>6 DEF NextAttempt
  <2> QED BY <2>5, <2>6
<1>2. CASE ~(RouteRepair(report', execution.patch, attempt > 1, previousPatch) = "repair" /\ attempt < MaxRetries)
  BY <1>2 DEF VerifyReturns
<1> QED BY <1>1, <1>2

\* The record after that step: the attempts before are as they were, the one verified is
\* closed, and one under way may follow.
LEMMA RecordAfterVerify ==
  ASSUME IInv, VerifyReturns
  PROVE  /\ attempts' \in Seq(AttemptRecord) /\ Len(attempts') = attempt' /\ attempt' \in 1..MaxRetries
         /\ \A i \in 1..attempt : i # attempt => attempts'[i] = attempts[i]
         /\ ~attempts'[attempt].open /\ attempts'[attempt].patch = execution.patch
         /\ attempts'[attempt].verdict = report'.verdict
         /\ attempts'[attempt].input = InputFromReport(report', execution)
         /\ attempts'[attempt].reason = attempts[attempt].reason
         /\ \/ attempt' = attempt /\ pc' = "memory"
            \/ /\ attempt' = attempt + 1 /\ pc' = "agent"
               /\ attempts'[attempt'].open /\ attempts'[attempt'].reason = report'.hints
<1> DEFINE recorded == FinishAttempt(report')
           next == NewAttempt(attempt + 1, report'.hints)
<1>1. attempt \in 1..MaxRetries /\ MaxRetries \in Nat
  BY VerifiedAttempt, RunPipelineAssumption
<1>2. /\ recorded \in Seq(AttemptRecord) /\ Len(recorded) = attempt
      /\ \A i \in 1..attempt : i # attempt => recorded[i] = attempts[i]
      /\ ~recorded[attempt].open /\ recorded[attempt].patch = execution.patch
      /\ recorded[attempt].verdict = report'.verdict
      /\ recorded[attempt].input = InputFromReport(report', execution)
      /\ recorded[attempt].reason = attempts[attempt].reason
  BY VerifiedAttempt, FinishAttemptClosesOne DEF IInv
<1> HIDE DEF recorded
<1>3. CASE attempts' = recorded /\ attempt' = attempt /\ pc' = "memory"
  BY <1>1, <1>2, <1>3
<1>4. CASE /\ attempts' = Append(recorded, next) /\ attempt' = attempt + 1 /\ pc' = "agent"
           /\ attempt < MaxRetries
  <2>1. next \in AttemptRecord /\ next.open /\ next.reason = report'.hints
    BY <1>1, <1>4, VerifiedAttempt, NewAttemptIsARecord DEF NewAttempt
  <2> HIDE DEF next
  <2>2. /\ attempts' \in Seq(AttemptRecord) /\ Len(attempts') = attempt + 1
        /\ \A i \in 1..attempt : attempts'[i] = recorded[i]
        /\ attempts'[attempt + 1] = next
    BY <1>2, <1>4, <2>1, AppendProperties
  <2> QED BY <1>1, <1>2, <1>4, <2>1, <2>2
<1> QED BY <1>3, <1>4, RecordedAttempt DEF recorded

\* The invariant, part by part, after an attempt is verified.
LEMMA VerifyReturnsKeepsIInv ==
  ASSUME IInv, VerifyReturns PROVE IInv'
<1>1. UNCHANGED <<mode, agentMs, execution, outcome, remembered, aborted>>
  BY DEF VerifyReturns
<1>2. TypeOK'
  <2>1. repairHints' \subseteq Criteria \cup {"POLICY", "TEST"}
    BY VerifiedAttempt DEF VerifyReturns, IInv, TypeOK
  <2>2. previousPatch' \in Patches \cup {None}
    BY VerifiedAttempt DEF VerifyReturns, IInv, TypeOK
  <2> QED BY <1>1, <2>1, <2>2, RecordAfterVerify, RunPipelineAssumption DEF IInv, TypeOK
<1>3. Progress'
  <2>1. \A i \in 1..Len(attempts') : i < attempt' => ~attempts'[i].open
    BY VerifiedAttempt, RecordAfterVerify DEF IInv, Progress
  <2>2. pc' = "agent" => previousPatch' = attempts'[attempt' - 1].patch
    <3> SUFFICES ASSUME pc' = "agent" PROVE previousPatch' = attempts'[attempt' - 1].patch
      OBVIOUS
    <3>1. attempt' = attempt + 1 /\ attempts'[attempt].patch = execution.patch
      BY RecordAfterVerify
    <3>2. previousPatch' = execution.patch
      BY RecordedAttempt
    <3>3. attempt' - 1 = attempt
      BY <3>1, VerifiedAttempt
    <3> QED BY <3>1, <3>2, <3>3
  <2> QED BY <1>1, <2>1, <2>2, VerifiedAttempt, RecordAfterVerify DEF Progress
<1>4. Reported'
  <2>1. execution' \in Executions' /\ execution'.status # "blocked"
    BY <1>1 DEF IInv, Reported, VerifyReturns, Executions
  <2>2. \E results \in [Criteria -> Met] : report' = Report(execution', results, Approved')
    BY <1>1, VerifiedAttempt DEF Approved
  <2> QED BY <1>1, <2>1, <2>2, RecordAfterVerify DEF Reported
<1>5. HistoryMatches'
  <2> DEFINE Entries == [attempt : Nat, patch : Patches \cup {None}, verdict : Verdicts, approved : BOOLEAN,
                         criteria : [Criteria -> Met], hints : SUBSET (Criteria \cup {"POLICY", "TEST"})]
             entry == Entry(report')
  <2>1. /\ entry \in Entries
        /\ entry.patch = execution.patch /\ entry.verdict = report'.verdict
        /\ entry.criteria = report'.criteria /\ entry.approved = Approved
    <3>1. attempt \in Nat /\ Approved \in BOOLEAN
      BY VerifiedAttempt, RunPipelineAssumption DEF Approved
    <3> QED BY <3>1, VerifiedAttempt DEF Entry
  <2>2. history' = Append(history, entry) /\ history \in Seq(Entries)
    BY DEF VerifyReturns, IInv, HistoryMatches
  <2> HIDE DEF entry, Entries
  <2>3. Len(history) = attempt - 1 /\ attempt \in Nat
    BY VerifiedAttempt, RunPipelineAssumption
  <2>4. /\ history' \in Seq(Entries) /\ Len(history') = attempt
        /\ \A i \in 1..(attempt - 1) : history'[i] = history[i]
        /\ history'[attempt] = entry
    BY <2>1, <2>2, <2>3, AppendProperties
  <2>5. \A i \in 1..(attempt - 1) :
          /\ ~attempts[i].open
          /\ history[i].patch = attempts[i].patch /\ history[i].verdict = attempts[i].verdict
          /\ history[i].criteria = attempts[i].input.criteria /\ history[i].approved = Approved
    BY <2>3 DEF IInv, HistoryMatches
  <2>6. \A i \in 1..Len(history') :
          /\ ~attempts'[i].open
          /\ history'[i].patch = attempts'[i].patch /\ history'[i].verdict = attempts'[i].verdict
          /\ history'[i].criteria = attempts'[i].input.criteria /\ history'[i].approved = Approved
    BY <2>1, <2>3, <2>4, <2>5, VerifiedAttempt, RecordAfterVerify
  <2>7. Approved' = Approved
    BY <1>1 DEF Approved
  <2> QED BY <2>3, <2>4, <2>6, <2>7, RecordAfterVerify DEF HistoryMatches, Entries
<1>6. Told' /\ VerifiedIsEarned'
  BY <1>1, VerifiedAttempt, RecordAfterVerify DEF Told, VerifiedIsEarned
<1>7. RetriesAreJustified'
  <2> SUFFICES ASSUME NEW i \in DOMAIN attempts', i > 1
               PROVE  /\ ~attempts'[i - 1].open
                      /\ attempts'[i - 1].verdict \notin {"pass", "error"}
                      /\ attempts'[i - 1].input.tests # "error"
                      /\ attempts'[i].reason # {}
                      /\ i > 2 => attempts'[i - 1].patch # attempts'[i - 2].patch
    BY DEF RetriesAreJustified
  <2>1. i \in 1..attempt' /\ attempt \in Nat
    BY RecordAfterVerify, VerifiedAttempt, RunPipelineAssumption
  <2>2. CASE i \in 1..attempt
    <3>1. /\ ~attempts[i - 1].open
          /\ attempts[i - 1].verdict \notin {"pass", "error"} /\ attempts[i - 1].input.tests # "error"
          /\ attempts[i].reason # {}
          /\ i > 2 => attempts[i - 1].patch # attempts[i - 2].patch
      BY <2>2, VerifiedAttempt DEF IInv, RetriesAreJustified, TypeOK
    <3>2. attempts'[i - 1] = attempts[i - 1] /\ (i > 2 => attempts'[i - 2] = attempts[i - 2])
      BY <2>1, <2>2, RecordAfterVerify
    <3>3. attempts'[i].reason = attempts[i].reason
      BY <2>2, RecordAfterVerify
    <3> QED BY <3>1, <3>2, <3>3
  <2>3. CASE i = attempt + 1 /\ attempt' = attempt + 1 /\ pc' = "agent"
    <3>1. /\ report'.verdict \notin {"pass", "error"} /\ report'.tests # "error" /\ report'.hints # {}
          /\ attempt > 1 => execution.patch # previousPatch
      BY <2>3, RecordedAttempt
    <3>2. i - 1 = attempt /\ i - 2 = attempt - 1
      BY <2>1, <2>3
    <3>3. attempts'[attempt].input.tests = report'.tests
      BY RecordAfterVerify, VerifiedAttempt
    <3>4. attempt > 1 => attempts'[attempt - 1].patch = previousPatch
      <4>1. attempt > 1 => previousPatch = attempts[attempt - 1].patch
        BY VerifiedAttempt DEF IInv, Progress
      <4>2. attempt > 1 => attempts'[attempt - 1] = attempts[attempt - 1]
        BY <2>1, RecordAfterVerify
      <4> QED BY <4>1, <4>2
    <3>5. i > 2 => attempt > 1
      BY <2>1, <2>3
    <3>6. attempts'[i].reason = report'.hints
      BY <2>3, RecordAfterVerify
    <3> QED BY <3>1, <3>2, <3>3, <3>4, <3>5, <3>6, RecordAfterVerify
  <2> QED BY <2>1, <2>2, <2>3, RecordAfterVerify
<1>8. RecordReplays'
  <2> SUFFICES ASSUME NEW i \in DOMAIN attempts', ~attempts'[i].open
               PROVE  Aggregate(attempts'[i].input) = attempts'[i].verdict
    BY DEF RecordReplays
  <2>1. i \in 1..attempt' /\ attempt \in Nat
    BY RecordAfterVerify, VerifiedAttempt, RunPipelineAssumption
  <2>2. i \in 1..attempt
    BY <2>1, RecordAfterVerify
  <2>3. CASE i = attempt
    BY <2>3, RecordAfterVerify, VerifiedAttempt
  <2>4. CASE i # attempt
    <3>1. attempts'[i] = attempts[i] /\ i \in DOMAIN attempts
      BY <2>2, <2>4, RecordAfterVerify, VerifiedAttempt DEF IInv, TypeOK
    <3> QED BY <3>1 DEF IInv, RecordReplays
  <2> QED BY <2>3, <2>4
<1> QED BY <1>2, <1>3, <1>4, <1>5, <1>6, <1>7, <1>8 DEF IInv

-----------------------------------------------------------------------------
(* Theorems *)

\* Every step of a run keeps the invariant.
LEMMA NextKeepsIInv == IInv /\ [Next]_vars => IInv'
<1> SUFFICES ASSUME IInv, [Next]_vars PROVE IInv'
  OBVIOUS
<1>1. CASE ContextReady
  BY <1>1, ContextReadyKeepsIInv
<1>2. CASE AgentReturns
  BY <1>2, AgentReturnsKeepsIInv
<1>3. CASE VerifyReturns
  BY <1>3, VerifyReturnsKeepsIInv
<1>4. CASE CheckpointThrows \/ Interrupted
  <2>1. remembered = None
    BY <1>4 DEF CheckpointThrows, Interrupted, Awaiting, IInv, Told
  <2> QED BY <1>4, <2>1, EndingKeepsIInv DEF CheckpointThrows, Interrupted, EndWith
<1>5. CASE Killed
  BY <1>5, EndingKeepsIInv DEF Killed
<1>6. CASE Remember
  BY <1>6, RememberKeepsIInv
<1>7. CASE FinishRun
  BY <1>7, FinishRunKeepsIInv
<1>8. CASE DeadlinePasses
  <2>1. aborted' \in BOOLEAN
    BY <1>8, Zenon DEF DeadlinePasses
  <2> QED BY <1>8, <2>1, DeadlineKeepsIInv DEF DeadlinePasses
<1>9. CASE UNCHANGED vars
  <2>1. aborted' \in BOOLEAN
    BY <1>9 DEF vars, IInv, TypeOK
  <2> QED BY <1>9, <2>1, DeadlineKeepsIInv DEF vars
<1> QED BY <1>1, <1>2, <1>3, <1>4, <1>5, <1>6, <1>7, <1>8, <1>9 DEF Next

\* The inductive invariant holds throughout every run.
THEOREM Invariance == Spec => []IInv
<1>1. Init => IInv
  BY InitIInv
<1>2. IInv /\ [Next]_vars => IInv'
  BY NextKeepsIInv
<1> QED BY <1>1, <1>2, PTL DEF Spec

\* The variables of runPipeline and of the run record stay well formed.
THEOREM TypeCorrect == Spec => []TypeOK
<1>1. IInv => TypeOK
  BY DEF IInv
<1> QED BY <1>1, Invariance, PTL

\* What memory was told agrees with the record in every state of the invariant.
LEMMA MemoryFromIInv == IInv => MemoryMatchesTheRecord
<1> SUFFICES ASSUME IInv, remembered # None PROVE MemoryMatchesTheRecord
  BY DEF MemoryMatchesTheRecord
<1>1. /\ Len(history) = Len(attempts) /\ remembered.attempts = Len(attempts)
      /\ outcome \in {"RUNNING", "ABANDONED", OutcomeFor(remembered.verdict)}
  BY DEF IInv, Told
<1>2. \A i \in DOMAIN attempts :
        /\ ~attempts[i].open
        /\ history[i].patch = attempts[i].patch /\ history[i].verdict = attempts[i].verdict
  BY <1>1 DEF IInv, HistoryMatches, TypeOK
<1> QED BY <1>1, <1>2 DEF MemoryMatchesTheRecord

\* A link of the history that says resolved is backed by the attempts behind it.
LEMMA ProvenFromIInv == IInv => ProvenRepairsWorked
<1> SUFFICES ASSUME IInv, remembered # None, NEW l \in remembered.links, l.outcome = "resolved"
             PROVE  /\ Approved /\ Last(attempts).verdict = "pass"
                    /\ Last(attempts).input.criteria[l.criterion] = "met"
                    /\ attempts[l.from].input.criteria[l.criterion] = "unmet"
                    /\ attempts[l.from + 1].input.criteria[l.criterion] = "met"
                    /\ attempts[l.from + 1].patch \notin {None, attempts[l.from].patch}
  BY DEF ProvenRepairsWorked
<1>1. Len(history) = Len(attempts) /\ Len(attempts) \in Nat /\ Len(attempts) > 0
  BY DEF IInv, Told, TypeOK
<1>2. PICK i \in 1..Len(history) : \E c \in history[i].hints :
        l = [criterion |-> c, from |-> i, outcome |-> LinkOutcome(history, i, c)]
  <2>1. l \in LinkRepairs(history) /\ DOMAIN history = 1..Len(history)
    BY DEF IInv, Told, HistoryMatches
  <2> QED BY <2>1 DEF LinkRepairs
<1>3. PICK c \in history[i].hints :
        l = [criterion |-> c, from |-> i, outcome |-> LinkOutcome(history, i, c)]
  BY <1>2
<1>4. LinkOutcome(history, i, c) = "resolved" /\ l.criterion = c /\ l.from = i
  BY <1>3
<1>5. /\ history[i].criteria[c] = "unmet" /\ i # Len(history)
      /\ history[i + 1].patch \notin {None, history[i].patch} /\ history[i + 1].criteria[c] = "met"
      /\ Last(history).verdict = "pass" /\ Last(history).approved /\ Last(history).criteria[c] = "met"
  BY <1>4 DEF LinkOutcome
<1>6. \A j \in 1..Len(history) :
        /\ history[j].patch = attempts[j].patch /\ history[j].verdict = attempts[j].verdict
        /\ history[j].criteria = attempts[j].input.criteria /\ history[j].approved = Approved
  BY DEF IInv, HistoryMatches
<1>7. i + 1 \in 1..Len(history) /\ Len(history) \in 1..Len(history)
  BY <1>1, <1>2, <1>5
<1>8. Last(history) = history[Len(history)] /\ Last(attempts) = attempts[Len(history)]
  BY <1>1 DEF Last
<1> QED BY <1>2, <1>4, <1>5, <1>6, <1>7, <1>8

\* A step starts an attempt only within the run's deadline, its retries and its agent time.
Within ==
  Len(attempts') > Len(attempts) =>
    ~aborted /\ outcome = "RUNNING" /\ agentMs < AgentTime /\ Len(attempts) < MaxRetries

LEMMA StepWithinBudget == IInv /\ [Next]_vars => [Within]_vars
<1> SUFFICES ASSUME IInv, Next, Len(attempts') > Len(attempts) PROVE Within
  BY DEF vars, recordVars, Within
<1> USE DEF Within
<1>0. Len(attempts) = attempt /\ attempt \in Nat /\ agentMs \in Nat
  BY DEF IInv, TypeOK
<1>1. CASE ContextReady
  <2>1. attempt = 0 /\ agentMs = 0 /\ outcome = "RUNNING" /\ ~aborted
    BY <1>1 DEF ContextReady, CheckpointPassed, IInv, Progress
  <2> QED BY <1>0, <2>1, RunPipelineAssumption
<1>2. CASE VerifyReturns
  <2>1. Len(attempts') = attempt'
    BY <1>2, RecordAfterVerify
  <2> QED BY <1>0, <1>2, <2>1, RecordedAttempt, VerifiedAttempt
<1>3. CASE \/ AgentReturns \/ CheckpointThrows \/ Remember \/ FinishRun
           \/ DeadlinePasses \/ Interrupted \/ Killed
  <2>1. attempts' = attempts
    BY <1>3 DEF AgentReturns, CheckpointThrows, Remember, FinishRun, DeadlinePasses, Interrupted,
                Killed, recordVars
  <2> QED BY <1>0, <2>1
<1> QED BY <1>1, <1>2, <1>3 DEF Next

qbVars == <<vars, sessionVars>>

-----------------------------------------------------------------------------
(* The pipeline's invariant, from the request on *)

SessionPlaces == {"file", "draft", "correction", "answer", "contract", "confirm"}

\* The run is in its session, and nothing of the pipeline has happened.
BeforeThePipeline ==
  /\ pc \in SessionPlaces /\ outcome = "RUNNING"
  /\ mode \in Modes /\ aborted \in BOOLEAN
  /\ BeforeTheLoop

RunInv == BeforeThePipeline \/ IInv

\* The session is over, and nothing of the pipeline has happened.
AfterTheSession ==
  /\ mode \in Modes /\ aborted \in BOOLEAN /\ BeforeTheLoop
  /\ \/ pc = "context" /\ outcome = "RUNNING"
     \/ pc \in {"ended", "killed"} /\ outcome \in {"BLOCKED", "CANCELLED", "ERROR", "ABANDONED"}

\* Then the pipeline's invariant holds: it starts, or it never will.
LEMMA HandedOver == AfterTheSession => IInv
<1> SUFFICES ASSUME AfterTheSession PROVE IInv
  OBVIOUS
<1> USE RunPipelineAssumption DEF AfterTheSession, BeforeTheLoop
<1>1. TypeOK
  <2>1. execution.patch = None
    BY DEF NoExecution
  <2>2. aborted \in BOOLEAN
    BY Zenon
  <2>3. attempts \in Seq(AttemptRecord) /\ Len(attempts) = attempt /\ attempt \in 0..MaxRetries
    OBVIOUS
  <2> QED BY <2>1, <2>2, <2>3 DEF TypeOK
<1>2. Progress /\ Reported /\ HistoryMatches /\ Told
  BY DEF Progress, Reported, HistoryMatches, Told
<1>3. VerifiedIsEarned /\ RetriesAreJustified /\ RecordReplays
  BY DEF VerifiedIsEarned, RetriesAreJustified, RecordReplays
<1> QED BY <1>1, <1>2, <1>3 DEF IInv

\* The pipeline does not move while the session is on, nor the session once it is over.
LEMMA OneAtATime ==
  /\ Next => pc \notin SessionPlaces
  /\ Session!Next => pc \in SessionPlaces
<1>1. Next => pc \notin SessionPlaces
  BY DEF SessionPlaces, Next, ContextReady, AgentReturns, VerifyReturns, CheckpointThrows, Interrupted,
         Killed, Remember, FinishRun, DeadlinePasses, Awaiting
<1>2. Session!Next => pc \in SessionPlaces
  BY DEF SessionPlaces, Session!Next, Session!Question, Session!UserAnswers, Session!ModelDrafts,
         Session!ModelCorrects, Session!CallFails, Session!ReadContractFile, Session!Unprompted,
         Session!ShowContract, Session!Approve, Session!Decline, Session!DeadlinePasses,
         Session!Interrupted, Session!Killed, Session!InSession
<1> QED BY <1>1, <1>2

\* A step of the session goes on with it, hands over, or ends the run without a verdict.
LEMMA SessionStep ==
  ASSUME Session!Next, outcome = "RUNNING"
  PROVE  /\ mode' = mode
         /\ \/ pc' \in SessionPlaces \cup {"context"} /\ outcome' = "RUNNING"
            \/ pc' \in {"ended", "killed"} /\ outcome' \in {"BLOCKED", "CANCELLED", "ERROR", "ABANDONED"}
<1> USE DEF SessionPlaces, Session!EndWith
<1>1. CASE Session!Question
  BY <1>1 DEF Session!Question, Session!GivesUp, Session!Answered
<1>2. CASE Session!UserAnswers
  BY <1>2 DEF Session!UserAnswers, Session!GivesUp, Session!Answered
<1>3. CASE Session!ModelDrafts
  BY <1>3 DEF Session!ModelDrafts
<1>4. CASE Session!ModelCorrects
  BY <1>4 DEF Session!ModelCorrects
<1>5. CASE Session!CallFails
  BY <1>5 DEF Session!CallFails
<1>6. CASE Session!ReadContractFile
  BY <1>6 DEF Session!ReadContractFile
<1>7. CASE Session!Unprompted \/ Session!Approve
  BY <1>7 DEF Session!Unprompted, Session!Approve, Session!Proceed
<1>8. CASE Session!ShowContract
  BY <1>8 DEF Session!ShowContract
<1>9. CASE Session!Decline
  BY <1>9 DEF Session!Decline
<1>10. CASE Session!DeadlinePasses
  BY <1>10 DEF Session!DeadlinePasses, Session!InSession
<1>11. CASE Session!Interrupted \/ Session!Killed
  BY <1>11 DEF Session!Interrupted, Session!Killed
<1> QED BY <1>1, <1>2, <1>3, <1>4, <1>5, <1>6, <1>7, <1>8, <1>9, <1>10, <1>11 DEF Session!Next

\* The session's steps pass a deadline or leave it alone.
LEMMA SessionKeepsAborted ==
  ASSUME Session!Next, aborted \in BOOLEAN PROVE aborted' \in BOOLEAN
BY Zenon DEF Session!Next, Session!Question, Session!UserAnswers, Session!ModelDrafts,
         Session!ModelCorrects, Session!CallFails, Session!ReadContractFile, Session!Unprompted,
         Session!ShowContract, Session!Approve, Session!Decline, Session!Proceed,
         Session!DeadlinePasses, Session!Interrupted, Session!Killed

\* The pipeline's invariant holds throughout a whole run, from the moment its session is over.
THEOREM RunInvariance == QbSpec => []RunInv
<1>1. QbInit => RunInv
  BY DEF QbInit, Session!Init, RunInv, BeforeThePipeline, SessionPlaces
<1>2. RunInv /\ [QbNext]_qbVars => RunInv'
  <2> SUFFICES ASSUME RunInv, [QbNext]_qbVars PROVE RunInv'
    OBVIOUS
  <2>1. CASE Session!Next /\ UNCHANGED <<loopVars, attempts, remembered>>
    <3>1. BeforeThePipeline
      BY <2>1, OneAtATime DEF RunInv, IInv, TypeOK, SessionPlaces
    <3>2. BeforeTheLoop'
      BY <2>1, <3>1 DEF BeforeThePipeline, BeforeTheLoop, loopVars
    <3>3. mode' \in Modes
      BY <2>1, <3>1, SessionStep DEF BeforeThePipeline
    <3>4. aborted' \in BOOLEAN
      BY <2>1, <3>1, SessionKeepsAborted DEF BeforeThePipeline
    <3>5. CASE pc' \in SessionPlaces /\ outcome' = "RUNNING"
      BY <3>2, <3>3, <3>4, <3>5 DEF RunInv, BeforeThePipeline
    <3>6. CASE \/ pc' = "context" /\ outcome' = "RUNNING"
               \/ pc' \in {"ended", "killed"} /\ outcome' \in {"BLOCKED", "CANCELLED", "ERROR", "ABANDONED"}
      <4>1. AfterTheSession'
        BY <3>2, <3>3, <3>4, <3>6 DEF AfterTheSession
      <4>2. IInv'
        BY <4>1, HandedOver, PTL
      <4> QED BY <4>2 DEF RunInv
    <3> QED BY <2>1, <3>1, <3>5, <3>6, SessionStep DEF BeforeThePipeline
  <2>2. CASE Next /\ UNCHANGED sessionVars
    <3>1. IInv
      BY <2>2, OneAtATime DEF RunInv, BeforeThePipeline
    <3> QED BY <2>2, <3>1, NextKeepsIInv DEF RunInv
  <2>3. CASE UNCHANGED qbVars
    <3>1. CASE BeforeThePipeline
      BY <2>3, <3>1 DEF qbVars, vars, loopVars, recordVars, RunInv, BeforeThePipeline, BeforeTheLoop
    <3>2. CASE IInv
      <4>1. UNCHANGED vars
        BY <2>3 DEF qbVars
      <4> QED BY <3>2, <4>1, NextKeepsIInv DEF RunInv
    <3> QED BY <3>1, <3>2 DEF RunInv
  <2> QED BY <2>1, <2>2, <2>3 DEF QbNext
<1> QED BY <1>1, <1>2, PTL DEF QbSpec, qbVars

-----------------------------------------------------------------------------
(* What holds throughout a run *)

\* No run is VERIFIED but on the evidence of its last attempt (qb.js:354).
THEOREM VerifiedRunsAreEarned == QbSpec => []VerifiedIsEarned
<1>1. RunInv => VerifiedIsEarned
  BY DEF RunInv, BeforeThePipeline, IInv, VerifiedIsEarned
<1> QED BY <1>1, RunInvariance, PTL

\* No agent is started again but for a reason (verify/routing.js).
THEOREM RetriesOfARunAreJustified == QbSpec => []RetriesAreJustified
<1>1. RunInv => RetriesAreJustified
  BY DEF RunInv, BeforeThePipeline, BeforeTheLoop, IInv, RetriesAreJustified
<1> QED BY <1>1, RunInvariance, PTL

\* Every recorded verdict replays from what is recorded of it (verify/verdict.js:4).
THEOREM RecordOfARunReplays == QbSpec => []RecordReplays
<1>1. RunInv => RecordReplays
  BY DEF RunInv, BeforeThePipeline, BeforeTheLoop, IInv, RecordReplays
<1> QED BY <1>1, RunInvariance, PTL

\* Memory is told what the record says of the run.
THEOREM MemoryOfARunAgrees == QbSpec => []MemoryMatchesTheRecord
<1>1. RunInv => MemoryMatchesTheRecord
  BY MemoryFromIInv DEF RunInv, BeforeThePipeline, BeforeTheLoop, MemoryMatchesTheRecord
<1> QED BY <1>1, RunInvariance, PTL

\* A repair is called proven only where the record shows that it worked (memory/repairs.js:13-18).
THEOREM ProvenRepairsOfARunWorked == QbSpec => []ProvenRepairsWorked
<1>1. RunInv => ProvenRepairsWorked
  BY ProvenFromIInv DEF RunInv, BeforeThePipeline, BeforeTheLoop, ProvenRepairsWorked
<1> QED BY <1>1, RunInvariance, PTL

\* An attempt starts only within the run's deadline, its retries and its agent time, and none in the
\* session.
THEOREM RunIsWithinBudget == QbSpec => AttemptsAreWithinBudget
<1>1. RunInv /\ [QbNext]_qbVars => [Within]_vars
  <2> SUFFICES ASSUME RunInv, [QbNext]_qbVars PROVE [Within]_vars
    OBVIOUS
  <2>1. CASE Session!Next /\ UNCHANGED <<loopVars, attempts, remembered>>
    <3>1. BeforeThePipeline /\ attempts' = attempts
      BY <2>1, OneAtATime DEF RunInv, IInv, TypeOK, SessionPlaces
    <3> QED BY <3>1 DEF BeforeThePipeline, BeforeTheLoop, Within
  <2>2. CASE Next /\ UNCHANGED sessionVars
    <3>1. IInv
      BY <2>2, OneAtATime DEF RunInv, BeforeThePipeline
    <3> QED BY <2>2, <3>1, StepWithinBudget
  <2>3. CASE UNCHANGED qbVars
    BY <2>3 DEF qbVars
  <2> QED BY <2>1, <2>2, <2>3 DEF QbNext
<1> QED BY <1>1, RunInvariance, PTL DEF QbSpec, qbVars, AttemptsAreWithinBudget, Within

-----------------------------------------------------------------------------
(* The intent session *)

\* A term leaves the open ones only with an answer bound to it that settles it.
Settled(r) ==
  /\ round' = round + 1 /\ last'.question = r
  /\ last'.answer.says # "nothing"
  /\ r \in Measured => last'.answer.says = "target"

\* An answer settles what it defines, and that only.
LEMMA AnsweredSettles ==
  ASSUME NEW a \in Session!Answers, Session!Answered(a), NEW r \in open \ open'
  PROVE  Settled(r)
<1>1. Session!Defines(a, r)
  BY DEF Session!Answered
<1>2. last' = [question |-> Session!Bound(a), answer |-> a] /\ round' = round + 1
  BY DEF Session!Answered
<1>3. Session!Bound(a) = r /\ Session!Decides(a, r)
  BY <1>1 DEF Session!Defines
<1> QED BY <1>2, <1>3 DEF Settled, Session!Decides

\* What a step of the session needs to know of those before it.
SessionInv ==
  /\ pc \in {"draft", "answer"} => rejected = None
  /\ pc \in {"file", "draft", "answer", "correction"} => contract = None
  /\ pc = "correction" => open = {}
  /\ pc = "file" => source = "file" /\ open = {} /\ rejected = None
  /\ contract # None => open = {}
  /\ pc \in {"contract", "confirm"} =>
       /\ Session!Finalized(contract) /\ open = {}
       /\ rejected \notin {None, Session!Unreadable} => Session!Proposed(contract) \subseteq rejected.covered
       /\ rejected # None => evidence

\* Every step of the session keeps its invariant.
LEMMA SessionKeepsInv ==
  ASSUME SessionInv, Session!Next PROVE SessionInv'
<1> USE DEF SessionInv, Session!EndWith
<1>1. CASE Session!Question
  BY <1>1 DEF Session!Question, Session!GivesUp, Session!Answered
<1>2. CASE Session!UserAnswers
  BY <1>2 DEF Session!UserAnswers, Session!GivesUp, Session!Answered
<1>3. CASE Session!ModelDrafts
  BY <1>3 DEF Session!ModelDrafts, Session!Finalized, Session!Proposed
<1>4. CASE Session!ModelCorrects
  BY <1>4 DEF Session!ModelCorrects, Session!Corrected, Session!Justified, Session!Finalized, Session!Proposed
<1>5. CASE Session!CallFails
  BY <1>5 DEF Session!CallFails
<1>6. CASE Session!ReadContractFile
  BY <1>6 DEF Session!ReadContractFile, Session!Finalized, Session!Proposed
<1>7. CASE Session!Unprompted \/ Session!Approve
  BY <1>7 DEF Session!Unprompted, Session!Approve, Session!Proceed
<1>8. CASE Session!ShowContract
  BY <1>8 DEF Session!ShowContract, Session!sessionVars, Session!Finalized, Session!Proposed
<1>9. CASE Session!Decline
  BY <1>9 DEF Session!Decline, Session!sessionVars, Session!Finalized, Session!Proposed
<1>10. CASE Session!DeadlinePasses
  BY <1>10 DEF Session!DeadlinePasses, Session!sessionVars, Session!Finalized, Session!Proposed
<1>11. CASE Session!Interrupted \/ Session!Killed
  BY <1>11 DEF Session!Interrupted, Session!Killed, Session!sessionVars, Session!Finalized, Session!Proposed
<1> QED BY <1>1, <1>2, <1>3, <1>4, <1>5, <1>6, <1>7, <1>8, <1>9, <1>10, <1>11 DEF Session!Next

\* The pipeline leaves the session alone, and nothing goes back before it.
LEMMA PipelineKeepsSessionInv ==
  ASSUME SessionInv, Next, UNCHANGED sessionVars
  PROVE  SessionInv' /\ (pc' = "context" => pc = "context")
<1>1. pc' \notin SessionPlaces /\ (pc' = "context" => pc = "context")
  <2> USE DEF SessionPlaces
  <2>1. CASE ContextReady \/ VerifyReturns
    BY <2>1 DEF ContextReady, VerifyReturns, NextAttempt
  <2>2. CASE AgentReturns \/ CheckpointThrows \/ Remember \/ FinishRun
    BY <2>2 DEF AgentReturns, CheckpointThrows, Remember, FinishRun, EndWith
  <2>3. CASE DeadlinePasses \/ Interrupted \/ Killed
    BY <2>3 DEF DeadlinePasses, Interrupted, Killed, EndWith, Awaiting
  <2> QED BY <2>1, <2>2, <2>3 DEF Next
<1>2. contract' # None => open' = {}
  BY DEF SessionInv, sessionVars
<1> QED BY <1>1, <1>2 DEF SessionInv, SessionPlaces

\* The session's invariant holds throughout a whole run.
THEOREM SessionInvariance == QbSpec => []SessionInv
<1>1. QbInit => SessionInv
  BY DEF QbInit, Session!Init, SessionInv
<1>2. SessionInv /\ [QbNext]_qbVars => SessionInv'
  <2> SUFFICES ASSUME SessionInv, [QbNext]_qbVars PROVE SessionInv'
    OBVIOUS
  <2>1. CASE UNCHANGED qbVars
    BY <2>1 DEF qbVars, vars, sessionVars, SessionInv, Session!Finalized, Session!Proposed
  <2> QED BY <2>1, SessionKeepsInv, PipelineKeepsSessionInv DEF QbNext
<1> QED BY <1>1, <1>2, PTL DEF QbSpec, qbVars

\* A vague term is settled only by an answer bound to its own question that says something testable,
\* and no contract is made while one is open, for any rules and answers (intent/dsa.js:6-20).
THEOREM TermsAreSettled == QbSpec => TermsAreSettledByTheirAnswers
<1> DEFINE Good == /\ contract' # None /\ source # "file" => open = {}
                   /\ \A r \in open \ open' : Settled(r)
<1>1. SessionInv /\ [QbNext]_qbVars => [Good]_(Session!vars)
  <2> SUFFICES ASSUME SessionInv, [QbNext]_qbVars, Session!vars' # Session!vars PROVE Good
    OBVIOUS
  <2>1. CASE Session!Next
    <3>1. contract' # None => open = {}
      BY <2>1, SessionKeepsInv DEF SessionInv, Session!Next, Session!Question, Session!UserAnswers,
         Session!ModelDrafts, Session!ModelCorrects, Session!CallFails, Session!ReadContractFile,
         Session!Unprompted, Session!ShowContract, Session!Approve, Session!Decline, Session!Proceed,
         Session!DeadlinePasses, Session!Interrupted, Session!Killed, Session!sessionVars
    <3>2. open' = open \/ \E a \in Session!Answers : Session!Answered(a)
      BY <2>1 DEF Session!Next, Session!Question, Session!UserAnswers,
         Session!ModelDrafts, Session!ModelCorrects, Session!CallFails, Session!ReadContractFile,
         Session!Unprompted, Session!ShowContract, Session!Approve, Session!Decline, Session!Proceed,
         Session!DeadlinePasses, Session!Interrupted, Session!Killed, Session!sessionVars
    <3>3. \A r \in open \ open' : Settled(r)
      BY <3>2, AnsweredSettles
    <3> QED BY <3>1, <3>3
  <2>2. CASE UNCHANGED sessionVars
    BY <2>2 DEF sessionVars, SessionInv
  <2> QED BY <2>1, <2>2 DEF QbNext, qbVars
<1> QED BY <1>1, SessionInvariance, PTL
        DEF QbSpec, qbVars, TermsAreSettledByTheirAnswers, Session!TermsAreSettledByTheirAnswers, Settled

\* What runs was reviewed, is final, and makes no choice that its author did not justify, for any
\* drafts and defaults (qb.js:204-273, intent/session.js:126-143).
THEOREM ReviewedContractsRun == QbSpec => OnlyReviewedContractsRun
<1> DEFINE Reviewed ==
      pc # "context" /\ pc' = "context" =>
        /\ Session!Finalized(contract) /\ open = {}
        /\ mode = "approved" => source = "file" \/ pc = "confirm"
        /\ rejected \notin {None, Session!Unreadable} => Session!Proposed(contract) \subseteq rejected.covered
        /\ rejected # None => evidence
<1>1. SessionInv /\ [QbNext]_qbVars => [Reviewed]_(Session!vars)
  <2> SUFFICES ASSUME SessionInv, [QbNext]_qbVars, pc # "context", pc' = "context" PROVE Reviewed
    OBVIOUS
  <2>1. Session!Next
    BY PipelineKeepsSessionInv DEF QbNext, qbVars, vars
  <2>2. Session!Unprompted \/ Session!Approve
    BY <2>1 DEF Session!Next, Session!Question, Session!UserAnswers, Session!GivesUp, Session!Answered,
         Session!EndWith, Session!ModelDrafts, Session!ModelCorrects, Session!CallFails,
         Session!ReadContractFile, Session!ShowContract, Session!Decline,
         Session!DeadlinePasses, Session!Interrupted, Session!Killed, Session!sessionVars
  <2>3. pc \in {"contract", "confirm"} /\ (mode = "approved" => source = "file" \/ pc = "confirm")
    BY <2>2 DEF Session!Unprompted, Session!Approve, Session!NeedsPrompt
  <2> QED BY <2>3 DEF SessionInv
<1> QED BY <1>1, SessionInvariance, PTL
        DEF QbSpec, qbVars, OnlyReviewedContractsRun, Session!OnlyReviewedContractsRun

=============================================================================
