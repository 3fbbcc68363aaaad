----------------------------- MODULE RunPipeline -----------------------------
(***************************************************************************)
(* One run of qb after its contract is fixed (lib/qb-pipeline.js, qb.js):  *)
(* build the context, let the agent try, verify, repair or stop, remember, *)
(* record the outcome.                                                     *)
(*                                                                         *)
(* JavaScript runs from one await to the next without interruption: a step *)
(* is what happens from the answer of one await up to the next one. While  *)
(* the run awaits, its deadline may pass, a signal may end it, and what it *)
(* awaits may fail. The process may be killed at any point of `pc`.        *)
(*                                                                         *)
(* A definition that precedes the one it resembles is a seeded fault.      *)
(***************************************************************************)
EXTENDS Verdict, Sequences, SequencesExt, FiniteSetsExt

CONSTANTS
  Patches,         \* what an agent may have changed
  TestRuns,        \* the test runs that may be seen
  Policies,        \* the policy findings that may be seen
  FailedStatuses,  \* the failed executions that may be seen
  MaxRetries,      \* --max-retries
  AgentTime,       \* agent_time_ms: agent time for all attempts together
  Spends,          \* the agent time one attempt may take
  Modes,           \* the runs: an approved contract, an exploration, a dry run
  RecalledHints    \* criteria that memory recalls a repair of

ASSUME RunPipelineAssumption ==
  /\ None \notin Patches
  /\ TestRuns \subseteq TestRun /\ Policies \subseteq PolicyFinding
  /\ FailedStatuses \subseteq FailedExecution
  /\ MaxRetries \in Nat \ {0} /\ AgentTime \in Nat \ {0}
  /\ Spends \subseteq Nat
  /\ Modes \subseteq {"approved", "exploration", "dry-run"}
  /\ RecalledHints \subseteq Criteria

VARIABLES
  mode,          \* how the run was started
  pc,            \* what the run awaits: context, agent, verify or memory;
                 \* then record, and at last ended or killed
  attempt,       \* the attempt under way
  agentMs,       \* agent time spent
  repairHints,   \* hints for the attempt under way
  previousPatch, \* patch of the attempt before
  execution,     \* what the agent brought back
  report,        \* the last report
  history,       \* one entry per verified attempt
  attempts,      \* manifest.attempts
  outcome,       \* manifest.outcome
  aborted,       \* the run's deadline has passed
  remembered     \* what memory was told of this run

loopVars == <<attempt, agentMs, repairHints, previousPatch, execution, report, history>>
recordVars == <<attempts, outcome, remembered>>
vars == <<mode, pc, loopVars, recordVars, aborted>>

AwaitingToTheEnd == pc \in {"context", "agent", "verify", "memory", "record"}
Awaiting == pc \in {"context", "agent", "verify", "memory"}
Approved == mode = "approved"

NoExecution(status) == [status |-> status, patch |-> None, tests |-> "not_run",
                        policy |-> "clean", unsupported |-> FALSE]

\* What the sandbox can bring back: a change, one it could not capture in full,
\* no change, an agent that failed, or no run at all.
Executions ==
  IF mode = "dry-run" THEN {NoExecution("dry_run")} ELSE
  [status : {"completed"}, patch : Patches, tests : TestRuns, policy : Policies, unsupported : {FALSE}]
    \cup [status : {"completed"}, patch : Patches, tests : TestRuns, policy : {"clean"}, unsupported : {TRUE}]
    \cup [status : {"completed"}, patch : {None}, tests : {"not_run"}, policy : {"clean"}, unsupported : {TRUE}]
    \cup [status : {"no_change"}, patch : {None}, tests : TestRuns, policy : Policies \ {"out_of_scope"},
          unsupported : {FALSE}]
    \cup [status : FailedStatuses, patch : Patches \cup {None}, tests : {"not_run"}, policy : {"clean"},
          unsupported : {FALSE}]
    \cup {NoExecution("blocked")}

\* A failed execution and a dry run leave every criterion unknown; otherwise the
\* checks and the judge decide each.
CriteriaResults(ex) ==
  IF ex.status \in FailedExecution \cup {"dry_run"} THEN [Criteria -> {"unknown"}] ELSE [Criteria -> Met]

OutcomeFor(verdict) ==
  IF verdict = "pass" THEN "VERIFIED"
  ELSE IF verdict = "fail" THEN "FAILED"
  ELSE IF verdict = "no-diff" /\ mode = "dry-run" THEN "DRY_RUN"
  ELSE IF verdict \in {"partial", "unresolved", "no-diff"} THEN "UNRESOLVED" ELSE "ERROR"

BeforeTheLoop ==
  /\ attempt = 0 /\ agentMs = 0
  /\ repairHints = RecalledHints /\ previousPatch = None
  /\ execution = NoExecution("none") /\ report = None /\ history = <<>>
  /\ attempts = <<>> /\ remembered = None

Init ==
  /\ mode \in Modes /\ pc = "context" /\ outcome = "RUNNING" /\ aborted = FALSE
  /\ BeforeTheLoop

-----------------------------------------------------------------------------
(* The loop *)

\* run.abort, and the process exits.
EndWith(o) == outcome' = o /\ pc' = "ended"

AgentTimeSpent(ms) == AgentTime - ms <= 0

NewAttempt(n, hints) ==
  [attempt |-> n, reason |-> hints, open |-> TRUE, patch |-> None, verdict |-> "null", input |-> None]

\* The top of the loop: no attempt starts once the agent's time is spent.
NextAttempt(recorded, ms, hints) ==
  IF attempt >= MaxRetries \/ AgentTimeSpent(ms)
  THEN /\ pc' = "memory" /\ attempts' = recorded
       /\ UNCHANGED attempt
  ELSE /\ pc' = "agent" /\ attempt' = attempt + 1
       /\ attempts' = Append(recorded, NewAttempt(attempt + 1, hints))

\* budget.checkpoint(): after an await, a run whose deadline has passed ends here.
NoCheckpoint == TRUE
CheckpointPassed == ~aborted
CheckpointThrows ==
  /\ pc \in {"context", "agent", "verify"} /\ ~CheckpointPassed
  /\ EndWith("CANCELLED")
  /\ UNCHANGED <<mode, loopVars, attempts, remembered, aborted>>

ContextReady ==
  /\ pc = "context" /\ CheckpointPassed
  /\ NextAttempt(attempts, agentMs, repairHints)
  /\ UNCHANGED <<mode, agentMs, repairHints, previousPatch, execution, report, history,
                 outcome, remembered, aborted>>

AgentReturns ==
  /\ pc = "agent" /\ CheckpointPassed
  /\ \E ex \in Executions, ms \in Spends : execution' = ex /\ agentMs' = agentMs + ms
  /\ IF execution'.status = "blocked" THEN EndWith("BLOCKED") ELSE pc' = "verify" /\ UNCHANGED outcome
  /\ UNCHANGED <<mode, attempt, repairHints, previousPatch, report, history, attempts, remembered, aborted>>

FinishAttempt(r) ==
  [attempts EXCEPT ![attempt] = [@ EXCEPT !.open = FALSE, !.patch = execution.patch, !.verdict = r.verdict,
                                         !.input = InputFromReport(r, execution)]]

\* attemptEntry: what memory will be told of this attempt.
Entry(r) == [attempt |-> attempt, patch |-> execution.patch, verdict |-> r.verdict,
             approved |-> r.approved, criteria |-> r.criteria, hints |-> r.hints]

\* The attempt is recorded before anything is decided about it.
VerifyReturns ==
  /\ pc = "verify" /\ CheckpointPassed
  /\ \E results \in CriteriaResults(execution) : report' = Report(execution, results, Approved)
  /\ history' = Append(history, Entry(report'))
  /\ IF RouteRepair(report', execution.patch, attempt > 1, previousPatch) = "repair" /\ attempt < MaxRetries
     THEN /\ repairHints' = report'.hints
          /\ NextAttempt(FinishAttempt(report'), agentMs, report'.hints)
     ELSE /\ pc' = "memory" /\ attempts' = FinishAttempt(report')
          /\ UNCHANGED <<repairHints, attempt>>
  /\ previousPatch' = IF report'.verdict = "pass" THEN previousPatch ELSE execution.patch
  /\ UNCHANGED <<mode, agentMs, execution, outcome, remembered, aborted>>

-----------------------------------------------------------------------------
(* Memory and the record *)

\* linkRepairs: what became of a hint of entry i of the history h.
AttributedToTheRun(h, i, c) ==
  IF c \notin Criteria THEN "not_tracked"
  ELSE IF h[i].criteria[c] # "unmet" THEN "unresolved"
  ELSE IF i = Len(h) THEN "not_attempted"
  ELSE IF Last(h).verdict = "pass" /\ Last(h).criteria[c] = "met" THEN "resolved"
  ELSE "unresolved"
LinkOutcome(h, i, c) ==
  IF c \notin Criteria THEN "not_tracked"
  ELSE IF h[i].criteria[c] # "unmet" THEN "unresolved"
  ELSE IF i = Len(h) THEN "not_attempted"
  ELSE IF h[i + 1].patch \in {None, h[i].patch} \/ h[i + 1].criteria[c] # "met" THEN "unresolved"
  ELSE IF Last(h).verdict = "pass" /\ Last(h).approved /\ Last(h).criteria[c] = "met" THEN "resolved"
  ELSE "observed_resolved_unconfirmed"

LinkRepairs(h) ==
  UNION {{[criterion |-> c, from |-> i, outcome |-> LinkOutcome(h, i, c)] : c \in h[i].hints} : i \in DOMAIN h}

\* memory.remember, under the memory lock (MemoryStore).
Remember ==
  /\ pc = "memory"
  /\ remembered' = [verdict |-> report.verdict, attempts |-> attempt, links |-> LinkRepairs(history)]
  /\ pc' = "record"
  /\ UNCHANGED <<mode, loopVars, attempts, outcome, aborted>>

FinishRun ==
  /\ pc = "record"
  /\ EndWith(OutcomeFor(report.verdict))
  /\ UNCHANGED <<mode, loopVars, attempts, remembered, aborted>>

-----------------------------------------------------------------------------
(* What happens to a run *)

\* startRun's timer fires between two turns of the event loop.
DeadlinePasses ==
  /\ Awaiting /\ ~aborted
  /\ aborted' = TRUE
  /\ UNCHANGED <<mode, pc, loopVars, recordVars>>

\* SIGINT or SIGTERM (CANCELLED), or a rejected promise (ERROR).
Interrupted ==
  /\ Awaiting
  /\ \E o \in {"CANCELLED", "ERROR"} : EndWith(o)
  /\ UNCHANGED <<mode, loopVars, attempts, remembered, aborted>>

\* Killed outright: a later qb process marks the run ABANDONED (RunStore).
Killed ==
  /\ Awaiting \/ pc = "record"
  /\ pc' = "killed" /\ outcome' = "ABANDONED"
  /\ UNCHANGED <<mode, loopVars, attempts, remembered, aborted>>

Next ==
  \/ ContextReady \/ AgentReturns \/ VerifyReturns \/ CheckpointThrows
  \/ Remember \/ FinishRun
  \/ DeadlinePasses \/ Interrupted \/ Killed

Spec == Init /\ [][Next]_vars

-----------------------------------------------------------------------------
(* Properties *)

AttemptRecord ==
  [attempt : 1..MaxRetries, reason : SUBSET (Criteria \cup {"POLICY", "TEST"}), open : BOOLEAN,
   patch : Patches \cup {None}, verdict : Verdicts \cup {"null"}, input : Input \cup {None}]

TypeOK ==
  /\ mode \in Modes
  /\ pc \in {"context", "agent", "verify", "memory", "record", "ended", "killed"}
  /\ attempt \in 0..MaxRetries /\ agentMs \in Nat
  /\ repairHints \subseteq Criteria \cup {"POLICY", "TEST"}
  /\ previousPatch \in Patches \cup {None}
  /\ execution.patch \in Patches \cup {None}
  /\ attempts \in Seq(AttemptRecord) /\ Len(attempts) = attempt
  /\ outcome \in {"RUNNING", "VERIFIED", "FAILED", "UNRESOLVED", "ERROR", "BLOCKED",
                  "CANCELLED", "DRY_RUN", "ABANDONED"}
  /\ aborted \in BOOLEAN

\* A run is VERIFIED only on the evidence of its last attempt: a human approved the
\* contract, the agent finished, all of its change was captured and is allowed, every
\* criterion is met, and the tests passed or fail only as they did before, where the
\* contract waives that (verify/verdict.js, qb.js:354).
VerifiedIsEarned ==
  outcome = "VERIFIED" =>
    /\ mode = "approved"
    /\ \/ execution.status = "completed" /\ execution.patch # None
       \/ execution.status = "no_change"
    /\ ~execution.unsupported /\ execution.policy = "clean"
    /\ execution.tests = "passing" \/ (Waive /\ execution.tests = "old_failures")
    /\ AllMet(report.criteria)
    /\ Last(attempts).patch = execution.patch /\ ~Last(attempts).open

\* No agent is started again without a reason: the attempt before ended, its tests could
\* be trusted, something concrete was wrong, and it was not the same patch as the attempt
\* before it (verify/routing.js). A retry never answers a broken environment.
RetriesAreJustified ==
  \A i \in DOMAIN attempts : i > 1 =>
    LET before == attempts[i - 1] IN
    /\ ~before.open
    /\ before.verdict \notin {"pass", "error"} /\ before.input.tests # "error"
    /\ attempts[i].reason # {}
    /\ i > 2 => before.patch # attempts[i - 2].patch

\* An attempt starts only while the run is within its deadline, its retries and its
\* agent time (lib/qb-pipeline.js:92-98, lib/budget.js checkpoint).
AttemptsAreWithinBudget ==
  [][Len(attempts') > Len(attempts) =>
       ~aborted /\ outcome = "RUNNING" /\ agentMs < AgentTime /\ Len(attempts) < MaxRetries]_vars

\* verify/verdict.js:4: recorded evidence, aggregated again, gives the recorded verdict,
\* for every attempt of the run and not only its last.
RecordReplays ==
  \A i \in DOMAIN attempts : ~attempts[i].open => Aggregate(attempts[i].input) = attempts[i].verdict

\* What memory was told is what the record says: the history holds exactly the attempts
\* that were verified, and a run that memory knows ends with the outcome memory was told,
\* unless its process was killed before it could record it.
MemoryMatchesTheRecord ==
  remembered # None =>
    /\ outcome \in {"RUNNING", "ABANDONED", OutcomeFor(remembered.verdict)}
    /\ Len(history) = remembered.attempts
    /\ \A i \in DOMAIN attempts :
         /\ ~attempts[i].open
         /\ history[i].patch = attempts[i].patch /\ history[i].verdict = attempts[i].verdict

\* A repair that memory calls proven was seen to work: in the record, the attempt after
\* the hint has another patch and meets the criterion, which was not met before, and the
\* run's last attempt, approved, passes and still meets it (memory/repairs.js:13-18).
ProvenRepairsWorked ==
  remembered # None =>
    \A l \in remembered.links : l.outcome = "resolved" =>
      /\ Approved /\ Last(attempts).verdict = "pass" /\ Last(attempts).input.criteria[l.criterion] = "met"
      /\ attempts[l.from].input.criteria[l.criterion] = "unmet"
      /\ attempts[l.from + 1].input.criteria[l.criterion] = "met"
      /\ attempts[l.from + 1].patch \notin {None, attempts[l.from].patch}
=============================================================================
