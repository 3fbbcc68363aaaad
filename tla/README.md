# Quarterback: verification project

TLA+ models of Quarterback (`qb`), the TLC configurations that check them, and
proofs of the parts that matter most. Paths are relative to the repository
(`src/` in PROJECT.json). `PROJECT.json` lists, for every definition, the lines
it translates.

Contents: [the system](#the-system) · [modules](#modules) ·
[runs](#runs-bounds-and-what-they-show) · [fairness](#fairness) ·
[proofs](#proofs) · [disagreements](#disagreements-between-code-and-comments) ·
[not modelled](#not-modelled) · [plan](#plan)

## The system

`qb` takes a request for a code change through five layers and keeps a record
of everything it did.

| part | state it keeps | operations | interacts with |
|---|---|---|---|
| intent (`intent/`) | in memory: the vague terms still open, the rounds, the draft that was rejected; on disk, a contract handed over for review | ask, answer, draft, correct, approve | model calls; hands a contract to the run |
| context (`context/`) | none | retrieve, rank, pack | reads the checkout; one await of the run |
| agent (`agent/`, `lib/sandbox/`) | run directory: `run.json`, lease, stage and acknowledgement files, `terminal.json`; Docker containers, volumes and networks; the installation's run slot | admission, stages in containers, supervision, proposal, enforcement, reaping | CLI process, detached supervisor, reapers of later runs: they share files and Docker only |
| verify (`verify/`) | judge cache: a decision and a claim per piece of evidence | classify tests, checks, preservation and policy, judge, aggregate a verdict, route a repair | model calls, sandbox evidence, concurrent verifications |
| memory (`memory/`) | per-repository JSONL files, their counts, archive, quarantine, identity, lock | remember, link repairs, compact | concurrent qb processes, through the lock |
| run store (`run/store.js`) | per-run `manifest.json`, `events.jsonl`, artifacts | create, attempt, finish, abort, reap, replay | owner process, and every later qb process as reaper |
| model-call budget (`lib/budget.js`) | slots in use, queue, usage counters | acquire, call, time out, release | all layers that call a model |
| landing page worker (`landing_page/_worker.js`) | D1 tables: submissions, deliveries, completions; telemetry requests, links, tokens and metrics | sign up, deliver, retry (cron), retain; link, token, upload, revoke, delete; reports | concurrent invocations, the email provider |

`lib/qb-pipeline.js` composes the layers into one run (context, then up to
`--max-retries` attempts of agent and verifier, then memory); `qb.js` obtains
the contract before it and records its outcome after it.

### What is hard here, and what makes each part correct

- **Several processes, files as the only shared memory.** The lock
  (`memory/lock.js`), the judge cache's claim, the run slot, the terminal commit
  and lease of a sandboxed run, the reapers of the run store. Correct when a dead
  owner is replaced, and a live one never is; when the first terminal state,
  outcome or decision stays, whoever comes late.
- **Death between any two file operations**, or in the middle of an append.
  Correct when what is left on disk replays, when retention loses nothing it
  promises to keep, and when somebody finishes the dead process's work.
- **Deadlines.** A lease renewed late, a stage acknowledged for the wrong
  stage, a run deadline that fires while the agent or judge is answering, an
  answer after a timeout. Correct when no stage outlives its deadline, none is
  ended early, and no late answer counts.
- **Concurrent requests over one database.** A statement or batch is atomic,
  the invocation is not, and it may end anywhere. Correct when no email is lost,
  none is queued again after its completion, a link opened twice yields one
  token, and what was deleted does not come back.
- **Decisions from evidence.** VERIFIED needs a reviewed contract, a fully
  captured change, allowed by policy, good tests and every criterion met by
  evidence that may decide it; losing evidence must never help; the stored
  record must reproduce the verdict; memory must not call a repair proven where
  the record does not show it.
- **A dialogue with a model and a user.** A vague term is settled by an answer
  to its own question only, and a corrected draft may bring in no choice that
  nobody justified.
- **Barging for a bounded resource.** A model call that starts between a
  release and the continuation it wakes takes the slot. Correct when slots are
  conserved and no call queues beside a free slot.

`PROJECT.json` lists these as hazards, each at its line with the properties
that would catch it.

## Modules

An action is one handler, or, where a process may die or be overtaken inside
one, one file operation or one stretch between two awaits of it. Where a
definition (`DeadByAge`, `ReLookupSkipped`, `UsableAsRead`, ...) precedes one
that it resembles, it is a seeded fault: it is used by no specification and
documents a bug the properties can tell from the code.

### `Mutex`, `MemoryLock`, `MCMemoryLock`, `MemoryLockProofs`

`MemoryLock` is `withLock`, `publish` and `takeOver` of `memory/lock.js`, one
action per file operation. `lock` and `takeover` are the contents of `.lock`
and `.lock.takeover`; `pc[p]` is where process p is in `withLock`; `me`,
`mine` its two claims and `seen` the claim it read. `Crash` and `Restart`
(a new process with the same pid) are the environment's, and so is
`RemoveByHand`: the user removes a lock while no Quarterback process runs, as
the timeout message says. Random tokens are unique:
`FreshToken` picks one that no file or live variable holds. Corrupt lock files
are left out. `Mutex` is the promise: at most one process in its critical
section; it leaves by itself or by dying.

### `RunStore`, `RunStoreProofs`

`run/store.js` for one run. `manifest` and `events` are the files, `mem` the
manifest object of the owner, `todo` the writes its current operation has yet
to make; a kill may come between any two (`KillOwner`), and, with
`TornAppends`, leave half a line. `StartAttempt`, `FinishAttempt`, `Finish`,
`Interrupted` (signal handlers), `ExitSilently` and `Exit` (exit handler) are
the owner's; `Load`, `Probe`, `Abandon`, `Report` are the steps of
`reapAbandoned` in another process. `PidReused`: another process got the dead
owner's pid, and ends some day. `Replay` is `replay` over the stored input of
each verdict.

### `MemoryStore`, `MemoryStoreProofs`

One JSONL file of `memory/store.js` with pinned (proven) and other records.
`log`, `archive`, `quarantine` are files of rows of which the last may be cut;
`meta` is the counts file; `pc` the next file operation of the writer.
`AppendRecord` compacts as the code decides from the counts, and compaction is
`QuarantineBad`, `ArchiveOld`, `Replace`, `WriteMeta`, in that order. Writers
follow one another because each holds the lock, which `MemoryLockProofs`
proves. `CutLog` and `CutAside` are death inside an append, to the log or to
the other files.

### `SandboxRun`, `SandboxRunProofs`

One sandboxed run: the CLI (`lease.js`, `pipeline.js`), the detached
supervisor (`supervisor.js`) and reapers (`reaper.js`), with the files they
share (`leaseAge`, `stageFile`, `ackFile`, `proposal`, `terminal`, `runFile`)
and Docker (`running`, `resources`, `docker` up or not). The CLI's actions are
`Handshake`, `BeginStage`, `Acked`, `StartContainer`, `EndStage`, `Propose`,
`ProposalAnswered`, `CleanUp`, `CliExits` and the failures among them; the
supervisor's are `SupReady`, `Poll` (one loop iteration: take a proposal,
renew from a fresh lease, acknowledge a stage, decide to enforce), `SupKill`,
`SupCreate`, `SupWrite`, `SupRemove`, `SupExit`. `terminal.json` is created
exclusively and then written, as two steps: a reader, or death, may come
between them. `Tick` lets time pass; a tick is longer than the polling
interval, so that a watching supervisor polls in each. The CLI proposes one of
the eight statuses of `pipeline.js`; a run limits them to `Endings`. `Death` of any process,
an outage of Docker and a cancellation (`Cancel`) share one bound,
`MaxMishaps`, so that any mix of them is met. `silence` and `elapsed` are the
observer's clocks, against which the properties hold the supervisor's own
measures (`leaseAge`, `stageAge`). What nobody reads any more (a dead process's
memory, the measures of a supervisor that has decided) is reset, in `CliGone`,
`SupGone` and `NoLongerWatching`.

### `InstallLock`

`admit` and its release (`lib/sandbox/admission.js`): the installation's run slot, an
exclusive file. `Open` and `Write` create and fill it, `Read` and `Remove` are the
reclaiming of a slot without a living owner, `CheckMemory` the refusal of a
small host, `ReleaseRead` and `ReleaseRemove` its end.

### `SignupDelivery`, `WorkerProofs`

The sign-up and delivery half of `landing_page/_worker.js`. `row[j]` and
`completed[j]` are the rows of `email_deliveries` and `delivery_completions`;
`worker[w]` is an invocation between two awaits. `SignUp` is the batch that
registers the address and queues its jobs; `Claim`, `ReadRow`, `Send` and
`Record` are `sendDeliveries`; `RetryStale` and `SelectDue` the cron run;
`RetainRows` the retention. A D1 statement or batch is atomic; between two, an
invocation may end (`Dies`) or take longer than ten minutes (`TenMinutes`).

### `Telemetry`, `MCTelemetry`, `WorkerProofs`

The other half of `landing_page/_worker.js`. `asked`, `link`, `used`, `expired`,
`token`, `revoked` and `metrics` are the tables; `at[q]` is the next statement of an
invocation and `on[q]` the address, code or token it is about. `AskLink`,
`LookUp`, `StoreCode` and `Mail` are `/request`; `ReadCode`, `UseCode` and
`IssueToken` are `/verify`, whose token is issued by a statement after the one that
marks the code; `Authorize` is `bearer()`, which `Upload`, `Revoke` and `Delete` follow
in a statement of their own. `Ends` may come anywhere. A code or token the worker draws is
random and unique.

### `Evidence`, `MCEvidence`, `VerificationProofs`

From what the sandbox saw to the verdict, over `Verdict`. `Verify`, `VerifyBase`,
`RunChecks` and `Snapshot` are the stages of `lib/sandbox/pipeline.js` that produce
evidence; each may fail, and what each leaves behind is any of what a failure can
leave. `Judge` and `MakeReport` are `verify()`: `ClassifyTestRun` with
`Regressions` against the base tree (`verify/tests.js`), `FileHolds`
(`verify/preservation.js`), the check results (`verify/checks/results.js`), the
policy findings (`verify/policy.js`) and `CriterionResult`. A test is its
identity and the way it fails. A path is sorted by the contract (`Allowed`,
`Protected`), by the policy (`NotPlain`, `supportedPath` cannot reason about it) and by
the capture (`GitPaths`, one with a `.git` component; `Unresolved`, one it could not
represent, after which the stages do not run). `Report` treats the three apart:
`OutOfScope` is about the policy, `UnsupportedChanges` about the capture.

### `JudgeCache`, `MCJudgeCache`, `VerificationProofs`

One piece of evidence, judged by several processes (`verify/judge-cache.js`,
`judgeOne` and `judgeFresh` of `verify/judge.js`), one action per file operation.
`entry` is `<key>.json`, `lock` is `<key>.lock`, `moved[p]` the claim a taker renamed.
`OpenClaim` and `WriteClaim` make a claim in two steps, `Stat` and `Inspect` find one
stale in two reads, `MoveAside`, `ReadMoved` and `LinkBack` take it over, `Beat` is
the heartbeat, `Sample` the votes, `Publish`, `Recheck` and `Replace` the `link()`
and what follows when it fails. `GrowOld` is `staleMs` without a heartbeat; for a
living owner it is a stall and counts as a fault, as `Crash` does.

### `Verdict`

Pure. `Aggregate` (`verify/verdict.js`, rules 6), `Hints` and `Report`
(`verify/verifier.js`), `InputFromReport` (the replay input), `RouteRepair`
(`verify/routing.js`). A criterion is met, unmet, unknown, or unknown because
evidence is missing; a policy is one of four findings.

### `RunPipeline`, `QbRunProofs`

`runPipeline` and the end of `qb.js`, over `Verdict`. `pc` is the await the
run is at: context, agent, verify, memory, record. `ContextReady`,
`AgentReturns`, `VerifyReturns`, `Remember`, `FinishRun` are what happens from
one await's answer to the next await, checkpoints (`CheckpointThrows`)
included. `DeadlinePasses`, `Interrupted` and `Killed` may come at any of
them. `Executions` and `CriteriaResults` are all that an agent and a judge may
return. `history` is the recorded attempts, `memory` what memory was told,
with the links of `linkRepairs`.

### `IntentSession`

How a run comes by its contract (`intent/session.js`, `intent/dsa.js`,
`intent/contract-state.js` and the first layer of `qb.js`), a step per await of the
model or of the user. `open` is the vague terms nothing has defined, `round` and `last`
the answers, `rejected` the draft the model is asked to correct, `contract` the one at
hand. A draft is faulty or not and proposes defaults, covered by a criterion or
not; an answer names a question or not and commits to a choice, supplies a
target or decides nothing. `NeedsPrompt` is who must approve.

### `QbRun`, `MCQbRun`, `QbRunProofs`

`main` of `qb.js`: `IntentSession` and `RunPipeline` composed. They share `pc`,
`mode`, `outcome` and `aborted`, as the program's two halves share the run, its
deadline and where it is; everything else belongs to one of them and is
unchanged by the other.

### `ModelCallPool`, `ModelCallPoolProofs`

The slots of `lib/budget.js`. `Start`, `Retry` (the `while` around the queue),
`Fetch`, `Answer`, `Release`, `Timeout` and `RunDeadline`; leaving the queue on
abort is part of the last two. Timers and answers are turns of the event loop
and wait until no continuation is pending (`Quiet`); continuations come in any
order.

### How they fit

`QbRun` composes `IntentSession` with `RunPipeline`, by conjunction of actions over
the shared variables. `RunPipeline` and `Evidence` both use `Verdict`; the criteria
results that `RunPipeline` draws from all values, `Evidence` derives from what the
sandbox saw. `RunPipeline`'s `outcome` is what `RunStore`'s owner
records, and its `Remember` is one append of `MemoryStore`, made under
`MemoryLock`. `SandboxRun` produces the statuses that `RunPipeline` draws from
`Executions`, and runs once `InstallLock` admits it. `JudgeCache` gives the answers
of `Evidence!Judge`. Except for `QbRun` these seams are by
assumption, not by composition: what a module takes from another, it draws from a
set of all the answers it expects. `MemoryStore` relies on `MutexHolds`, which is proved.

## Runs, bounds and what they show

| run | configuration | shows |
|---|---|---|
| `memory_lock` | 3 processes of one host, 8 tokens drawn in turn, 2 deaths | `MutualExclusion`; `TakeoverIsSafe`: no takeover removes a live claim; `ImplementsMutex`: refinement of `Mutex`; `DeadLockIsReclaimed`: a dead owner's lock changes hands; `WaiterReturns`: every call of `withLock` ends |
| `run_record` | 1 attempt, 2 reapers, 2 kills, torn appends | `ReplayAccepts`: the manifest always replays; `ExitCloses`: an exit closes the record; `OnlyTheGoneAreMarked`: only a run whose owner is gone is marked, and the outcome a living owner records stays; `GoneOwnerIsNoticed` |
| `record_overwritten` | the same | counterexample of `OnlyRunningIsMarked`, see below |
| `memory_store` | retention 2 and 1, 6 records, 2 deaths, torn writes | `NewestSurvive`, `RetentionBound`, `PinnedSurvive` (no proven repair is lost), `CorruptIsQuarantined` |
| `sandbox` | 2 stages, 2 reapers, 3 endings, stage deadline 1, lease 1, grace 0, 3 mishaps | `OneTerminalState`; `DeadlineHolds`, by the clock of the stage that runs; `EnforcedForCause`: nobody is ended early, live runs are spared; `RunIsRemoved` and `RunIsRecorded` in the end |
| `signup_delivery` | 2 invocations, 1 job, 3 attempts, 3 interruptions or slow senders | `NoJobIsLost`; `OneSender`; `NotQueuedAgain`; `DeliveryEnds` |
| `qb_run` | 2 rules (1 measured), 2 defaults, 3 rounds; 1 criterion, 2 patches (symmetric), 3 attempts, agent time 3 | `TermsAreSettledByTheirAnswers`; `OnlyReviewedContractsRun`; `VerifiedIsEarned`; `RetriesAreJustified`; `AttemptsAreWithinBudget`; `RecordReplays`; `MemoryMatchesTheRecord`; `ProvenRepairsWorked` |
| `model_call_pool` | 4 calls, 2 slots | `SlotsAreConserved`; `NoIdleSlot` beside a queue; `CallsEnd` |
| `judge_cache` | 3 processes on 2 hosts, the claim of an earlier one, 3 votes, 2 faults | `OneDecision`, whoever samples; `ClaimedBeforeSampling`: without faults the judge is asked once |
| `evidence` | a criterion of each kind, 2 checks, 2 tests in 2 files, 7 sets of changes, every failure of every stage | `PassIsBacked`; `BlameIsBacked`; `LossNeverHelps` |
| `telemetry` | 3 invocations, 2 addresses (1 registered), 2 codes, 2 tokens, 2 runs, limits 1 | `OneTokenPerLink`; `DeletionIsFinal` |
| `admission_raced` | 2 processes and a dead one's slot | counterexample of `OneRun`, see below |

Why the bounds are enough for the cases that matter:

- *Lock.* A wrong takeover needs a dead owner, a taker that read it, and a
  third process that claims in between: 3 processes and 1 death. The second
  death is the taker's own. Two of the three may claim anew while an earlier claim of
  theirs is still read by somebody. Tokens are only compared, so which fresh one
  a claim draws does not matter, and the action constraint `TokensInTurn` leaves
  TLC one choice. A lock of another host is never taken over; that, and
  any number of everything, is left to the theorems.
- *Run store.* Every write order of an attempt appears with one attempt, and a
  second would repeat it. One kill is the owner's, the second a reaper's, or
  the other way round.
- *Memory store.* With retention 2, `Ceil10` starts compaction at 4 plain
  records; 6 records reach compaction and then append after it. Two deaths
  leave, for instance, a torn line under counts that lag.
- *Sandbox.* Two stages are the fewest where an acknowledgement can be stale.
  Three mishaps allow both owners to die during an outage or after a cancellation.
  Two reapers race each other and the owners for the terminal state. Deadlines are 1 tick, leases 1, so that each can be exceeded first; ages
  saturate at `Cap`, above every limit they are compared with. What a stage proposes only
  matters as success, timeout or failure; one of each is in `Endings`.
- *Delivery.* Jobs do not interact, so one job suffices; a race needs two
  invocations. Three attempts reach `failed` twice before `dead`, three troubles
  make two slow senders and an interruption.
- *Whole run.* Two rules are the fewest where an answer can name the question
  that was not asked; one of them is measured, so the follow-up question is met.
  The criterion may take all four values, so every branch of `Aggregate` is met;
  a second criterion changes `partial` against `fail` only through the same
  operators, over which the theorems quantify. Three attempts allow a repair, a
  repetition and a repair of a repair; agent time 3 with costs 1 and 3 is used
  up by one expensive or by three cheap attempts. Test runs are old failures or
  unusable, policies clean or violated, modes approved or dry-run: every property of
  this run is also a theorem for all values, which is why the bounds could be cut.
- *Judge cache.* A takeover that catches a fresh claim needs a stale claim, its taker
  and a third process that claims in between; here all three are live and the
  stale claim is a fourth's. Three votes are what the code takes; two faults make an
  owner stall while another dies.
- *Evidence.* A behavioral, a judged and a preserving criterion (with a check as
  well) are all the kinds there are. A file may be the preserved one or another; two tests allow a regression
  beside an old failure. The changes are an allowed path alone and with one of each other sort, and
  one the capture could not represent alone. Verification reads one execution, so no sequence is longer.
- *Telemetry.* A double click takes two invocations, a deletion overtaken by an
  upload two; the third is retention's or a revocation's beside them. Two codes and
  two tokens are the fewest that could be confused.
- *Pool.* Four calls over two slots: two hold, one is woken, one barges in.

Deadlock checking is off where a run really ends (all runs but the lock's).
The largest runs have 1.3 million (`evidence`) and 0.9 million distinct states
(`qb_run`, `judge_cache`).

## Fairness

- `MemoryLock!FairSpec`: a process that is alive and inside `withLock` runs.
  `WaiterReturns` has `TimePasses` as its premise: a waiter that keeps polling
  comes to its 10-second limit (`GiveUp`), because time passes.
  `RemoveByHand`, `Crash`, `Restart` have none.
- `RunStore!FairSpec`: the owner's writes follow one another, and qb is started
  again (`Reaping`), which `GoneOwnerIsNoticed` cannot do without: nobody else
  looks.
- `SandboxRun!FairSpec`: each of CLI and supervisor continues while it lives,
  because every await and Docker command there has a time limit; time passes;
  qb is started again; Docker answers again after an outage (without which
  nothing can be removed). A container need not exit by itself.
- `SignupDelivery!FairSpec`: an invocation continues or ends; a job becomes due
  and claims grow old because time passes; `RetryStale` is strongly fair
  because cron starts it every ten minutes (`wrangler.toml:16`)
  and it is one statement. Sign-ups and interruptions have none.
- `ModelCallPool`: continuations run and timers fire. No server is assumed to
  answer: `Answer` has no fairness.
- `QbSpec`, `JudgeCache`, `Evidence`, `Telemetry` and `InstallLock` state safety only and
  assume none.

## Proofs

Every safety property that a passing run checks is also a theorem, for every value of
the constants.

`MemoryLockProofs`, for any processes, hosts, tokens and number of deaths:

- `Invariance`: `Spec => []IInv`, with `IInv` = `TypeOK` ∧ `OneTokenOneClaim`
  (equal tokens are equal claims) ∧ `FilesNameTheirHolders` (a process past
  its publication finds its own claim in the file) ∧ `TakenFromTheDead` (what a taker
  is about to remove belongs to a process that is gone). Mutual exclusion
  alone is not inductive: a taker about to unlink the lock of a live process
  satisfies it in one state and breaks it in the next.
- `MutexHolds` and `SafeTakeover` follow from it, the latter
  as an action property, and `Refinement`: every step of `withLock` is a step of
  `Mutex` or a stutter.

`RunStoreProofs`, for any verdicts, attempts, reapers and kills:

- `RecordIsSound`: `RecordInv`. A manifest on disk replays only because everything that
  may still be written does: the owner's memory and each pending write
  (`OwnerIsSound`), and each copy a reaper holds (`ReapersAreSound`). What the
  owner has decided is on disk or still to be written (`NothingIsForgotten`), so
  that an exit, which writes the rest, closes the record. A reaper that found
  the owner gone is right for good (`OnlyTheDeadAreReaped`), and until then the disk says
  RUNNING or what the owner decided (`OwnerDecides`).
- From it `ReplayAlwaysAccepts`, `ExitAlwaysCloses` and, as an action property,
  `OnlyGoneOwnersAreReaped`, by `MarkStep`: a reaper about to mark has seen the owner gone.

`MemoryStoreProofs`, for any retention, number of records and of writers that die:

- `StoreInvariance`: `StoreInv` = `TypeOK` ∧ `InOrder` (rows stand in the order of their
  appends; a row is of the record it names) ∧ `PutAside` (before the replacement the
  archive and the quarantine hold what it drops) ∧ `NewestSurvive` ∧
  `PinnedSurvive`. Each of the two alone breaks at the replacement: nothing in it says
  that the archive was written. From it `TheNewestSurvive`, `ThePinnedSurvive` and,
  as an action property, `TheCorruptIsQuarantined`.
- `TheFileStaysSmall`: `CountsFollow` says how far the counts lag, in the file and in
  the hands of the writer at work: one record per dead writer, one more until they are
  written.
- They rest on lemmas about finite sets of positions: ranks run from 0 without a gap
  (`OntoRanks`, `Below`, `Above`), hence `Positions` (picking rows by position keeps
  all of them, in order), `NewestAreFew` (no more than n) and `NewestAreThere` (if n or
  more lie above a point, n of the newest do). The last is why retention drops
  a record only when enough newer ones stay.

`SandboxRunProofs`, for any stages, reapers, deadlines and graces:

- `SandboxInvariance`: `SandboxInv` = `TypeOK` ∧ `OneCommitter` (whoever is about to write the
  terminal state created the file, so it is still empty and nobody else is) ∧
  `OnlyDeadClisAreReaped` ∧ `FilesAgree` (stage files and acknowledgements tell what the
  CLI is at) ∧ `AgesAgree`. The last relates the supervisor's
  measures to the observer's clocks, and depends on whether this tick's poll has come: an
  unfinished stage or lease is one tick short of its limit until then. The
  deadline itself is no invariant without it.
- From it `TheFirstStateStays`, `DeadlinesHold` and `NobodyEndsWithoutCause`.

`QbRunProofs`, first for the pipeline, with any criteria, patches, retries, budgets and modes:

- `Invariance`: `IInv` = `TypeOK` ∧ `Progress` (which attempts are closed, given `pc`) ∧
  `Reported` (behind a report stands the execution it reports, recorded) ∧
  `HistoryMatches` (one entry per verified attempt, which says what the record
  says) ∧ `Told` (memory is told last, of the whole history) ∧ the properties that are themselves
  part of the induction.
- `PassNeedsEvidence` and `ReplayInputIsTheEvidence` are about the verdict itself,
  for every input: what a pass implies, and that the input rebuilt from a report is
  the one its verdict was made of.

then for a whole run, and also for any rules, defaults, answers and rounds:

- `RunInvariance`: `RunInv` = `BeforeThePipeline` ∨ `IInv`. The session and the
  pipeline never move at once (`OneAtATime`), the session leaves the pipeline as
  it starts (`HandedOver`), and from there the pipeline's own induction
  carries on. From it `VerifiedRunsAreEarned`, `RetriesOfARunAreJustified`,
  `RecordOfARunReplays`, `MemoryOfARunAgrees`, `ProvenRepairsOfARunWorked` and
  `RunIsWithinBudget`, each of `QbSpec`.
- `SessionInvariance`: what each place of the session knows (which draft is
  final, whether the correction stayed within the rejected draft, that no
  contract is at hand while a term is open). Neither of its two action properties follows from the
  step alone: approval checks nothing of what it approves. From it
  `TermsAreSettled` and `ReviewedContractsRun`.

`VerificationProofs`, for any tests, files, checks, criteria and changes:

- `ReportIsOfTheEvidence`: a report is that of the evidence as it stands, for nothing
  it was made from changes afterwards. From it, by operator lemmas on top of what
  a verdict means (`PassMeans`), `Backed` and `BlamedForCause`.
- `LossesNeverHelp`: for each way of losing a piece of evidence (`Degraded`), criterion by criterion and for
  the verdict over them, the answer with less is not better (`DegradedIsWorse`).

and for the judge cache, with any processes, hosts and votes, deaths and stalls:

- `DecisionIsOne`: `DecisionInv` = `DecisionsTyped` ∧ `DecisionStands` ∧ `OneDecision`. A
  process between a failed `link()` and the rename after it would overwrite a decision;
  `DecisionStands` says that over a file that was not corrupt none gets there. The
  claim plays no part in the argument: the decision is one even where the claim
  fails and several processes sample.
- `TheJudgeIsAskedOnce`: `ClaimInv`. While nobody has died or stalled a claim is there exactly while its
  owner counts it as its own, and no claim is found stale (`ClaimIsOwned`).

`ModelCallPoolProofs`, for any finite set of calls and any number of slots:

- `PoolInv` = `TypeOK` ∧ `QueueIsSound` (the queue holds each queued call once
  and nothing else) ∧ `SlotsAreConserved` ∧ `WakeUpsSuffice` (a free slot
  beside a queue has a wake-up under way for it). `NoIdleSlot` speaks only of
  quiet states and needs the last part in the others. Theorems `Conserved` and
  `NoneIdle`.

`WorkerProofs`, for any requests, addresses, codes, tokens and limits:

- `LinkYieldsOneToken` and `DeletionStays`: `TelemetryInv` = `TypeOK` ∧ `RequestsKnow` ∧
  `CodesAreFresh` ∧ `CodesAreSpent` ∧ `DeletedAreRevoked` ∧ the two properties. A code
  whose row retention has removed is as good as used (`Spent`); whoever is between the
  UPDATE and the INSERT is alone there; a deleted token is a revoked one, which the
  INSERT itself looks at.

and for any invocations, jobs and attempts:

- `AnswersAreKept`, `CompletedStaysClosed`, `SendersAreAlone`: `DeliveryInv` = `DeliveryTyped` ∧
  `RowsHaveIds` ∧ `SignUpsAreTraced` (from the batch of the sign-up on, each job has its row or
  its completion) ∧ `OneLiveSender` (a delivery that never took a live sender ten minutes has one
  sender, and the row is the one it read).

Assumptions are those the modules declare (`MemoryLockAssumption`, `RunStoreAssumption`,
`MemoryStoreAssumption`, `SandboxRunAssumption`, `EndingsAssumption`, `VerdictAssumption`, `RunPipelineAssumption`,
`EvidenceAssumption`, `JudgeCacheAssumption`, `PoolAssumption`, `SignupDeliveryAssumption`,
`TelemetryAssumption`), which TLC evaluates in the runs. They say of which kind a
constant is (a natural number, a function between the sets it relates) and that what stands for
"nothing" is none of the values.

Only model-checked: liveness (`DeadLockIsReclaimed`, `WaiterReturns`, `GoneOwnerIsNoticed`,
`RunIsRemoved`, `RunIsRecorded`, `DeliveryEnds`, `CallsEnd`). Out of the prover's reach:
liveness under fairness, `ENABLED`, and induction over data (what a recursive definition
computes for every input); no module uses RECURSIVE operators.

## Disagreements between code and comments

Two have a run whose counterexample shows them.

`admission_raced`: `admit` reads the slot's owner (`lib/sandbox/admission.js:82-83`) and
then removes whatever is there (84). Two processes that find the same dead owner
are both admitted: the second removes the slot the first has just made. So does
one that reads a slot between its creation (77) and its writing (78). The header
(4) promises one run per installation. `withAuthLock` (`lib/sandbox/auth.js:44-66`)
reclaims its lock in the same two steps.

`record_overwritten`: `reapAbandoned` reads a manifest (`run/store.js:337`), probes its
owner (339), and writes the copy it read back as ABANDONED (340). An owner that
finishes and exits in between loses its outcome, a VERIFIED one included, though the comment (330)
says that RUNNING manifests are marked. What does hold, and is checked and proved, is
`OnlyTheGoneAreMarked`: it takes an owner that is gone.

Others, met while reading, are part of the models' behaviour; the properties
are stated so as to allow exactly these and nothing more, or do not touch them.

- Run store: a kill between the last manifest and its event leaves a finished
  run without a terminal event (221-222; the header, 10-12). A torn line in
  `events.jsonl` makes the reaper's read of the events throw for ever: the run
  stays RUNNING (337, 322). Two reapers may write events of the same number.
- Memory store: a row archived after a torn row is glued to it
  (`memory/store.js:242`; 226 guards only the log). A torn `identity.json`
  makes a repository refuse its own namespace (118, 123).
- Sandbox: `stage()` checks for cancellation, awaits the supervisor's
  acknowledgement and starts the stage without checking again
  (`lib/sandbox/pipeline.js:113-114`; the comment at 106). Death between the creation
  and the writing of `terminal.json` leaves it empty for good (`protocol.js:67`; hence
  `TornCommit` in `RunIsRecorded`). A CLI that loses its supervisor commits no
  terminal state itself (`pipeline.js:104`; `lease.js:12-13`) and leaves that to a
  reaper. A completed proposal whose supervisor has died is returned to the user
  as a result without a terminal (`lease.js:100`). The run slot is free
  while a dead CLI's container still runs (`admission.js:85`). A CLI killed
  between the spawn of its supervisor and the record of the supervisor's pid is
  reaped although the supervisor lives (`lease.js:51`; `reaper.js:4-5`).
- Delivery: a sender slower than ten minutes whose send then fails reopens the
  row that another invocation has sent and completed
  (`landing_page/_worker.js:150,157`; the comment at 124), and the email goes out again.
- Telemetry: a mail that fails, or an invocation that ends, leaves the request counted and
  the code unused; an invocation that ends between the UPDATE of the code and
  the INSERT of the token burns the code. Once a token is revoked its holder can no longer
  delete what was sent with it (the comment at 323-324).
- Judge cache: an empty claim, left by a process that died between creating (124) and
  writing it (125), is never called stale (105: its content cannot be parsed), so every
  later verification of that evidence waits its 15 minutes and is unresolved,
  though the header (18-20) says that an abandoned claim is taken over. Two writers that both
  found the same corrupt entry each keep their own decision (97; hence `clean` in
  `OneDecision`).
- Intent: the rejected draft reaches the record only when the correction has come back
  or failed; a signal before that loses it ("Every rejected draft and its errors are
  kept", `qb.js:204-206`). An answer that names a question which is not open is recorded under
  the question that was asked (`intent/session.js:102-104`). A run that waits at
  a prompt does not end with its deadline.
- Verdict: an incompletely captured change with all criteria met and failing
  tests is `unresolved`, since `verdict.js:88` comes before 92-98; comments at
  91 and 94 say failing tests fail the task. The outcome is not VERIFIED
  either way. `routing.js:27` compares a patch with the previous one only: an
  agent that alternates between two patches is not noticed.

### Hazards that are covered in part

Where a property leaves a case out because the code does not promise it, its hazard in
`PROJECT.json` has a note. `GoneOwnerIsNoticed` exempts a run whose owner's pid another
process has and one whose events end in half a line; those do stay RUNNING. `EnforcedForCause`
protects a living CLI from reapers, not a supervisor that outlives it. `OneSender` is about senders
that end within ten minutes; a slower one does send beside the next. `MemoryMatchesTheRecord`
exempts a run that was killed after memory was told and is ABANDONED.
`ClaimedBeforeSampling` holds only while nobody dies or stalls; otherwise several may sample, and
`OneDecision` is what holds.

## Not modelled

`PROJECT.json` gives the reason for every component. In short: text processing
(prompts, retrieval, ranking, briefing, redaction, report layout, the patterns of
the ambiguity rules, the parsers of replies, diffs and test reports), Docker
image building and the scripts inside containers, option parsing and printing,
the static landing page, the benchmark and its data (it calls the modelled
pipeline with memory off), demos and CI. Most source lines of the repository
are of these kinds: the benchmark's curation alone holds dozens of 1,300-line
variants of the same fixture. The implementation proper is about 14,000 lines.

Within the modelled parts: artifact contents and schema checks of the run
store; `updateFileStats` (a read and a rename under the lock whose exclusion is
proved) and the bounded tail reader of the memory store; rules 1 to 5 of the
verdict (for old records); usage counters of the budget; the worker's reports;
image binding in the sandbox; which checks a contract must pass to be final.

## Plan

Done: the models and runs above, and a theorem for each of their safety properties.

Next:

1. That the owner in `RunStore` implements the outcome `QbRun` reports, step by step.
2. An abstract store that `MemoryStore` implements: a set of records from which
   only what retention allows disappears.
3. That `JudgeCache` implements a register that is written once.
