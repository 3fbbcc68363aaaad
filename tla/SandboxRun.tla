----------------------------- MODULE SandboxRun -----------------------------
(***************************************************************************)
(* One sandboxed run and the processes that end it: the CLI that runs its  *)
(* stages (lib/sandbox/pipeline.js, lease.js), the detached supervisor     *)
(* (supervisor.js), and the reapers of later qb starts (reaper.js).  They  *)
(* share only files of the run's directory and Docker.                     *)
(*                                                                         *)
(* A tick is longer than the supervisor's polling interval: between two    *)
(* ticks a watching supervisor polls.  CLI timeouts may fire at any time.  *)
(* A definition that precedes the one it resembles is a seeded fault.      *)
(***************************************************************************)
EXTENDS Naturals, Sequences

CONSTANTS
  Reapers,       \* later starts of qb
  MaxStages,     \* bound: stages of the run
  Endings,       \* bound: the statuses its stages may end it with
  StageDeadline, LeaseTimeout, KillGrace,  \* in ticks
  MaxMishaps     \* bound: processes killed, Docker outages and an abort signal, together

ASSUME SandboxRunAssumption ==
  /\ {MaxStages, KillGrace, MaxMishaps} \subseteq Nat
  /\ {StageDeadline, LeaseTimeout} \subseteq Nat \ {0}

VARIABLES
  cli,           \* what the CLI is doing
  cliStage,      \* the last stage it handed over
  result,        \* the status the pipeline returns
  lost,          \* the CLI found the supervisor dead
  cancelled,     \* the run's signal aborted
  removal,       \* a removeRun started by the loss or the signal is pending
  sup,           \* the supervisor: starting, watching, ending or gone
  supTodo,       \* what it still does before it exits
  supStage,      \* the stage it acknowledged, and whether it saw it done
  verdict,       \* the state it commits
  dockerDown,    \* it found Docker unavailable while enforcing
  leaseAge, stageAge,  \* its measures of the lease and of the stage
  polled,        \* it polled since the last tick
  runFile,       \* run.json names the supervisor
  ready,         \* supervisor.json is written
  stageFile, ackFile, doneFile, proposal, fresh,  \* the other files; fresh: a lease yet to be seen
  terminal,      \* terminal.json: none, empty or written
  running,       \* a workload container runs
  resources,     \* containers, networks or volumes of the run exist
  docker,        \* the daemon answers
  reaper,        \* per reaper: its next step
  silence, elapsed, \* ticks since the CLI's last renewal, since the stage's acknowledgement
  mishaps

cliVars == <<cli, cliStage, result, lost, cancelled, removal>>
supVars == <<sup, supTodo, supStage, verdict, dockerDown, leaseAge, stageAge, polled>>
cliFiles == <<runFile, stageFile, doneFile, proposal>>
dockerVars == <<running, resources>>
timeVars == <<silence, elapsed>>
faults == <<docker, mishaps>>
vars == <<cliVars, supVars, cliFiles, ready, ackFile, fresh, terminal, dockerVars, reaper, timeVars, faults>>

Statuses == {"completed", "execution_error", "timeout", "oom", "setup_failed", "blocked", "cancelled",
             "infra_error"}
States == Statuses \cup {"ABANDONED"}
ASSUME EndingsAssumption == Endings \subseteq Statuses
Terminal(state, actor) == [state |-> state, actor |-> actor]
NoTerminal == Terminal("none", "nobody")
EmptyTerminal == Terminal("empty", "nobody")
Readable == terminal \notin {NoTerminal, EmptyTerminal}

CliAlive == cli \notin {"exited", "killed"}
Supervising == cli \in {"setup", "ready", "acking", "stage", "proposing"}  \* not closed
SupAlive == sup # "gone"
NoStage == [id |-> 0, done |-> FALSE]
Cap == StageDeadline + LeaseTimeout + KillGrace + 1
Aged(n) == IF n < Cap THEN n + 1 ELSE n

Init ==
  /\ cli = "waiting" /\ cliStage = 0 /\ result = "none"
  /\ lost = FALSE /\ cancelled = FALSE /\ removal = FALSE
  /\ sup = "starting" /\ supTodo = <<>> /\ supStage = NoStage /\ verdict = "none"
  /\ dockerDown = FALSE /\ leaseAge = 0 /\ stageAge = 0 /\ polled = TRUE
  /\ runFile = FALSE /\ ready = FALSE
  /\ stageFile = 0 /\ ackFile = 0 /\ doneFile = 0 /\ proposal = "none" /\ fresh = FALSE
  /\ terminal = NoTerminal
  /\ running = FALSE /\ resources = FALSE /\ docker = TRUE
  /\ reaper = [r \in Reapers |-> "off"]
  /\ silence = 0 /\ elapsed = 0 /\ mishaps = 0

\* A process ends: what it knew and measured goes with it.
CliGone(how) ==
  /\ cli' = how /\ cliStage' = 0 /\ result' = "none"
  /\ lost' = FALSE /\ cancelled' = FALSE /\ removal' = FALSE
NoLongerWatching ==
  /\ supStage' = NoStage /\ leaseAge' = 0 /\ stageAge' = 0 /\ polled' = TRUE
  /\ fresh' = FALSE /\ silence' = 0 /\ elapsed' = 0
SupGone ==
  /\ sup' = "gone" /\ supTodo' = <<>> /\ verdict' = "none" /\ dockerDown' = FALSE
  /\ NoLongerWatching

Mishap == mishaps < MaxMishaps /\ mishaps' = mishaps + 1

\* removeRun: containers, running or not, networks and volumes; nothing when Docker is silent.
RemoveRun ==
  /\ running' = (running /\ ~docker)
  /\ resources' = (resources /\ ~docker)

\* commitTerminal, create-exclusive: the file is created, then written.
Overwrite == TRUE
Create == terminal = NoTerminal
Created == terminal' = IF Create THEN EmptyTerminal ELSE terminal
Write(state, actor) == terminal' = Terminal(state, actor)

-----------------------------------------------------------------------------
(* The CLI *)

\* Supervision.start: the handshake, the supervisor's identity in run.json, the first lease.
Handshake ==
  /\ cli = "waiting" /\ ready
  /\ cli' = "setup"
  /\ runFile' = TRUE
  /\ fresh' = (sup = "watching") /\ silence' = 0
  /\ UNCHANGED <<cliStage, result, lost, cancelled, removal, supVars, stageFile, doneFile, proposal,
                 ready, ackFile, terminal, dockerVars, reaper, elapsed, faults>>

\* Not ready in time: killed, and the run ends.
NotReady ==
  /\ cli = "waiting"
  /\ cli' = "not ready"
  /\ SupGone
  /\ result' = "infra_error"
  /\ UNCHANGED <<cliStage, lost, cancelled, removal, cliFiles, ready, ackFile, terminal, dockerVars,
                 reaper, faults>>

CommitNotReady ==
  /\ \/ /\ cli = "not ready"
        /\ Created
        /\ cli' = IF Create THEN "writing" ELSE "cleaning"
     \/ /\ cli = "writing"
        /\ Write("infra_error", "cli")
        /\ cli' = "cleaning"
  /\ UNCHANGED <<cliStage, result, lost, cancelled, removal, supVars, cliFiles, ready, ackFile, fresh,
                 dockerVars, reaper, timeVars, faults>>

Renew ==
  /\ Supervising
  /\ fresh' = (sup = "watching") /\ silence' = 0
  /\ UNCHANGED <<cliVars, supVars, cliFiles, ready, ackFile, terminal, dockerVars, reaper, elapsed, faults>>

CliStep(to, outcome) ==
  /\ cli' = to
  /\ result' = outcome
  /\ UNCHANGED <<lost, cancelled, removal, supVars, runFile, ready, ackFile, fresh, terminal, reaper, timeVars, faults>>

\* createWorkspace: the first per-run resources.
CreateWorkspace ==
  /\ cli = "setup" /\ docker
  /\ resources' = TRUE
  /\ CliStep("ready", result)
  /\ UNCHANGED <<cliStage, stageFile, doneFile, proposal, running>>

\* stage(): the record is handed over and its acknowledgement awaited.
BeginStage ==
  /\ cli = "ready" /\ cliStage < MaxStages
  /\ ~lost /\ ~cancelled
  /\ cliStage' = cliStage + 1
  /\ stageFile' = cliStage + 1
  /\ CliStep("acking", result)
  /\ UNCHANGED <<doneFile, proposal, dockerVars>>

AnyAck == ackFile # 0
OwnAck == ackFile = cliStage
Acked ==
  /\ cli = "acking" /\ OwnAck
  /\ CliStep("stage", result)
  /\ UNCHANGED <<cliStage, stageFile, doneFile, proposal, dockerVars>>

\* The workspace or a stage throws, or the stage is refused, or not acknowledged in time: no
\* outcome is proposed.
Throw ==
  /\ cli \in {"setup", "ready", "acking"}
  /\ CliStep("cleaning", IF cancelled THEN "cancelled" ELSE "infra_error")
  /\ UNCHANGED <<cliStage, stageFile, doneFile, proposal, dockerVars>>

StartContainer ==
  /\ cli = "stage" /\ docker /\ ~running
  /\ running' = TRUE /\ resources' = TRUE
  /\ CliStep("stage", result)
  /\ UNCHANGED <<cliStage, stageFile, doneFile, proposal>>

\* The stage's end, or the CLI's own deadline for it: its container is stopped if Docker answers.
EndStage ==
  /\ cli = "stage"
  /\ running' = (running /\ ~docker)
  /\ doneFile' = cliStage
  /\ CliStep("ready", result)
  /\ UNCHANGED <<cliStage, stageFile, proposal, resources>>

Propose ==
  /\ cli = "ready" /\ cliStage > 0
  /\ \E s \in Endings :
       LET status == IF cancelled THEN "cancelled" ELSE s
       IN  proposal' = status /\ CliStep("proposing", status)
  /\ UNCHANGED <<cliStage, stageFile, doneFile, dockerVars>>

\* propose() returns: the terminal state is committed and the supervisor gone, or time is up.
\* A state the supervisor committed instead wins; a cancelled run is cancelled.
ProposalAnswered ==
  /\ cli = "proposing"
  /\ LET outcome == IF Readable /\ terminal.actor = "supervisor" /\ terminal.state # proposal
                    THEN terminal.state ELSE result
     IN  CliStep("cleaning", IF cancelled THEN "cancelled" ELSE outcome)
  /\ UNCHANGED <<cliStage, stageFile, doneFile, proposal, dockerVars>>

\* finally: the run is removed, as far as Docker answers, and the admission slot released.
CleanUp ==
  /\ cli = "cleaning"
  /\ RemoveRun
  /\ CliStep("returned", result)
  /\ UNCHANGED <<cliStage, stageFile, doneFile, proposal>>

\* _check, every half second.
LoseSupervisor ==
  /\ Supervising /\ ~lost /\ ~Readable /\ ~SupAlive
  /\ lost' = TRUE /\ removal' = TRUE
  /\ UNCHANGED <<cli, cliStage, result, cancelled, supVars, cliFiles, ready, ackFile, fresh, terminal,
                 dockerVars, reaper, timeVars, faults>>

Cancel ==
  /\ Supervising /\ ~cancelled
  /\ Mishap
  /\ cancelled' = TRUE /\ removal' = TRUE
  /\ UNCHANGED <<cli, cliStage, result, lost, supVars, cliFiles, ready, ackFile, fresh, terminal,
                 dockerVars, reaper, timeVars, docker>>

RemoveNow ==
  /\ removal /\ CliAlive
  /\ RemoveRun
  /\ removal' = FALSE
  /\ UNCHANGED <<cli, cliStage, result, lost, cancelled, supVars, cliFiles, ready, ackFile, fresh, terminal,
                 reaper, timeVars, faults>>

\* The qb process ends some time after the run returned.
CliExits ==
  /\ cli = "returned"
  /\ CliGone("exited")
  /\ UNCHANGED <<supVars, cliFiles, ready, ackFile, fresh, terminal,
                 dockerVars, reaper, timeVars, faults>>

-----------------------------------------------------------------------------
(* The supervisor *)

SupReady ==
  /\ sup = "starting"
  /\ sup' = "watching"
  /\ ready' = TRUE
  /\ leaseAge' = 0
  /\ UNCHANGED <<cliVars, supTodo, supStage, verdict, dockerDown, stageAge, polled, cliFiles, ackFile, fresh,
                 terminal, dockerVars, reaper, timeVars, faults>>

\* What a poll reads: a new stage, the end of the acknowledged one, a new lease.
NewStage == stageFile # supStage.id
SeenStage ==
  LET s == IF NewStage THEN [id |-> stageFile, done |-> FALSE] ELSE supStage
  IN  [s EXCEPT !.done = @ \/ doneFile = s.id]
UnseenLeaseAge == leaseAge
SeenLeaseAge == IF fresh THEN 0 ELSE leaseAge
RenewedStageAge == IF NewStage \/ fresh THEN 0 ELSE stageAge
SeenStageAge == IF NewStage THEN 0 ELSE stageAge

StageRuns == SeenStage.id # 0 /\ ~SeenStage.done
LeaseIgnored == FALSE
LeaseOver == SeenLeaseAge >= LeaseTimeout + KillGrace
StageOver == StageRuns /\ SeenStageAge >= StageDeadline + KillGrace
\* The earlier of the two ends: both are reached and the stage's came first, or only one is.
StageFirst == StageRuns /\ SeenStageAge + LeaseTimeout >= SeenLeaseAge + StageDeadline

Poll ==
  /\ sup = "watching" /\ ~Readable
  /\ ackFile' = stageFile
  /\ IF proposal = "none" /\ ~LeaseOver /\ ~StageOver
     THEN /\ supStage' = SeenStage /\ leaseAge' = SeenLeaseAge /\ stageAge' = SeenStageAge
          /\ elapsed' = IF NewStage THEN 0 ELSE elapsed
          /\ fresh' = FALSE /\ polled' = TRUE
          /\ UNCHANGED <<sup, verdict, supTodo, silence>>
     ELSE /\ sup' = "ending"
          /\ NoLongerWatching
          /\ IF proposal # "none"
             THEN verdict' = proposal /\ supTodo' = <<"create", "write", "kill", "remove">>
             ELSE /\ verdict' = IF StageFirst THEN "timeout" ELSE "ABANDONED"
                  /\ supTodo' = <<"kill", "create", "write", "remove">>
  /\ UNCHANGED <<cliVars, dockerDown, cliFiles, ready, terminal, dockerVars, reaper, faults>>

\* Somebody else committed: stand down.
StandDown ==
  /\ sup = "watching" /\ Readable
  /\ SupGone
  /\ UNCHANGED <<cliVars, cliFiles, ready, ackFile, terminal, dockerVars, reaper, faults>>

SupStep(step) ==
  /\ sup = "ending" /\ supTodo # <<>> /\ Head(supTodo) = step
  /\ UNCHANGED <<cliVars, sup, supStage, verdict, leaseAge, stageAge, polled, cliFiles, ready, ackFile, fresh,
                 reaper, timeVars, faults>>

\* killAll: until Docker confirms that nothing runs.
SupKill ==
  /\ SupStep("kill")
  /\ \/ docker /\ running' = FALSE /\ supTodo' = Tail(supTodo) /\ UNCHANGED dockerDown
     \/ ~docker /\ dockerDown' = TRUE /\ UNCHANGED <<running, supTodo>>
     \* dockerDownMaxMs: the state is still committed, but the last step, the removal, is not made
     \/ /\ ~docker /\ dockerDown
        /\ supTodo' = SubSeq(supTodo, 2, Len(supTodo) - 1)
        /\ UNCHANGED <<running, dockerDown>>
  /\ UNCHANGED <<terminal, resources>>

SupCreate ==
  /\ SupStep("create")
  /\ Created
  /\ supTodo' = IF Create THEN Tail(supTodo) ELSE Tail(Tail(supTodo))
  /\ UNCHANGED <<dockerDown, dockerVars>>

\* Enforcement that needed Docker while it was gone is an infrastructure failure.
SupWrite ==
  /\ SupStep("write")
  /\ Write(IF dockerDown THEN "infra_error" ELSE verdict, "supervisor")
  /\ supTodo' = Tail(supTodo)
  /\ UNCHANGED <<dockerDown, dockerVars>>

SupRemove ==
  /\ SupStep("remove")
  /\ \/ docker /\ RemoveRun /\ supTodo' = Tail(supTodo)
     \/ ~docker /\ supTodo' = Tail(supTodo) /\ UNCHANGED dockerVars
  /\ UNCHANGED <<terminal, dockerDown>>

SupExit ==
  /\ sup = "ending" /\ supTodo = <<>>
  /\ SupGone
  /\ UNCHANGED <<cliVars, cliFiles, ready, ackFile, terminal, dockerVars, reaper, faults>>

-----------------------------------------------------------------------------
(* The reapers: at the start of a run, before it is admitted. *)

CliDeadIsEnough == ~CliAlive \/ (runFile /\ ~SupAlive)
OwnersDead == ~CliAlive /\ ~(runFile /\ SupAlive)

ReaperStep(r, from, to) ==
  /\ reaper[r] = from
  /\ reaper' = [reaper EXCEPT ![r] = to]
  /\ UNCHANGED <<cliVars, supVars, cliFiles, ready, ackFile, fresh, timeVars, faults>>

SkipsTerminalRuns(r) == ~Readable /\ OwnersDead /\ docker /\ ReaperStep(r, "off", "kill") /\ UNCHANGED <<terminal, dockerVars>>
ReaperLooks(r) ==
  /\ docker
  /\ \/ Readable /\ ReaperStep(r, "off", "remove")
     \/ ~Readable /\ OwnersDead /\ ReaperStep(r, "off", "kill")
  /\ UNCHANGED <<terminal, dockerVars>>

\* An unanswered query is read as nothing running.
ReaperKills(r) ==
  /\ ReaperStep(r, "kill", "create")
  /\ running' = (running /\ ~docker)
  /\ UNCHANGED <<terminal, resources>>

ReaperCommits(r) ==
  /\ \/ ReaperStep(r, "create", IF Create THEN "write" ELSE "remove") /\ Created
     \/ ReaperStep(r, "write", "remove") /\ Write("ABANDONED", "reaper")
  /\ UNCHANGED dockerVars

ReaperRemoves(r) ==
  /\ ReaperStep(r, "remove", "off")
  /\ RemoveRun
  /\ UNCHANGED terminal

Reaping(r) == ReaperLooks(r) \/ ReaperKills(r) \/ ReaperCommits(r) \/ ReaperRemoves(r)

-----------------------------------------------------------------------------
(* The environment *)

\* The workload's process ends by itself.
ContainerExits ==
  /\ running
  /\ running' = FALSE
  /\ UNCHANGED <<cliVars, supVars, cliFiles, ready, ackFile, fresh, terminal, resources, reaper, timeVars, faults>>

\* Only a watching supervisor measures time; other limits may pass at any moment.
Tick ==
  /\ sup = "watching" /\ polled
  /\ polled' = FALSE
  /\ leaseAge' = Aged(leaseAge) /\ stageAge' = Aged(stageAge)
  /\ silence' = Aged(silence) /\ elapsed' = Aged(elapsed)
  /\ UNCHANGED <<cliVars, sup, supTodo, supStage, verdict, dockerDown, cliFiles, ready, ackFile, fresh, terminal,
                 dockerVars, reaper, faults>>

Death ==
  /\ Mishap
  /\ \/ /\ CliAlive /\ CliGone("killed")
        /\ UNCHANGED <<supVars, fresh, timeVars, reaper>>
     \/ /\ SupAlive /\ SupGone
        /\ UNCHANGED <<cliVars, reaper>>
     \/ /\ \E r \in Reapers : reaper[r] # "off" /\ reaper' = [reaper EXCEPT ![r] = "off"]
        /\ UNCHANGED <<cliVars, supVars, fresh, timeVars>>
  /\ UNCHANGED <<cliFiles, ready, ackFile, terminal, dockerVars, docker>>

DockerStopsOrReturns ==
  /\ docker' = ~docker
  /\ IF docker THEN Mishap ELSE UNCHANGED mishaps
  /\ UNCHANGED <<cliVars, supVars, cliFiles, ready, ackFile, fresh, terminal, dockerVars, reaper, timeVars>>

CliSteps ==
  \/ Handshake \/ NotReady \/ CommitNotReady
  \/ CreateWorkspace \/ BeginStage \/ Acked \/ Throw \/ StartContainer \/ EndStage
  \/ Propose \/ ProposalAnswered \/ CleanUp \/ CliExits
SupSteps ==
  \/ SupReady \/ Poll \/ StandDown
  \/ SupKill \/ SupCreate \/ SupWrite \/ SupRemove \/ SupExit

Next ==
  \/ CliSteps \/ Renew \/ LoseSupervisor \/ Cancel \/ RemoveNow
  \/ SupSteps
  \/ \E r \in Reapers : Reaping(r)
  \/ ContainerExits \/ Tick \/ Death \/ DockerStopsOrReturns

Spec == Init /\ [][Next]_vars

\* Every await of the CLI and every Docker command has a time limit; qb is started again; Docker
\* comes back.
FairSpec ==
  /\ Spec
  /\ WF_vars(EndStage)
  /\ WF_vars(Handshake \/ NotReady \/ CommitNotReady \/ CreateWorkspace \/ BeginStage \/ Acked \/ Throw
             \/ Propose \/ ProposalAnswered \/ CleanUp \/ CliExits)
  /\ WF_vars(SupSteps) /\ WF_vars(Tick) /\ WF_vars(RemoveNow)
  /\ \A r \in Reapers : WF_vars(Reaping(r))
  /\ WF_vars(~docker /\ DockerStopsOrReturns)

-----------------------------------------------------------------------------
(* Properties *)

\* One terminal state per run, whoever commits it and whoever races: the first stays
\* (protocol.js:63-77, agent-sandbox.md 8.3).
OneTerminalState == [][Readable => terminal' = terminal]_vars

\* While the supervisor watches, a stage runs no longer than its deadline and the grace period,
\* however often the CLI renews; and no silent CLI keeps a run longer than the lease (G5a).
\* The deadline it measures is that of the stage that runs.
DeadlineHolds ==
  sup = "watching" =>
    /\ cli = "stage" => /\ elapsed <= StageDeadline + KillGrace + 1
                        /\ supStage.id = cliStage /\ ~supStage.done
    /\ ready /\ runFile => silence <= LeaseTimeout + KillGrace + 1

\* Nobody is ended without cause: unless its CLI proposed an outcome, a run is abandoned only when
\* the CLI was silent for the whole lease, timed out only when a stage of it exceeded its deadline,
\* and a reaper never ends the run of a CLI that is alive (reaper.js:7).
EnforcedForCause ==
  [][/\ sup = "watching" /\ sup' = "ending" /\ proposal = "none" =>
          /\ verdict' = "ABANDONED" => silence >= LeaseTimeout + KillGrace
          /\ verdict' = "timeout" => elapsed >= StageDeadline + KillGrace /\ doneFile # stageFile
     /\ terminal' # terminal /\ terminal' = Terminal("ABANDONED", "reaper") => ~CliAlive]_vars

\* Whoever dies, the run's containers and volumes are gone in the end (G5b).
RunIsRemoved == <>[](~running /\ ~resources)

\* Every run ends in a recorded terminal state, unless a process died while it wrote one (G5e).
TornCommit ==
  /\ terminal = EmptyTerminal /\ cli # "writing"
  /\ supTodo = <<>> \/ Head(supTodo) # "write"
  /\ \A r \in Reapers : reaper[r] # "write"
RunIsRecorded == <>(Readable \/ TornCommit)

=============================================================================
