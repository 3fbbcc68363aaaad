-------------------------- MODULE SandboxRunProofs --------------------------
(***************************************************************************)
(* The safety of a sandboxed run for any deadlines, any number of stages,  *)
(* reapers and mishaps: one terminal state, deadlines that hold, and       *)
(* nobody ended without cause.                                             *)
(***************************************************************************)
EXTENDS SandboxRun, SequenceTheorems, TLAPS

-----------------------------------------------------------------------------
(* The invariant *)

CliPlaces == {"waiting", "not ready", "writing", "setup", "ready", "acking", "stage", "proposing", "cleaning",
              "returned", "exited", "killed"}

\* What a supervisor that ends the run may have left to do.
SupPlans ==
  {<<>>, <<"remove">>, <<"kill", "remove">>, <<"write", "kill", "remove">>,
   <<"create", "write", "kill", "remove">>, <<"write", "remove">>, <<"create", "write", "remove">>,
   <<"kill", "create", "write", "remove">>, <<"write">>, <<"create", "write">>}

TypeOK ==
  /\ cli \in CliPlaces /\ sup \in {"starting", "watching", "ending", "gone"}
  /\ proposal \in Statuses \cup {"none"} /\ supTodo \in SupPlans
  /\ supStage \in [id : Nat, done : BOOLEAN] /\ polled \in BOOLEAN /\ fresh \in BOOLEAN
  /\ cliStage \in Nat /\ stageFile \in Nat /\ ackFile \in Nat /\ doneFile \in Nat
  /\ leaseAge \in Nat /\ stageAge \in Nat /\ silence \in Nat /\ elapsed \in Nat
  /\ reaper \in [Reapers -> {"off", "kill", "create", "write", "remove"}]

\* Who has created the terminal file and is about to write it.
CliCommits == cli = "writing"
SupCommits == sup = "ending" /\ supTodo # <<>> /\ Head(supTodo) = "write"
ReaperCommitting(r) == reaper[r] = "write"

OneCommitter ==
  /\ CliCommits \/ SupCommits \/ (\E r \in Reapers : ReaperCommitting(r)) => terminal = EmptyTerminal
  /\ ~(CliCommits /\ SupCommits)
  /\ \A r \in Reapers : ReaperCommitting(r) =>
       ~CliCommits /\ ~SupCommits /\ \A s \in Reapers \ {r} : ~ReaperCommitting(s)

OnlyDeadClisAreReaped == \A r \in Reapers : reaper[r] \in {"kill", "create", "write"} => ~CliAlive

\* The stage files tell what the CLI is at, and the supervisor what it acknowledged.
FilesAgree ==
  /\ CliAlive => stageFile = cliStage /\ doneFile <= cliStage
  /\ cli \in {"acking", "stage"} => doneFile < cliStage
  /\ sup = "starting" => ackFile = 0
  /\ sup = "watching" => ackFile = supStage.id
  /\ supStage.done => supStage.id <= doneFile
  /\ cli = "stage" /\ sup \in {"starting", "watching"} => ackFile = cliStage

\* How the supervisor's measures relate to what they measure.
AgesAgree ==
  /\ stageAge = elapsed
  /\ sup # "watching" => supStage = NoStage /\ silence = 0 /\ elapsed = 0
  /\ sup = "watching" =>
       /\ leaseAge + (IF polled THEN 1 ELSE 0) <= LeaseTimeout + KillGrace
       /\ supStage.id # 0 /\ ~supStage.done =>
            stageAge + (IF polled THEN 1 ELSE 0) <= StageDeadline + KillGrace
       /\ IF fresh THEN silence <= IF polled THEN 0 ELSE 1
          ELSE leaseAge <= silence /\ silence <= leaseAge + 1

SandboxInv == TypeOK /\ OneCommitter /\ OnlyDeadClisAreReaped /\ FilesAgree /\ AgesAgree

-----------------------------------------------------------------------------
(* The steps *)

LEMMA SandboxInit == Init => SandboxInv
<1> SUFFICES ASSUME Init PROVE SandboxInv
  OBVIOUS
<1> USE SandboxRunAssumption DEF Init
<1>1. TypeOK
  <2>1. NoStage \in [id : Nat, done : BOOLEAN]
    BY DEF NoStage
  <2>2. supTodo \in SupPlans /\ cli \in CliPlaces
    BY DEF SupPlans, CliPlaces
  <2>3. /\ cliStage \in Nat /\ stageFile \in Nat /\ ackFile \in Nat /\ doneFile \in Nat
        /\ leaseAge \in Nat /\ stageAge \in Nat /\ silence \in Nat /\ elapsed \in Nat
    OBVIOUS
  <2>4. reaper \in [Reapers -> {"off", "kill", "create", "write", "remove"}]
    OBVIOUS
  <2>5. sup = "starting" /\ proposal = "none" /\ supStage = NoStage /\ polled = TRUE /\ fresh = FALSE
    OBVIOUS
  <2> HIDE DEF Init
  <2> QED BY <2>1, <2>2, <2>3, <2>4, <2>5 DEF TypeOK
<1>2. OneCommitter /\ OnlyDeadClisAreReaped
  BY DEF OneCommitter, CliCommits, SupCommits, ReaperCommitting, OnlyDeadClisAreReaped
<1>3. FilesAgree /\ AgesAgree
  BY DEF FilesAgree, AgesAgree, NoStage
<1> QED BY <1>1, <1>2, <1>3 DEF SandboxInv

\* A plan is carried out from its head on.
LEMMA PlanTails ==
  ASSUME NEW p \in SupPlans, p # <<>>
  PROVE  /\ Tail(p) \in SupPlans
         /\ Head(p) = "kill" =>
              /\ SubSeq(p, 2, Len(p) - 1) \in SupPlans
              /\ Tail(p) = <<>> \/ Head(Tail(p)) # "write"
              /\ SubSeq(p, 2, Len(p) - 1) = <<>> \/ Head(SubSeq(p, 2, Len(p) - 1)) # "write"
         /\ Head(p) = "create" =>
              /\ Tail(p) # <<>> /\ Head(Tail(p)) = "write"
              /\ Tail(Tail(p)) \in SupPlans
              /\ Tail(Tail(p)) = <<>> \/ Head(Tail(Tail(p))) # "write"
         /\ Head(p) \in {"write", "remove"} => Tail(p) = <<>> \/ Head(Tail(p)) # "write"
<1> USE DEF SupPlans
<1>1. CASE p = <<"remove">>
  BY <1>1
<1>2. CASE p = <<"kill", "remove">>
  BY <1>2
<1>3. CASE p = <<"write", "kill", "remove">>
  BY <1>3
<1>4. CASE p = <<"create", "write", "kill", "remove">>
  BY <1>4
<1>5. CASE p = <<"write", "remove">>
  BY <1>5
<1>6. CASE p = <<"create", "write", "remove">>
  BY <1>6
<1>7. CASE p = <<"kill", "create", "write", "remove">>
  <2>1. Head(p) = "kill" /\ Tail(p) = <<"create", "write", "remove">>
    BY <1>7
  <2>2. SubSeq(p, 2, Len(p) - 1) = <<"create", "write">>
    <3> DEFINE q == SubSeq(p, 2, 3)
    <3>1. p \in Seq({"kill", "create", "write", "remove"}) /\ Len(p) = 4
      BY <1>7
    <3>2. Len(q) = 2 /\ q[1] = "create" /\ q[2] = "write" /\ q \in Seq({"kill", "create", "write", "remove"})
      BY <1>7, <3>1
    <3>3. q = <<"create", "write">>
      <4> HIDE DEF q
      <4>1. \A i \in 1..2 : q[i] = <<"create", "write">>[i]
        BY <3>2
      <4>2. <<"create", "write">> \in Seq({"kill", "create", "write", "remove"}) /\ Len(<<"create", "write">>) = 2
        OBVIOUS
      <4> QED BY <3>2, <4>1, <4>2, SeqEqual
    <3> QED BY <3>1, <3>3
  <2> QED BY <2>1, <2>2
<1>8. CASE p = <<"write">>
  BY <1>8
<1>9. CASE p = <<"create", "write">>
  BY <1>9
<1> QED BY <1>1, <1>2, <1>3, <1>4, <1>5, <1>6, <1>7, <1>8, <1>9

LEMMA SeenStageIsAStage ==
  ASSUME TypeOK
  PROVE  /\ SeenStage \in [id : Nat, done : BOOLEAN]
         /\ SeenStage.id = stageFile
         /\ SeenStage.done <=> (IF NewStage THEN doneFile = stageFile ELSE supStage.done \/ doneFile = stageFile)
<1>1. stageFile \in Nat /\ supStage \in [id : Nat, done : BOOLEAN]
  BY DEF TypeOK
<1>2. CASE NewStage
  BY <1>1, <1>2 DEF SeenStage
<1>3. CASE ~NewStage
  BY <1>1, <1>3 DEF SeenStage, NewStage
<1> QED BY <1>2, <1>3

LEMMA AgedIsNat == ASSUME NEW n \in Nat PROVE Aged(n) \in Nat /\ Aged(n) \in {n, n + 1} /\ n <= Aged(n)
BY DEF Aged

LEMMA NoStageIsAStage == NoStage \in [id : Nat, done : BOOLEAN] /\ NoStage.id = 0 /\ ~NoStage.done
BY DEF NoStage

LEMMA TypeNext == TypeOK /\ [Next]_vars => TypeOK'
<1> SUFFICES ASSUME TypeOK, [Next]_vars PROVE TypeOK'
  OBVIOUS
<1> USE DEF TypeOK, cliVars, supVars, cliFiles, dockerVars, timeVars, faults
<1>1. CASE CliSteps
  <2>1. CASE Handshake
    <3>1. fresh' \in BOOLEAN
      BY <2>1, Zenon DEF Handshake
    <3> QED BY <2>1, <3>1 DEF Handshake, CliPlaces
  <2>2. CASE NotReady
    BY <2>2, NoStageIsAStage DEF NotReady, SupGone, NoLongerWatching, SupPlans, CliPlaces
  <2>3. CASE CommitNotReady
    BY <2>3 DEF CommitNotReady, CliPlaces
  <2>4. CASE CreateWorkspace \/ Acked \/ Throw \/ StartContainer \/ CleanUp \/ ProposalAnswered
    BY <2>4 DEF CreateWorkspace, Acked, Throw, StartContainer, CleanUp, ProposalAnswered, CliStep, CliPlaces
  <2>5. CASE BeginStage
    BY <2>5 DEF BeginStage, CliStep, CliPlaces
  <2>6. CASE EndStage
    BY <2>6 DEF EndStage, CliStep, CliPlaces
  <2>7. CASE Propose
    BY <2>7, EndingsAssumption DEF Propose, CliStep, CliPlaces, Statuses
  <2>8. CASE CliExits
    BY <2>8 DEF CliExits, CliGone, CliPlaces
  <2> QED BY <1>1, <2>1, <2>2, <2>3, <2>4, <2>5, <2>6, <2>7, <2>8 DEF CliSteps
<1>2. CASE Poll
  <2>1. supStage' \in [id : Nat, done : BOOLEAN] /\ supTodo' \in SupPlans /\ sup' \in {"watching", "ending"}
    BY <1>2, SeenStageIsAStage, NoStageIsAStage DEF Poll, NoLongerWatching, SupPlans
  <2>2. /\ ackFile' \in Nat /\ leaseAge' \in Nat /\ stageAge' \in Nat /\ silence' \in Nat /\ elapsed' \in Nat
        /\ polled' = TRUE /\ fresh' = FALSE
    <3>1. SeenLeaseAge \in Nat /\ SeenStageAge \in Nat
      BY DEF SeenLeaseAge, SeenStageAge
    <3> HIDE DEF TypeOK
    <3>2. /\ ackFile' = stageFile
          /\ leaseAge' \in {0, SeenLeaseAge} /\ stageAge' \in {0, SeenStageAge}
          /\ silence' \in {0, silence} /\ elapsed' \in {0, elapsed}
          /\ polled' = TRUE /\ fresh' = FALSE
      BY <1>2 DEF Poll, NoLongerWatching
    <3> QED BY <3>1, <3>2 DEF TypeOK
  <2> QED BY <1>2, <2>1, <2>2 DEF Poll
<1>3. CASE SupReady
  BY <1>3 DEF SupReady
<1>4. CASE StandDown \/ SupExit
  <2>1. SupGone /\ UNCHANGED <<cliVars, cliFiles, ackFile, reaper>>
    BY <1>4 DEF StandDown, SupExit
  <2> QED BY <2>1, NoStageIsAStage DEF SupGone, NoLongerWatching, SupPlans
<1>5. CASE SupKill \/ SupCreate \/ SupWrite \/ SupRemove
  <2>1. supTodo' \in SupPlans
    BY <1>5, PlanTails DEF SupKill, SupCreate, SupWrite, SupRemove, SupStep
  <2> QED BY <1>5, <2>1 DEF SupKill, SupCreate, SupWrite, SupRemove, SupStep
<1>6. CASE \E r \in Reapers : Reaping(r)
  BY <1>6 DEF Reaping, ReaperLooks, ReaperKills, ReaperCommits, ReaperRemoves, ReaperStep
<1>7. CASE Tick
  BY <1>7, AgedIsNat DEF Tick
<1>8. CASE Death
  <2>1. CASE cli' = "killed" /\ cliStage' = 0 /\ UNCHANGED <<supVars, fresh, timeVars, reaper>>
    BY <1>8, <2>1 DEF Death, CliPlaces
  <2>2. CASE SupGone /\ UNCHANGED <<cliVars, reaper>>
    <3>1. UNCHANGED <<cliFiles, ackFile>>
      BY <1>8 DEF Death
    <3> QED BY <2>2, <3>1, NoStageIsAStage DEF SupGone, NoLongerWatching, SupPlans
  <2>3. CASE /\ \E r \in Reapers : reaper' = [reaper EXCEPT ![r] = "off"]
             /\ UNCHANGED <<cliVars, supVars, fresh, timeVars>>
    BY <1>8, <2>3 DEF Death
  <2> QED BY <1>8, <2>1, <2>2, <2>3 DEF Death, CliGone
<1>9. CASE Renew
  BY <1>9 DEF Renew
<1>10. CASE LoseSupervisor \/ Cancel \/ RemoveNow \/ ContainerExits \/ DockerStopsOrReturns \/ UNCHANGED vars
  BY <1>10 DEF LoseSupervisor, Cancel, RemoveNow, ContainerExits, DockerStopsOrReturns, vars
<1> QED BY <1>1, <1>2, <1>3, <1>4, <1>5, <1>6, <1>7, <1>8, <1>9, <1>10 DEF Next, SupSteps

\* Most steps make no committer and leave the terminal file alone.
NoNewCommitter ==
  /\ terminal' = terminal
  /\ CliCommits' => CliCommits
  /\ SupCommits' => SupCommits
  /\ \A r \in Reapers : ReaperCommitting(r)' => ReaperCommitting(r)

LEMMA TerminalsDiffer == NoTerminal # EmptyTerminal
BY DEF NoTerminal, EmptyTerminal, Terminal

LEMMA SupGoneCommitsNothing == SupGone => ~SupCommits'
BY DEF SupGone, SupCommits

LEMMA CommitterSteps ==
  ASSUME TypeOK, [Next]_vars
  PROVE  \/ NoNewCommitter
         \/ CommitNotReady \/ SupCreate \/ SupWrite
         \/ \E r \in Reapers : ReaperCommits(r)
<1> USE DEF NoNewCommitter, CliCommits, SupCommits, ReaperCommitting, cliVars, supVars
<1>1. CASE CliSteps /\ ~NotReady /\ ~CommitNotReady
  <2>1. UNCHANGED <<terminal, sup, supTodo, reaper>> /\ cli' # "writing"
    BY <1>1 DEF CliSteps, Handshake, CreateWorkspace, BeginStage, Acked, Throw, StartContainer, EndStage, Propose,
       ProposalAnswered, CleanUp, CliExits, CliStep, CliGone
  <2> QED BY <2>1
<1>2. CASE NotReady \/ StandDown \/ SupExit
  <2>1. UNCHANGED <<terminal, reaper>> /\ (cli' = cli \/ cli' = "not ready") /\ SupGone
    BY <1>2 DEF NotReady, StandDown, SupExit
  <2>2. ~SupCommits'
    BY <2>1, SupGoneCommitsNothing
  <2> HIDE DEF SupCommits
  <2> QED BY <2>1, <2>2
<1>3. CASE SupReady
  BY <1>3 DEF SupReady
<1>4. CASE Poll
  <2>1. UNCHANGED <<terminal, reaper, cli>>
    BY <1>4 DEF Poll
  <2>2. ~SupCommits'
    <3>1. CASE sup' = sup
      BY <1>4, <3>1 DEF Poll
    <3>2. CASE supTodo' = <<"create", "write", "kill", "remove">> \/ supTodo' = <<"kill", "create", "write", "remove">>
      BY <3>2
    <3> QED BY <1>4, <3>1, <3>2 DEF Poll
  <2> HIDE DEF SupCommits
  <2> QED BY <2>1, <2>2
<1>5. CASE SupKill \/ SupRemove
  <2>1. UNCHANGED <<terminal, reaper, cli, sup>>
    BY <1>5 DEF SupKill, SupRemove, SupStep
  <2>2. supTodo' = supTodo \/ supTodo' = <<>> \/ Head(supTodo') # "write"
    BY <1>5, PlanTails DEF SupKill, SupRemove, SupStep, TypeOK
  <2> QED BY <2>1, <2>2
<1>6. CASE \E r \in Reapers : ReaperLooks(r) \/ ReaperKills(r) \/ ReaperRemoves(r)
  <2>1. UNCHANGED <<terminal, cli, sup, supTodo>>
    BY <1>6 DEF ReaperLooks, ReaperKills, ReaperRemoves, ReaperStep
  <2>2. PICK r \in Reapers : reaper' \in {[reaper EXCEPT ![r] = to] : to \in {"kill", "create", "remove", "off"}}
    BY <1>6 DEF ReaperLooks, ReaperKills, ReaperRemoves, ReaperStep
  <2> QED BY <2>1, <2>2 DEF TypeOK
<1>7. CASE Death
  <2>1. UNCHANGED terminal
    BY <1>7 DEF Death
  <2>2. CASE cli' = "killed" /\ UNCHANGED <<supVars, reaper>>
    BY <2>1, <2>2
  <2>3. CASE SupGone /\ UNCHANGED <<cliVars, reaper>>
    <3>1. ~SupCommits'
      BY <2>3, SupGoneCommitsNothing
    <3> HIDE DEF SupCommits
    <3> QED BY <2>1, <2>3, <3>1
  <2>4. CASE /\ \E r \in Reapers : reaper' = [reaper EXCEPT ![r] = "off"]
             /\ UNCHANGED <<cliVars, supVars>>
    BY <2>1, <2>4 DEF TypeOK
  <2> QED BY <1>7, <2>2, <2>3, <2>4 DEF Death, CliGone
<1>8. CASE Renew \/ LoseSupervisor \/ Cancel \/ RemoveNow \/ ContainerExits \/ Tick \/ DockerStopsOrReturns \/ UNCHANGED vars
  BY <1>8 DEF Renew, LoseSupervisor, Cancel, RemoveNow, ContainerExits, Tick, DockerStopsOrReturns, vars
<1> QED BY <1>1, <1>2, <1>3, <1>4, <1>5, <1>6, <1>7, <1>8 DEF Next, SupSteps, CliSteps, Reaping

LEMMA OneCommitterNext == TypeOK /\ OneCommitter /\ [Next]_vars => OneCommitter'
<1> SUFFICES ASSUME TypeOK, OneCommitter, [Next]_vars PROVE OneCommitter'
  OBVIOUS
<1>1. CASE NoNewCommitter
  BY <1>1 DEF NoNewCommitter, OneCommitter
<1> USE DEF OneCommitter, CliCommits, SupCommits, ReaperCommitting
<1>2. CASE CommitNotReady
  BY <1>2, TerminalsDiffer DEF CommitNotReady, Created, Create, supVars
<1>3. CASE SupCreate
  BY <1>3, TerminalsDiffer, PlanTails DEF SupCreate, SupStep, Created, Create, cliVars, TypeOK
<1>4. CASE SupWrite
  BY <1>4, PlanTails DEF SupWrite, SupStep, cliVars, TypeOK
<1>5. CASE \E r \in Reapers : ReaperCommits(r)
  <2>1. PICK r \in Reapers : ReaperCommits(r)
    BY <1>5
  <2>2. UNCHANGED <<cli, sup, supTodo>>
    BY <2>1 DEF ReaperCommits, ReaperStep, cliVars, supVars
  <2>3. CASE reaper[r] = "create"
    BY <2>1, <2>2, <2>3, TerminalsDiffer DEF ReaperCommits, ReaperStep, Created, Create, TypeOK
  <2>4. CASE reaper[r] = "write"
    BY <2>1, <2>2, <2>4 DEF ReaperCommits, ReaperStep, TypeOK
  <2> QED BY <2>1, <2>3, <2>4 DEF ReaperCommits, ReaperStep
<1> QED BY <1>1, <1>2, <1>3, <1>4, <1>5, CommitterSteps

\* A process that is gone does not come back.
LEMMA DeadCliStaysDead == [Next]_vars /\ ~CliAlive => ~CliAlive'
BY DEF CliAlive, Next, CliSteps, SupSteps, Handshake, NotReady, CommitNotReady, CreateWorkspace, BeginStage, Acked, Throw,
   StartContainer, EndStage, Propose, ProposalAnswered, CleanUp, CliExits, CliStep, CliGone, Renew, LoseSupervisor, Cancel,
   RemoveNow, Supervising, SupReady, Poll, StandDown, SupKill, SupCreate, SupWrite, SupRemove, SupExit, SupStep, Reaping,
   ReaperLooks, ReaperKills, ReaperCommits, ReaperRemoves, ReaperStep, ContainerExits, Tick, Death, DockerStopsOrReturns,
   vars, cliVars

LEMMA ReaperSteps ==
  ASSUME [Next]_vars
  PROVE  \/ UNCHANGED reaper
         \/ \E r \in Reapers :
              \/ ReaperLooks(r) \/ ReaperKills(r) \/ ReaperCommits(r)
              \/ reaper' = [reaper EXCEPT ![r] = "off"]
BY DEF Next, CliSteps, SupSteps, Handshake, NotReady, CommitNotReady, CreateWorkspace, BeginStage, Acked, Throw,
   StartContainer, EndStage, Propose, ProposalAnswered, CleanUp, CliExits, CliStep, Renew, LoseSupervisor, Cancel,
   RemoveNow, SupReady, Poll, StandDown, SupKill, SupCreate, SupWrite, SupRemove, SupExit, SupStep, Reaping,
   ReaperRemoves, ReaperStep, ContainerExits, Tick, Death, DockerStopsOrReturns, vars

LEMMA ReapedNext == TypeOK /\ OnlyDeadClisAreReaped /\ [Next]_vars => OnlyDeadClisAreReaped'
<1> SUFFICES ASSUME TypeOK, OnlyDeadClisAreReaped, [Next]_vars PROVE OnlyDeadClisAreReaped'
  OBVIOUS
<1> USE DEF OnlyDeadClisAreReaped, TypeOK
<1>1. ~CliAlive => ~CliAlive'
  BY DeadCliStaysDead
<1>2. CASE UNCHANGED reaper
  BY <1>1, <1>2
<1>3. ASSUME NEW r \in Reapers, ReaperLooks(r)
      PROVE  OnlyDeadClisAreReaped'
  BY <1>1, <1>3 DEF ReaperLooks, ReaperStep, OwnersDead
<1>4. ASSUME NEW r \in Reapers, ReaperKills(r) \/ ReaperCommits(r) \/ reaper' = [reaper EXCEPT ![r] = "off"]
      PROVE  OnlyDeadClisAreReaped'
  BY <1>1, <1>4 DEF ReaperKills, ReaperCommits, ReaperStep
<1> QED BY <1>2, <1>3, <1>4, ReaperSteps

LEMMA FilesNext == TypeOK /\ FilesAgree /\ AgesAgree /\ [Next]_vars => FilesAgree'
<1> SUFFICES ASSUME TypeOK, FilesAgree, AgesAgree, [Next]_vars PROVE FilesAgree'
  OBVIOUS
<1> USE DEF FilesAgree, CliAlive, cliVars, supVars, cliFiles
<1>1. CASE CliSteps
  <2>1. CASE Handshake
    BY <2>1 DEF Handshake
  <2>2. CASE NotReady
    BY <2>2, NoStageIsAStage DEF NotReady, SupGone, NoLongerWatching, TypeOK
  <2>3. CASE CommitNotReady
    BY <2>3 DEF CommitNotReady
  <2>4. CASE CreateWorkspace \/ Throw \/ StartContainer \/ CleanUp \/ ProposalAnswered \/ Propose
    BY <2>4 DEF CreateWorkspace, Throw, StartContainer, CleanUp, ProposalAnswered, Propose, CliStep
  <2>5. CASE Acked
    BY <2>5 DEF Acked, OwnAck, CliStep
  <2>6. CASE BeginStage
    BY <2>6 DEF BeginStage, CliStep, TypeOK
  <2>7. CASE EndStage
    BY <2>7 DEF EndStage, CliStep, TypeOK
  <2>8. CASE CliExits
    BY <2>8 DEF CliExits, CliGone
  <2> QED BY <1>1, <2>1, <2>2, <2>3, <2>4, <2>5, <2>6, <2>7, <2>8 DEF CliSteps
<1>2. CASE Poll
  <2>1. UNCHANGED <<cli, cliStage, stageFile, doneFile>> /\ ackFile' = stageFile /\ sup = "watching"
    BY <1>2 DEF Poll
  <2>2. CASE sup' = "watching" /\ supStage' = SeenStage
    BY <2>1, <2>2, SeenStageIsAStage DEF TypeOK, NewStage
  <2>3. CASE sup' = "ending" /\ supStage' = NoStage
    BY <2>1, <2>3, NoStageIsAStage DEF TypeOK
  <2> QED BY <1>2, <2>2, <2>3 DEF Poll, NoLongerWatching
<1>3. CASE SupReady
  BY <1>3, NoStageIsAStage DEF SupReady, AgesAgree
<1>4. CASE StandDown \/ SupExit
  <2>1. SupGone /\ UNCHANGED <<cliVars, cliFiles, ackFile>>
    BY <1>4 DEF StandDown, SupExit
  <2> QED BY <2>1, NoStageIsAStage DEF SupGone, NoLongerWatching
<1>5. CASE SupKill \/ SupCreate \/ SupWrite \/ SupRemove
  BY <1>5 DEF SupKill, SupCreate, SupWrite, SupRemove, SupStep
<1>6. CASE \E r \in Reapers : Reaping(r)
  BY <1>6 DEF Reaping, ReaperLooks, ReaperKills, ReaperCommits, ReaperRemoves, ReaperStep
<1>7. CASE Death
  <2>1. UNCHANGED <<cliFiles, ackFile>>
    BY <1>7 DEF Death
  <2>2. CASE cli' = "killed" /\ UNCHANGED supVars
    BY <2>1, <2>2
  <2>3. CASE SupGone /\ UNCHANGED cliVars
    BY <2>1, <2>3, NoStageIsAStage DEF SupGone, NoLongerWatching
  <2>4. CASE UNCHANGED <<cliVars, supVars>>
    BY <2>1, <2>4
  <2> QED BY <1>7, <2>2, <2>3, <2>4 DEF Death, CliGone
<1>8. CASE Renew \/ LoseSupervisor \/ Cancel \/ RemoveNow \/ ContainerExits \/ Tick \/ DockerStopsOrReturns \/ UNCHANGED vars
  BY <1>8 DEF Renew, LoseSupervisor, Cancel, RemoveNow, ContainerExits, Tick, DockerStopsOrReturns, vars
<1> QED BY <1>1, <1>2, <1>3, <1>4, <1>5, <1>6, <1>7, <1>8 DEF Next, SupSteps

\* Ageing keeps the order of two ages and their distance.
LEMMA AgedInStep ==
  ASSUME NEW a \in Nat, NEW b \in Nat, a <= b, b <= a + 1
  PROVE  Aged(a) <= Aged(b) /\ Aged(b) <= Aged(a) + 1
<1>1. Cap \in Nat
  BY SandboxRunAssumption DEF Cap
<1> QED BY <1>1 DEF Aged

LEMMA NotWatching ==
  ASSUME sup' # "watching", stageAge' = 0, elapsed' = 0, silence' = 0, supStage' = NoStage
  PROVE  AgesAgree'
BY DEF AgesAgree

LEMMA AgesNext == TypeOK /\ AgesAgree /\ [Next]_vars => AgesAgree'
<1> SUFFICES ASSUME TypeOK, AgesAgree, [Next]_vars PROVE AgesAgree'
  OBVIOUS
<1> DEFINE measures == <<sup, supStage, leaseAge, stageAge, polled, fresh, silence, elapsed>>
<1>1. ASSUME UNCHANGED measures PROVE AgesAgree'
  BY <1>1 DEF AgesAgree
<1>2. ASSUME UNCHANGED <<sup, supStage, leaseAge, stageAge, polled, elapsed>>, fresh' = (sup = "watching"), silence' = 0
      PROVE  AgesAgree'
  <2>1. CASE sup = "watching"
    <3>1. fresh' /\ sup' = "watching" /\ silence' = 0 /\ UNCHANGED <<supStage, leaseAge, stageAge, polled, elapsed>>
      BY <1>2, <2>1
    <3> QED BY <2>1, <3>1 DEF AgesAgree
  <2>2. CASE sup # "watching"
    BY <1>2, <2>2 DEF AgesAgree
  <2> QED BY <2>1, <2>2
<1>3. ASSUME SupGone PROVE AgesAgree'
  BY <1>3, NotWatching DEF SupGone, NoLongerWatching
<1>4. CASE Handshake \/ Renew
  BY <1>2, <1>4 DEF Handshake, Renew, supVars
<1>5. CASE NotReady \/ StandDown \/ SupExit
  BY <1>3, <1>5 DEF NotReady, StandDown, SupExit
<1>6. CASE CliSteps /\ ~Handshake /\ ~NotReady
  <2>1. UNCHANGED measures
    BY <1>6 DEF CliSteps, CommitNotReady, CreateWorkspace, BeginStage, Acked, Throw, StartContainer, EndStage, Propose,
       ProposalAnswered, CleanUp, CliExits, CliStep, supVars, timeVars
  <2> QED BY <1>1, <2>1
<1>7. CASE SupReady
  <2>1. /\ sup' = "watching" /\ leaseAge' = 0
        /\ UNCHANGED <<supStage, stageAge, polled, fresh, silence, elapsed>>
        /\ supStage = NoStage /\ silence = 0
    BY <1>7 DEF SupReady, AgesAgree, timeVars
  <2>2. LeaseTimeout + KillGrace \in Nat /\ 1 <= LeaseTimeout + KillGrace
    BY SandboxRunAssumption
  <2>3. supStage'.id = 0 /\ stageAge' = elapsed'
    BY <2>1, NoStageIsAStage DEF AgesAgree
  <2> HIDE DEF measures
  <2> QED BY <2>1, <2>2, <2>3 DEF AgesAgree
<1>8. CASE Poll
  <2>1. CASE proposal = "none" /\ ~LeaseOver /\ ~StageOver
    <3>1. /\ sup' = "watching" /\ sup = "watching" /\ supStage' = SeenStage /\ leaseAge' = SeenLeaseAge /\ stageAge' = SeenStageAge
          /\ elapsed' = (IF NewStage THEN 0 ELSE elapsed) /\ fresh' = FALSE /\ polled' = TRUE /\ silence' = silence
      BY <1>8, <2>1 DEF Poll
    <3>2. leaseAge' < LeaseTimeout + KillGrace
      BY <2>1, <3>1, SandboxRunAssumption DEF LeaseOver, TypeOK, SeenLeaseAge
    <3>3. stageAge' = elapsed'
      BY <3>1 DEF SeenStageAge, AgesAgree
    <3>4. supStage'.id # 0 /\ ~supStage'.done => stageAge' < StageDeadline + KillGrace
      BY <2>1, <3>1, SandboxRunAssumption DEF StageOver, StageRuns, TypeOK, SeenStageAge
    <3>5. leaseAge' <= silence' /\ silence' <= leaseAge' + 1
      BY <3>1 DEF SeenLeaseAge, AgesAgree, TypeOK
    <3>6. leaseAge' \in Nat /\ stageAge' \in Nat
      BY <3>1 DEF SeenLeaseAge, SeenStageAge, TypeOK
    <3> HIDE DEF measures
    <3> QED BY <3>1, <3>2, <3>3, <3>4, <3>5, <3>6, SandboxRunAssumption DEF AgesAgree
  <2>2. CASE ~(proposal = "none" /\ ~LeaseOver /\ ~StageOver)
    BY <1>8, <2>2, NotWatching DEF Poll, NoLongerWatching
  <2> QED BY <2>1, <2>2
<1>9. CASE SupKill \/ SupCreate \/ SupWrite \/ SupRemove
  <2>1. UNCHANGED measures
    BY <1>9 DEF SupKill, SupCreate, SupWrite, SupRemove, SupStep, timeVars
  <2> QED BY <1>1, <2>1
<1>10. CASE Tick
  <2>1. /\ sup = "watching" /\ polled /\ polled' = FALSE /\ leaseAge' = Aged(leaseAge) /\ stageAge' = Aged(stageAge)
        /\ silence' = Aged(silence) /\ elapsed' = Aged(elapsed) /\ UNCHANGED <<sup, supStage, fresh>>
    BY <1>10 DEF Tick
  <2>2. leaseAge' <= leaseAge + 1 /\ stageAge' <= stageAge + 1 /\ silence' <= silence + 1 /\ leaseAge' \in Nat /\ stageAge' \in Nat
    BY <2>1, AgedIsNat DEF TypeOK
  <2>3. ~fresh => leaseAge' <= silence' /\ silence' <= leaseAge' + 1
    BY <2>1, AgedInStep DEF AgesAgree, TypeOK
  <2>4. stageAge' = elapsed'
    BY <2>1 DEF AgesAgree
  <2>5. leaseAge' <= LeaseTimeout + KillGrace
    BY <2>1, <2>2, SandboxRunAssumption DEF AgesAgree, TypeOK
  <2>6. supStage'.id # 0 /\ ~supStage'.done => stageAge' <= StageDeadline + KillGrace
    BY <2>1, <2>2, SandboxRunAssumption DEF AgesAgree, TypeOK
  <2>7. fresh => silence' <= 1
    BY <2>1, <2>2 DEF AgesAgree, TypeOK
  <2>8. LeaseTimeout + KillGrace \in Nat /\ StageDeadline + KillGrace \in Nat
    BY SandboxRunAssumption
  <2> HIDE DEF measures
  <2> QED BY <2>1, <2>2, <2>3, <2>4, <2>5, <2>6, <2>7, <2>8 DEF AgesAgree
<1>11. CASE Death
  <2>1. SupGone \/ UNCHANGED measures
    BY <1>11 DEF Death, supVars, timeVars
  <2> QED BY <1>1, <1>3, <2>1
<1>12. CASE \E r \in Reapers : Reaping(r)
  <2>1. UNCHANGED measures
    BY <1>12 DEF Reaping, ReaperLooks, ReaperKills, ReaperCommits, ReaperRemoves, ReaperStep, supVars, timeVars
  <2> QED BY <1>1, <2>1
<1>13. CASE LoseSupervisor \/ Cancel \/ RemoveNow \/ ContainerExits \/ DockerStopsOrReturns \/ UNCHANGED vars
  <2>1. UNCHANGED measures
    BY <1>13 DEF LoseSupervisor, Cancel, RemoveNow, ContainerExits, DockerStopsOrReturns, vars, supVars, timeVars
  <2> QED BY <1>1, <2>1
<1> HIDE DEF measures
<1> QED BY <1>4, <1>5, <1>6, <1>7, <1>8, <1>9, <1>10, <1>11, <1>12, <1>13 DEF Next, SupSteps

LEMMA SandboxNext == SandboxInv /\ [Next]_vars => SandboxInv'
BY TypeNext, OneCommitterNext, ReapedNext, FilesNext, AgesNext DEF SandboxInv

\* Who commits, who is reaped and what is measured, for any deadlines, reapers and mishaps.
THEOREM SandboxInvariance == Spec => []SandboxInv
<1> QED BY SandboxInit, SandboxNext, PTL DEF Spec

-----------------------------------------------------------------------------
(* The properties *)

\* While the supervisor watches, no stage outlasts its deadline and no silent CLI its lease, for any
\* deadlines, and the deadline measured is that of the stage that runs.
THEOREM DeadlinesHold == Spec => []DeadlineHolds
<1>1. SandboxInv => DeadlineHolds
  <2> SUFFICES ASSUME SandboxInv, sup = "watching" PROVE DeadlineHolds
    BY DEF DeadlineHolds
  <2>1. leaseAge <= LeaseTimeout + KillGrace /\ silence <= LeaseTimeout + KillGrace + 1
    <3>1. leaseAge <= LeaseTimeout + KillGrace
      BY SandboxRunAssumption DEF SandboxInv, TypeOK, AgesAgree
    <3>2. silence <= leaseAge + 1
      BY DEF SandboxInv, TypeOK, AgesAgree
    <3> QED BY <3>1, <3>2, SandboxRunAssumption DEF SandboxInv, TypeOK
  <2>2. CASE cli = "stage"
    <3>1. supStage.id = cliStage /\ ~supStage.done /\ supStage.id # 0
      BY <2>2 DEF SandboxInv, TypeOK, FilesAgree, CliAlive
    <3>2. stageAge <= StageDeadline + KillGrace /\ elapsed = stageAge
      BY <3>1, SandboxRunAssumption DEF SandboxInv, TypeOK, AgesAgree
    <3> QED BY <2>1, <3>1, <3>2, SandboxRunAssumption DEF DeadlineHolds, SandboxInv, TypeOK
  <2> QED BY <2>1, <2>2 DEF DeadlineHolds
<1> QED BY <1>1, SandboxInvariance, PTL

\* Whoever commits a terminal state first, nobody replaces it, for any number of reapers.
THEOREM TheFirstStateStays == Spec => OneTerminalState
<1>1. SandboxInv /\ [Next]_vars => [Readable => terminal' = terminal]_vars
  <2> SUFFICES ASSUME SandboxInv, [Next]_vars, Readable PROVE terminal' = terminal
    OBVIOUS
  <2>1. terminal # EmptyTerminal /\ terminal # NoTerminal
    BY DEF Readable
  <2>2. ~CliCommits /\ ~SupCommits /\ \A r \in Reapers : ~ReaperCommitting(r)
    BY <2>1 DEF SandboxInv, OneCommitter
  <2>3. CASE CommitNotReady
    BY <2>1, <2>2, <2>3 DEF CommitNotReady, Created, Create, CliCommits
  <2>4. CASE SupCreate
    BY <2>1, <2>4 DEF SupCreate, Created, Create
  <2>5. CASE SupWrite
    BY <2>2, <2>5 DEF SupWrite, SupStep, SupCommits
  <2>6. CASE \E r \in Reapers : ReaperCommits(r)
    BY <2>1, <2>2, <2>6 DEF ReaperCommits, ReaperStep, Created, Create, ReaperCommitting
  <2>7. CASE NoNewCommitter
    BY <2>7 DEF NoNewCommitter
  <2> QED BY <2>3, <2>4, <2>5, <2>6, <2>7, CommitterSteps DEF SandboxInv
<1> QED BY <1>1, SandboxInvariance, PTL DEF Spec, OneTerminalState

\* What the supervisor's measures say when it ends a run.
LEMMA EndedForCause ==
  ASSUME SandboxInv, Poll, sup' = "ending", proposal = "none"
  PROVE  /\ verdict' = "ABANDONED" => silence >= LeaseTimeout + KillGrace
         /\ verdict' = "timeout" => elapsed >= StageDeadline + KillGrace /\ doneFile # stageFile
<1> USE SandboxRunAssumption
<1>1. /\ LeaseOver \/ StageOver
      /\ verdict' = IF StageFirst THEN "timeout" ELSE "ABANDONED"
      /\ sup = "watching"
  BY DEF Poll
<1>2. SeenLeaseAge \in Nat /\ SeenStageAge \in Nat /\ LeaseTimeout \in Nat /\ StageDeadline \in Nat /\ KillGrace \in Nat
  BY DEF SeenLeaseAge, SeenStageAge, SandboxInv, TypeOK
<1>3. CASE ~StageFirst
  <2>1. SeenLeaseAge >= LeaseTimeout + KillGrace
    BY <1>1, <1>2, <1>3 DEF LeaseOver, StageOver, StageFirst
  <2>2. ~fresh /\ leaseAge >= LeaseTimeout + KillGrace
    BY <2>1 DEF SeenLeaseAge
  <2>3. leaseAge <= silence
    BY <1>1, <2>2 DEF SandboxInv, AgesAgree
  <2>4. silence >= LeaseTimeout + KillGrace
    BY <1>2, <2>2, <2>3 DEF SandboxInv, TypeOK
  <2> QED BY <1>1, <1>3, <2>4
<1>4. CASE StageFirst
  <2>1. StageRuns /\ SeenStageAge >= StageDeadline + KillGrace
    BY <1>1, <1>2, <1>4 DEF LeaseOver, StageOver, StageFirst
  <2>2. ~NewStage /\ stageAge >= StageDeadline + KillGrace
    BY <2>1 DEF SeenStageAge
  <2>3. elapsed >= StageDeadline + KillGrace
    BY <2>2 DEF SandboxInv, AgesAgree
  <2>4. doneFile # stageFile
    BY <2>1, <2>2, SeenStageIsAStage DEF StageRuns, SandboxInv
  <2> QED BY <1>1, <1>4, <2>3, <2>4
<1> QED BY <1>3, <1>4

\* Only a poll ends the watch, and only a reaper signs as one.
LEMMA EndingSteps ==
  ASSUME [Next]_vars, sup = "watching", sup' = "ending"
  PROVE  Poll
BY DEF Next, CliSteps, SupSteps, Handshake, NotReady, CommitNotReady, CreateWorkspace, BeginStage, Acked, Throw,
   StartContainer, EndStage, Propose, ProposalAnswered, CleanUp, CliExits, CliStep, Renew, LoseSupervisor, Cancel,
   RemoveNow, SupReady, StandDown, SupKill, SupCreate, SupWrite, SupRemove, SupExit, SupStep, SupGone, Reaping,
   ReaperLooks, ReaperKills, ReaperCommits, ReaperRemoves, ReaperStep, ContainerExits, Tick, Death, DockerStopsOrReturns,
   vars, supVars

LEMMA ReaperSigns ==
  ASSUME TypeOK, [Next]_vars, terminal' # terminal, terminal' = Terminal("ABANDONED", "reaper")
  PROVE  \E r \in Reapers : reaper[r] = "write"
<1>1. CASE CommitNotReady
  BY <1>1 DEF CommitNotReady, Created, Write, EmptyTerminal, Terminal
<1>2. CASE SupCreate
  BY <1>2 DEF SupCreate, Created, EmptyTerminal, Terminal
<1>3. CASE SupWrite
  BY <1>3 DEF SupWrite, Write, Terminal
<1>4. CASE \E r \in Reapers : ReaperCommits(r)
  BY <1>4 DEF ReaperCommits, ReaperStep, Created, EmptyTerminal, Terminal
<1> QED BY <1>1, <1>2, <1>3, <1>4, CommitterSteps DEF NoNewCommitter

\* A run is abandoned only for a silent CLI and timed out only for a stage over its deadline, for
\* any deadlines, and no reaper ends the run of a CLI that is alive.
THEOREM NobodyEndsWithoutCause == Spec => EnforcedForCause
<1>1. SandboxInv /\ [Next]_vars =>
        [/\ sup = "watching" /\ sup' = "ending" /\ proposal = "none" =>
              /\ verdict' = "ABANDONED" => silence >= LeaseTimeout + KillGrace
              /\ verdict' = "timeout" => elapsed >= StageDeadline + KillGrace /\ doneFile # stageFile
         /\ terminal' # terminal /\ terminal' = Terminal("ABANDONED", "reaper") => ~CliAlive]_vars
  <2> SUFFICES ASSUME SandboxInv, [Next]_vars
               PROVE  /\ sup = "watching" /\ sup' = "ending" /\ proposal = "none" =>
                           /\ verdict' = "ABANDONED" => silence >= LeaseTimeout + KillGrace
                           /\ verdict' = "timeout" => elapsed >= StageDeadline + KillGrace /\ doneFile # stageFile
                      /\ terminal' # terminal /\ terminal' = Terminal("ABANDONED", "reaper") => ~CliAlive
    OBVIOUS
  <2>1. ASSUME terminal' # terminal, terminal' = Terminal("ABANDONED", "reaper")
        PROVE  ~CliAlive
    BY <2>1, ReaperSigns DEF SandboxInv, OnlyDeadClisAreReaped
  <2> QED BY <2>1, EndingSteps, EndedForCause
<1> QED BY <1>1, SandboxInvariance, PTL DEF Spec, EnforcedForCause

=============================================================================
