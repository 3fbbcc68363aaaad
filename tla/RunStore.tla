------------------------------ MODULE RunStore ------------------------------
(***************************************************************************)
(* The durable record of one qb run (run/store.js), written by the process *)
(* that owns the run and, once that process is gone, by any other qb       *)
(* process that starts (reapAbandoned).                                    *)
(*                                                                         *)
(* A JavaScript process is interrupted by a signal only between its        *)
(* synchronous operations, but it is killed between any two file writes:   *)
(* `todo` holds the writes that the current operation still has to make.   *)
(* A definition that precedes the one it resembles is a seeded fault.      *)
(***************************************************************************)
EXTENDS Naturals, Sequences, SequencesExt

CONSTANTS
  Reapers,      \* other qb processes that start while the run is recorded
  MaxAttempts,  \* bound: attempts of the run
  MaxKills,     \* bound: processes killed outright, the owner included
  DryRun,       \* the run's agent is the dry-run agent
  TornAppends,  \* a kill may leave half a line at the end of events.jsonl
  Absent        \* no manifest.json yet

ASSUME RunStoreAssumption ==
  /\ MaxAttempts \in Nat /\ MaxKills \in Nat
  /\ DryRun \in BOOLEAN /\ TornAppends \in BOOLEAN

VARIABLES
  manifest,     \* content of manifest.json
  events,       \* the lines of events.jsonl
  torn,         \* events.jsonl ends in half a line
  owner,        \* the owner: starting, running, exiting, exited or killed
  mem,          \* the owner's in-memory manifest
  todo,         \* the writes its current operation has still to make
  reused,       \* the owner is gone and another process has its pid
  reaper,       \* per reaper: where it is in reapAbandoned
  loaded,       \* per reaper: the manifest it loaded
  kills         \* processes killed so far

diskVars == <<manifest, events, torn>>
ownerVars == <<owner, mem, todo>>
reaperVars == <<reaper, loaded>>
vars == <<diskVars, ownerVars, reaperVars, reused, kills>>

Verdicts == {"pass", "fail", "partial", "unresolved", "error", "no-diff"}
Null == "null"
Outcomes == {"RUNNING", "VERIFIED", "FAILED", "UNRESOLVED", "ERROR",
             "BLOCKED", "CANCELLED", "DRY_RUN", "ABANDONED"}
Terminal == Outcomes \ {"RUNNING"}

NewManifest == [outcome |-> "RUNNING", legacy |-> Null, attempts |-> <<>>]

Save(m) == [do |-> "save", what |-> m]
Event(type) == [do |-> "event", what |-> type]
TerminalEvents == {"run.finished", "run.aborted", "run.abandoned"}

OwnerAlive == owner \in {"starting", "running", "exiting"}
PidAlive == OwnerAlive \/ reused

\* Kept evidence is aggregated to the same verdict again: `input` is the verdict it gives.
Replayed(a) == a.input

LastVerdict(m) == IF m.attempts = <<>> THEN Null ELSE Last(m.attempts).verdict

OutcomeFor(v) ==
  CASE v = "pass" -> "VERIFIED"
    [] v = "fail" -> "FAILED"
    [] v \in {"partial", "unresolved"} -> "UNRESOLVED"
    [] v = "no-diff" -> IF DryRun THEN "DRY_RUN" ELSE "UNRESOLVED"
    [] OTHER -> "ERROR"

\* The manifest's attempts and its outcome follow from the stored evidence.
ReplayFinal(m) ==
  LET replayed == IF m.attempts = <<>> THEN Null ELSE Replayed(Last(m.attempts))
      claims == m.legacy # Null \/ m.outcome \in {"VERIFIED", "FAILED", "UNRESOLVED", "DRY_RUN"}
  IN  /\ m.outcome = "VERIFIED" => replayed = "pass"
      /\ claims => /\ replayed # Null
                   /\ m.legacy = replayed
                   /\ m.outcome = OutcomeFor(replayed)
Replay(m) ==
  /\ \A i \in DOMAIN m.attempts : Replayed(m.attempts[i]) = m.attempts[i].verdict
  /\ ReplayFinal(m)

Init ==
  /\ manifest = Absent /\ events = <<>> /\ torn = FALSE
  /\ owner = "starting" /\ mem = NewManifest
  /\ todo = <<Save(NewManifest), Event("run.started")>>
  /\ reused = FALSE
  /\ reaper = [r \in Reapers |-> "off"]
  /\ loaded = [r \in Reapers |-> NewManifest]
  /\ kills = 0

-----------------------------------------------------------------------------
(* The owner *)

Idle == owner = "running" /\ todo = <<>>

\* writeAtomic (temp file and rename) or appendLine.
OwnerWrites ==
  /\ OwnerAlive /\ todo # <<>>
  /\ todo' = Tail(todo)
  /\ IF Head(todo).do = "save"
     THEN manifest' = Head(todo).what /\ UNCHANGED events
     ELSE events' = Append(events, Head(todo).what) /\ UNCHANGED manifest
  /\ UNCHANGED <<torn, owner, mem, reused, reaperVars, kills>>

\* An operation changes the manifest in memory and has writes to make.
Operation(m, writes) ==
  /\ mem' = m
  /\ todo' = writes
  /\ UNCHANGED <<diskVars, reused, reaperVars, kills>>

InstallSignalHandlers ==
  /\ owner = "starting" /\ todo = <<>>
  /\ owner' = "running"
  /\ Operation(mem, <<>>)

StartAttempt ==
  /\ Idle /\ mem.outcome = "RUNNING"
  /\ Len(mem.attempts) < MaxAttempts
  /\ mem.attempts # <<>> => ~Last(mem.attempts).open /\ LastVerdict(mem) # "pass"
  /\ LET a == [verdict |-> Null, input |-> Null, open |-> TRUE]
         m == [mem EXCEPT !.attempts = Append(@, a)]
     IN  Operation(m, <<Save(m), Event("attempt.started")>>)
  /\ UNCHANGED owner

\* The evidence goes first, as artifacts; the verdict and the reference to the verdict's
\* input reach the manifest together.  No report, no input.
Finished(m, v) == [m EXCEPT !.attempts[Len(m.attempts)] = [verdict |-> v, input |-> v, open |-> FALSE]]
VerdictFirst(v) ==
  LET n == Len(mem.attempts)
      claimed == [mem EXCEPT !.attempts[n].verdict = v]
  IN  <<Save(claimed), Event("artifact.stored"), Save(Finished(mem, v)), Event("attempt.finished")>>
EvidenceFirst(v) ==
  <<Save(mem), Event("artifact.stored"), Save(Finished(mem, v)), Event("attempt.finished")>>
FinishAttempt ==
  /\ Idle /\ mem.outcome = "RUNNING"
  /\ mem.attempts # <<>> /\ Last(mem.attempts).open
  /\ \E v \in Verdicts \cup {Null} : Operation(Finished(mem, v), EvidenceFirst(v))
  /\ UNCHANGED owner

\* finish() and abort() do nothing to a run that is terminal in memory.
AlwaysOpen == TRUE
StillOpen == mem.outcome = "RUNNING"

Ending(outcome, legacy, type) ==
  IF StillOpen
  THEN LET m == [mem EXCEPT !.outcome = outcome, !.legacy = legacy]
       IN  Operation(m, <<Save(m), Event(type)>>)
  ELSE Operation(mem, <<>>)

\* qb.js: the loop ended with a verified attempt, before any, or was blocked.
Finish ==
  /\ Idle /\ mem.outcome = "RUNNING"
  /\ \/ /\ mem.attempts # <<>> => ~Last(mem.attempts).open
        /\ Ending(OutcomeFor(LastVerdict(mem)), LastVerdict(mem), "run.finished")
     \/ Ending("BLOCKED", Null, "run.finished")
  /\ UNCHANGED owner

\* A signal, an uncaught error, or the event loop running dry: the handlers close the run,
\* and the process exits.
ExitSilently ==
  /\ Idle
  /\ owner' = "exiting"
  /\ Operation(mem, <<>>)
Interrupted ==
  /\ Idle
  /\ owner' = "exiting"
  /\ \E outcome \in {"CANCELLED", "ERROR"} : Ending(outcome, mem.legacy, "run.aborted")

Exit ==
  /\ owner = "exiting" /\ todo = <<>>
  /\ owner' = "exited"
  /\ UNCHANGED <<diskVars, mem, todo, reused, reaperVars, kills>>

\* SIGKILL, or a signal before the handlers are installed.  The line being appended may be cut.
KillOwner ==
  /\ OwnerAlive /\ kills < MaxKills
  /\ kills' = kills + 1
  /\ owner' = "killed"
  /\ todo' = <<>>
  /\ \/ UNCHANGED torn
     \/ /\ TornAppends /\ todo # <<>> /\ Head(todo).do = "event"
        /\ torn' = TRUE
  /\ UNCHANGED <<manifest, events, mem, reused, reaperVars>>

\* The operating system gives the owner's pid to another process, and takes it back.
PidReused ==
  /\ ~OwnerAlive
  /\ reused' = ~reused
  /\ UNCHANGED <<diskVars, ownerVars, reaperVars, kills>>

-----------------------------------------------------------------------------
(* reapAbandoned, at the start of every other qb run *)

\* loadRun: an unreadable events line throws, and the run is skipped.
Load(r) ==
  /\ reaper[r] = "off"
  /\ manifest # Absent /\ ~torn
  /\ manifest.outcome = "RUNNING"
  /\ reaper' = [reaper EXCEPT ![r] = "loaded"]
  /\ loaded' = [loaded EXCEPT ![r] = manifest]
  /\ UNCHANGED <<diskVars, ownerVars, reused, kills>>

EveryErrorIsAlive == FALSE
EveryoneIsGone == TRUE
OwnerIsGone == ~PidAlive

Probe(r) ==
  /\ reaper[r] = "loaded"
  /\ reaper' = [reaper EXCEPT ![r] = IF OwnerIsGone THEN "abandon" ELSE "off"]
  /\ loaded' = [loaded EXCEPT ![r] = IF OwnerIsGone THEN @ ELSE NewManifest]
  /\ UNCHANGED <<diskVars, ownerVars, reused, kills>>

\* The manifest as it was loaded, with its outcome replaced, is written over the file.
Abandon(r) ==
  /\ reaper[r] = "abandon"
  /\ manifest' = [loaded[r] EXCEPT !.outcome = "ABANDONED"]
  /\ reaper' = [reaper EXCEPT ![r] = "report"]
  /\ loaded' = [loaded EXCEPT ![r] = NewManifest]
  /\ UNCHANGED <<events, torn, ownerVars, reused, kills>>

Report(r) ==
  /\ reaper[r] = "report"
  /\ events' = Append(events, "run.abandoned")
  /\ reaper' = [reaper EXCEPT ![r] = "off"]
  /\ UNCHANGED <<manifest, torn, loaded, ownerVars, reused, kills>>

KillReaper(r) ==
  /\ reaper[r] # "off" /\ kills < MaxKills
  /\ kills' = kills + 1
  /\ reaper' = [reaper EXCEPT ![r] = "off"]
  /\ loaded' = [loaded EXCEPT ![r] = NewManifest]
  /\ UNCHANGED <<diskVars, ownerVars, reused>>

OwnerSteps ==
  \/ OwnerWrites \/ InstallSignalHandlers \/ StartAttempt \/ FinishAttempt
  \/ Finish \/ Interrupted \/ Exit

Reaping(r) == Load(r) \/ Probe(r) \/ Abandon(r) \/ Report(r)

Next ==
  \/ OwnerSteps \/ KillOwner \/ PidReused
  \/ \E r \in Reapers : Reaping(r) \/ KillReaper(r)

Spec == Init /\ [][Next]_vars

\* The owner keeps running until it exits or is killed; qb is started again and again.
FairSpec ==
  /\ Spec
  /\ WF_vars(OwnerWrites \/ InstallSignalHandlers \/ Exit)
  /\ \A r \in Reapers : WF_vars(Reaping(r))

-----------------------------------------------------------------------------
(* Properties *)

\* Whatever was killed at whatever point, `qb replay` accepts the manifest on disk: no verdict
\* without the evidence that gives it, no VERIFIED without a passing attempt (replayFinal).
ReplayAccepts == manifest # Absent => Replay(manifest)

\* Only the gone are reaped: while the owner is there, however late in its exit, nobody marks its run
\* ABANDONED, and the outcome it records first stays, whatever signal or handler comes after it
\* (run/store.js:219-230, 347-364); once it is gone, the mark is all that anybody writes (330-345).
OnlyTheGoneAreMarked ==
  [][manifest # Absent /\ manifest' # manifest =>
       IF OwnerAlive
       THEN /\ manifest'.outcome # "ABANDONED"
            /\ manifest'.outcome # manifest.outcome => manifest.outcome = "RUNNING"
       ELSE manifest'.outcome = "ABANDONED"]_vars

\* "Mark RUNNING manifests whose owning process is gone as ABANDONED" (run/store.js:330): the mark
\* replaces RUNNING only, so that an outcome which was recorded, VERIFIED say, is there for good.
OnlyRunningIsMarked ==
  [][manifest # Absent /\ manifest'.outcome # manifest.outcome => manifest.outcome = "RUNNING"]_vars

\* A process that exits by itself leaves a closed record: a terminal manifest and its event.
ExitCloses ==
  owner = "exited" => /\ manifest.outcome \in Terminal
                      /\ \E i \in DOMAIN events : events[i] \in TerminalEvents

\* A run whose owner is gone does not stay RUNNING: the next qb run to start marks it
\* (run/store.js:10-12), unless its pid is in use or a cut append made its events unreadable.
GoneOwnerIsNoticed ==
  []<>(PidAlive \/ torn \/ manifest = Absent \/ manifest.outcome # "RUNNING")

=============================================================================
