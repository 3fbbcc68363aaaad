--------------------------- MODULE RunStoreProofs ---------------------------
(***************************************************************************)
(* The record of a run stays sound for any number of attempts, of reapers  *)
(* and of kills, wherever they strike.                                     *)
(***************************************************************************)
EXTENDS RunStore, TLAPS

Attempt == [verdict : Verdicts \cup {Null}, input : Verdicts \cup {Null}, open : BOOLEAN]
Manifest == [outcome : Outcomes, legacy : Verdicts \cup {Null}, attempts : Seq(Attempt)]
EventType == {"run.started", "attempt.started", "attempt.finished", "artifact.stored"} \cup TerminalEvents
Write == [do : {"save"}, what : Manifest] \cup [do : {"event"}, what : EventType]

TypeOK ==
  /\ manifest \in Manifest \cup {Absent}
  /\ events \in Seq(EventType)
  /\ owner \in {"starting", "running", "exiting", "exited", "killed"}
  /\ mem \in Manifest
  /\ todo \in Seq(Write)
  /\ reaper \in [Reapers -> {"off", "loaded", "abandon", "report"}]
  /\ loaded \in [Reapers -> Manifest]

\* What the owner may hold, and may still have to write.
Sound(m) == Replay(m) /\ m.outcome # "ABANDONED"

\* Every manifest there is replays, in memory, on its way to the disk, on it or in a reaper.
OwnerIsSound ==
  /\ Sound(mem)
  /\ \A i \in DOMAIN todo :
       todo[i].do = "save" => Sound(todo[i].what) /\ todo[i].what.outcome = mem.outcome
DiskIsSound == manifest # Absent => manifest \in Manifest /\ Replay(manifest)
ReapersAreSound ==
  \A r \in Reapers : reaper[r] \in {"loaded", "abandon"} => Replay(loaded[r]) /\ loaded[r].outcome = "RUNNING"

\* A reaper that saw the owner gone is right for good; until then only the owner closes the run.
OnlyTheDeadAreReaped == \A r \in Reapers : reaper[r] = "abandon" => ~OwnerAlive
OwnerDecides == OwnerAlive /\ manifest # Absent => manifest.outcome \in {"RUNNING", mem.outcome}

\* What the owner decided it has written or has still to write.
Recorded == \E i \in DOMAIN events : events[i] \in TerminalEvents
WillSave == \E i \in DOMAIN todo : todo[i].do = "save"
WillRecord == \E i \in DOMAIN todo : todo[i].do = "event" /\ todo[i].what \in TerminalEvents
NothingIsForgotten ==
  OwnerAlive =>
    /\ WillSave \/ manifest.outcome = mem.outcome
    /\ mem.outcome \in Terminal => WillRecord \/ Recorded
    /\ owner = "exiting" => mem.outcome \in Terminal

RecordInv ==
  /\ TypeOK
  /\ OwnerIsSound /\ DiskIsSound /\ ReapersAreSound
  /\ OnlyTheDeadAreReaped /\ OwnerDecides
  /\ NothingIsForgotten /\ ExitCloses

-----------------------------------------------------------------------------
(* The manifests *)

AttemptsReplay(m) == \A i \in DOMAIN m.attempts : Replayed(m.attempts[i]) = m.attempts[i].verdict

LEMMA NewManifestIsSound == NewManifest \in Manifest /\ Sound(NewManifest) /\ NewManifest.outcome = "RUNNING"
<1>1. <<>> \in Seq(Attempt)
  OBVIOUS
<1>2. NewManifest \in Manifest
  BY <1>1 DEF NewManifest, Manifest, Outcomes
<1>3. Replay(NewManifest)
  BY DEF NewManifest, Replay, ReplayFinal
<1> QED BY <1>2, <1>3 DEF Sound, NewManifest

\* A manifest that replays and is RUNNING claims no verdict.
LEMMA RunningClaimsNothing ==
  ASSUME NEW m \in Manifest, Replay(m), m.outcome = "RUNNING"
  PROVE  m.legacy = Null
BY DEF Replay, ReplayFinal, OutcomeFor

\* A manifest that claims no verdict replays if its attempts do.
LEMMA NoClaimReplays ==
  ASSUME NEW m \in Manifest, AttemptsReplay(m), m.legacy = Null,
         m.outcome \notin {"VERIFIED", "FAILED", "UNRESOLVED", "DRY_RUN"}
  PROVE  Replay(m)
BY DEF Replay, ReplayFinal, AttemptsReplay

\* A last attempt that is recorded has the verdict its evidence gives.
LEMMA LastIsRecorded ==
  ASSUME NEW m \in Manifest, m.attempts # <<>>
  PROVE  /\ Len(m.attempts) \in Nat \ {0}
         /\ Last(m.attempts) = m.attempts[Len(m.attempts)]
         /\ Last(m.attempts) \in Attempt
BY DEF Last, Manifest

\* startAttempt appends an attempt without a verdict.
Started(m) == [m EXCEPT !.attempts = Append(@, [verdict |-> Null, input |-> Null, open |-> TRUE])]

LEMMA StartedIsSound ==
  ASSUME NEW m \in Manifest, Sound(m), m.outcome = "RUNNING"
  PROVE  Started(m) \in Manifest /\ Sound(Started(m)) /\ Started(m).outcome = "RUNNING"
<1> DEFINE a == [verdict |-> Null, input |-> Null, open |-> TRUE]
           n == Started(m)
<1>1. a \in Attempt
  BY DEF Attempt
<1>2. n.attempts = Append(m.attempts, a) /\ n.outcome = m.outcome /\ n.legacy = m.legacy
  BY DEF Started, Manifest
<1>3. n.attempts \in Seq(Attempt)
  BY <1>1, <1>2 DEF Manifest
<1>4. n \in Manifest
  BY <1>1, <1>3 DEF Manifest, Started
<1>5. AttemptsReplay(n)
  <2> SUFFICES ASSUME NEW i \in DOMAIN n.attempts
               PROVE  Replayed(n.attempts[i]) = n.attempts[i].verdict
    BY DEF AttemptsReplay
  <2>1. CASE i = Len(m.attempts) + 1
    BY <1>2, <2>1 DEF Manifest, Replayed
  <2>2. CASE i \in DOMAIN m.attempts
    BY <1>2, <2>2 DEF Manifest, Replayed, Sound, Replay
  <2> QED BY <1>2, <2>1, <2>2 DEF Manifest
<1>6. n.legacy = Null
  BY <1>2, RunningClaimsNothing DEF Sound
<1> HIDE DEF n
<1>7. Replay(n)
  BY <1>2, <1>4, <1>5, <1>6, NoClaimReplays
<1> QED BY <1>2, <1>4, <1>7 DEF Sound, n

\* finishAttempt records a verdict and its input together.
LEMMA FinishedIsSound ==
  ASSUME NEW m \in Manifest, Sound(m), m.outcome = "RUNNING", m.attempts # <<>>,
         NEW v \in Verdicts \cup {Null}
  PROVE  Finished(m, v) \in Manifest /\ Sound(Finished(m, v)) /\ Finished(m, v).outcome = "RUNNING"
<1> DEFINE a == [verdict |-> v, input |-> v, open |-> FALSE]
           n == Finished(m, v)
           last == Len(m.attempts)
<1>1. a \in Attempt
  BY DEF Attempt
<1>2. n.attempts = [m.attempts EXCEPT ![last] = a] /\ n.outcome = m.outcome /\ n.legacy = m.legacy
  BY DEF Finished, Manifest
<1>3. n.attempts \in Seq(Attempt)
  BY <1>1, <1>2 DEF Manifest
<1>4. n \in Manifest
  BY <1>1, <1>3 DEF Manifest, Finished
<1>5. AttemptsReplay(n)
  BY <1>2 DEF AttemptsReplay, Manifest, Replayed, Sound, Replay
<1>6. n.legacy = Null
  BY <1>2, RunningClaimsNothing DEF Sound
<1> HIDE DEF n
<1>7. Replay(n)
  BY <1>2, <1>4, <1>5, <1>6, NoClaimReplays
<1> QED BY <1>2, <1>4, <1>7 DEF Sound, n

LEMMA OutcomesFor ==
  ASSUME NEW v \in Verdicts \cup {Null}
  PROVE  /\ OutcomeFor(v) \in Terminal \ {"ABANDONED"}
         /\ OutcomeFor(v) = "VERIFIED" => v = "pass"
         /\ OutcomeFor(Null) = "ERROR"
BY DEF OutcomeFor, Terminal, Outcomes, Verdicts, Null

\* finish and abort: the outcome of the last verdict, or one that claims nothing.
Closed(m, outcome, legacy) == [m EXCEPT !.outcome = outcome, !.legacy = legacy]

LEMMA ClosedIsSound ==
  ASSUME NEW m \in Manifest, Sound(m), m.outcome = "RUNNING", NEW o, NEW l,
         \/ o = OutcomeFor(LastVerdict(m)) /\ l = LastVerdict(m)
         \/ o \in {"BLOCKED", "CANCELLED", "ERROR"} /\ l = Null
  PROVE  /\ Closed(m, o, l) \in Manifest /\ Sound(Closed(m, o, l))
         /\ Closed(m, o, l).outcome = o /\ o \in Terminal
<1> DEFINE n == Closed(m, o, l)
<1>1. LastVerdict(m) \in Verdicts \cup {Null}
  BY LastIsRecorded DEF LastVerdict, Attempt
<1>2. /\ o \in Terminal \ {"ABANDONED"} /\ o \in Outcomes
      /\ l \in Verdicts \cup {Null}
  BY <1>1, OutcomesFor DEF Terminal, Outcomes
<1>3. n.attempts = m.attempts /\ n.outcome = o /\ n.legacy = l
  BY DEF Closed, Manifest
<1>4. n \in Manifest
  BY <1>2 DEF Manifest, Closed
<1> HIDE DEF n
<1>5. AttemptsReplay(n)
  BY <1>3 DEF AttemptsReplay, Sound, Replay
<1>6. Replay(n)
  <2>1. CASE l = Null
    <3>1. o \notin {"VERIFIED", "FAILED", "UNRESOLVED", "DRY_RUN"}
      BY <2>1, OutcomesFor
    <3> QED BY <1>3, <1>4, <1>5, <2>1, <3>1, NoClaimReplays
  <2>2. CASE l # Null
    <3>1. o = OutcomeFor(l) /\ l = LastVerdict(m) /\ m.attempts # <<>>
      BY <2>2 DEF LastVerdict
    <3>2. Replayed(Last(m.attempts)) = l
      BY <3>1, LastIsRecorded DEF LastVerdict, Sound, Replay, Manifest
    <3>3. ReplayFinal(n)
      BY <1>1, <1>3, <2>2, <3>1, <3>2, OutcomesFor DEF ReplayFinal
    <3> QED BY <1>5, <3>3 DEF Replay, AttemptsReplay
  <2> QED BY <2>1, <2>2
<1> QED BY <1>2, <1>3, <1>4, <1>6 DEF Sound, n

-----------------------------------------------------------------------------
(* The steps *)

LEMMA WritesAreWrites ==
  ASSUME NEW m \in Manifest, NEW type \in EventType
  PROVE  Save(m) \in Write /\ Event(type) \in Write
BY DEF Save, Event, Write

LEMMA RecordInit == Init => RecordInv
<1> SUFFICES ASSUME Init PROVE RecordInv
  OBVIOUS
<1> USE NewManifestIsSound DEF Init
<1>1. /\ Len(todo) = 2 /\ todo[1] = Save(NewManifest) /\ todo[2] = Event("run.started")
      /\ DOMAIN todo = {1, 2}
  OBVIOUS
<1>2. Save(NewManifest) \in Write /\ Event("run.started") \in Write
  BY WritesAreWrites DEF EventType
<1>3. TypeOK
  <2>1. todo \in Seq(Write)
    BY <1>2
  <2>2. events \in Seq(EventType)
    OBVIOUS
  <2> QED BY <2>1, <2>2 DEF TypeOK
<1>4. OwnerIsSound
  BY <1>1 DEF OwnerIsSound, Save, Event
<1>5. NothingIsForgotten
  BY <1>1 DEF NothingIsForgotten, WillSave, Save, Terminal
<1> QED BY <1>3, <1>4, <1>5 DEF RecordInv, DiskIsSound, ReapersAreSound, OnlyTheDeadAreReaped, OwnerDecides,
       ExitCloses

\* The writes of one operation agree with what it left in memory, and close what it closed.
Belong(w, m) ==
  /\ w \in Seq(Write)
  /\ \A i \in DOMAIN w : w[i].do = "save" => Sound(w[i].what) /\ w[i].what.outcome = m.outcome
  /\ \E i \in DOMAIN w : w[i].do = "save"
  /\ m.outcome \in Terminal => \E i \in DOMAIN w : w[i].do = "event" /\ w[i].what \in TerminalEvents

LEMMA TwoWrites ==
  ASSUME NEW m \in Manifest, Sound(m), NEW type \in EventType, m.outcome \in Terminal => type \in TerminalEvents
  PROVE  Belong(<<Save(m), Event(type)>>, m)
<1> DEFINE w == <<Save(m), Event(type)>>
<1>1. Save(m) \in Write /\ Event(type) \in Write
  BY WritesAreWrites
<1>2. w \in Seq(Write) /\ DOMAIN w = {1, 2} /\ w[1] = Save(m) /\ w[2] = Event(type)
  BY <1>1
<1> HIDE DEF w
<1>3. Belong(w, m)
  BY <1>2 DEF Belong, Save, Event
<1> QED BY <1>3 DEF w

LEMMA FourWrites ==
  ASSUME NEW m \in Manifest, Sound(m), NEW n \in Manifest, Sound(n),
         m.outcome = "RUNNING", n.outcome = "RUNNING", NEW s \in EventType, NEW t \in EventType
  PROVE  Belong(<<Save(m), Event(s), Save(n), Event(t)>>, n)
<1> DEFINE w == <<Save(m), Event(s), Save(n), Event(t)>>
<1>1. Save(m) \in Write /\ Event(s) \in Write /\ Save(n) \in Write /\ Event(t) \in Write
  BY WritesAreWrites
<1>2. w \in Seq(Write) /\ DOMAIN w = 1..4 /\ w[1] = Save(m) /\ w[2] = Event(s) /\ w[3] = Save(n) /\ w[4] = Event(t)
  BY <1>1
<1> HIDE DEF w
<1>3. \A i \in DOMAIN w : w[i].do = "save" => w[i].what \in {m, n}
  BY <1>2 DEF Save, Event
<1>4. w[1].do = "save" /\ 1 \in DOMAIN w
  BY <1>2 DEF Save
<1>5. Belong(w, n)
  BY <1>2, <1>3, <1>4 DEF Belong, Terminal
<1> QED BY <1>5 DEF w

\* An operation starts when the last one has made its writes.
LEMMA OperationKeeps ==
  ASSUME RecordInv, OwnerAlive, todo = <<>>, NEW m \in Manifest, Sound(m), NEW w, Operation(m, w),
         mem.outcome \in {"RUNNING", m.outcome},
         Belong(w, m) \/ (w = <<>> /\ m = mem),
         owner' \in {"running", "exiting"}, owner' = "exiting" => m.outcome \in Terminal
  PROVE  RecordInv'
<1>1. w \in Seq(Write)
  <2>1. CASE w = <<>>
    BY <2>1
  <2>2. CASE Belong(w, m)
    BY <2>2 DEF Belong
  <2> QED BY <2>1, <2>2
<1> USE DEF RecordInv, Operation, diskVars, reaperVars
<1>2. TypeOK'
  BY <1>1 DEF TypeOK
<1>3. OwnerIsSound'
  BY <1>1 DEF OwnerIsSound, Belong
<1>4. DiskIsSound' /\ ReapersAreSound'
  BY DEF DiskIsSound, ReapersAreSound
<1>5. OnlyTheDeadAreReaped' /\ OwnerDecides' /\ ExitCloses'
  BY DEF OnlyTheDeadAreReaped, OwnerDecides, OwnerAlive, ExitCloses
<1>6. NothingIsForgotten'
  <2>1. CASE Belong(w, m)
    BY <2>1 DEF Belong, NothingIsForgotten, WillSave, WillRecord
  <2>2. CASE w = <<>> /\ m = mem
    BY <2>2 DEF NothingIsForgotten, WillSave, WillRecord, Recorded
  <2> QED BY <2>1, <2>2
<1> QED BY <1>2, <1>3, <1>4, <1>5, <1>6

LEMMA EndingKeeps ==
  ASSUME RecordInv, OwnerAlive, todo = <<>>, NEW o, NEW l, NEW type \in TerminalEvents, Ending(o, l, type),
         mem.outcome = "RUNNING" =>
           \/ o = OutcomeFor(LastVerdict(mem)) /\ l = LastVerdict(mem)
           \/ o \in {"BLOCKED", "CANCELLED", "ERROR"} /\ l = Null,
         owner' \in {"running", "exiting"}
  PROVE  RecordInv'
<1>1. mem \in Manifest /\ Sound(mem)
  BY DEF RecordInv, TypeOK, OwnerIsSound
<1>2. CASE StillOpen
  <2> DEFINE m == Closed(mem, o, l)
  <2>1. Operation(m, <<Save(m), Event(type)>>)
    BY <1>2 DEF Ending, Closed
  <2>2. m \in Manifest /\ Sound(m) /\ m.outcome = o /\ o \in Terminal
    BY <1>1, <1>2, ClosedIsSound DEF StillOpen
  <2> HIDE DEF m
  <2>3. type \in EventType
    BY DEF EventType
  <2>4. Belong(<<Save(m), Event(type)>>, m)
    BY <2>2, <2>3, TwoWrites
  <2> QED BY <1>2, <2>1, <2>2, <2>4, OperationKeeps DEF StillOpen
<1>3. CASE ~StillOpen
  <2>1. mem.outcome \in Terminal
    BY <1>1, <1>3 DEF StillOpen, Manifest, Terminal
  <2> QED BY <1>1, <1>3, <2>1, OperationKeeps DEF Ending
<1> QED BY <1>2, <1>3

\* A write that is made leaves the others, one place further on.
LEMMA OneWriteLess ==
  ASSUME NEW w \in Seq(Write), w # <<>>
  PROVE  /\ Head(w) = w[1] /\ w[1] \in Write /\ 1 \in DOMAIN w /\ Tail(w) \in Seq(Write)
         /\ \A i \in DOMAIN Tail(w) : i + 1 \in DOMAIN w /\ Tail(w)[i] = w[i + 1]
         /\ \A i \in DOMAIN w : i = 1 \/ (i - 1 \in DOMAIN Tail(w) /\ Tail(w)[i - 1] = w[i])
OBVIOUS

LEMMA OneEventMore ==
  ASSUME events \in Seq(EventType), NEW type \in EventType, events' = Append(events, type)
  PROVE  /\ events' \in Seq(EventType)
         /\ Recorded => Recorded'
         /\ type \in TerminalEvents => Recorded'
<1>1. events' \in Seq(EventType)
  OBVIOUS
<1>2. /\ \A i \in DOMAIN events : i \in DOMAIN events' /\ events'[i] = events[i]
      /\ Len(events) + 1 \in DOMAIN events' /\ events'[Len(events) + 1] = type
  OBVIOUS
<1> QED BY <1>1, <1>2 DEF Recorded

LEMMA OwnerWritesKeeps == ASSUME RecordInv, OwnerWrites PROVE RecordInv'
<1> USE DEF RecordInv, TypeOK, OwnerWrites, reaperVars
<1>1. todo \in Seq(Write) /\ todo # <<>> /\ OwnerAlive
  OBVIOUS
<1> DEFINE head == todo[1]
<1>2. /\ Head(todo) = head /\ head \in Write /\ 1 \in DOMAIN todo /\ todo' = Tail(todo) /\ todo' \in Seq(Write)
      /\ \A i \in DOMAIN todo' : i + 1 \in DOMAIN todo /\ todo'[i] = todo[i + 1]
      /\ \A i \in DOMAIN todo : i = 1 \/ (i - 1 \in DOMAIN todo' /\ todo'[i - 1] = todo[i])
  BY <1>1, OneWriteLess
<1>3. UNCHANGED <<torn, owner, mem, reused, reaper, loaded, kills>>
  OBVIOUS
<1>4. OwnerIsSound'
  BY <1>2, <1>3 DEF OwnerIsSound
<1>5. ReapersAreSound' /\ OnlyTheDeadAreReaped'
  BY <1>3 DEF ReapersAreSound, OnlyTheDeadAreReaped, OwnerAlive
<1>6. owner # "exited"
  BY <1>1 DEF OwnerAlive
<1>7. CASE head.do = "save"
  <2>1. manifest' = head.what /\ events' = events
    BY <1>2, <1>7
  <2>2. head.what \in Manifest /\ Sound(head.what) /\ head.what.outcome = mem.outcome
    BY <1>2, <1>7 DEF OwnerIsSound, Write
  <2>3. TypeOK'
    BY <1>2, <1>3, <2>1, <2>2
  <2>4. DiskIsSound' /\ OwnerDecides'
    BY <1>3, <2>1, <2>2 DEF DiskIsSound, OwnerDecides, Sound
  <2>5. NothingIsForgotten'
    <3>1. mem.outcome \in Terminal => WillRecord' \/ Recorded'
      <4>1. WillRecord => WillRecord'
        BY <1>2, <1>7 DEF WillRecord
      <4>2. Recorded => Recorded'
        BY <2>1 DEF Recorded
      <4> QED BY <1>1, <4>1, <4>2 DEF NothingIsForgotten
    <3> QED BY <1>1, <1>3, <2>1, <2>2, <3>1 DEF NothingIsForgotten
  <2> QED BY <1>3, <1>4, <1>5, <1>6, <2>3, <2>4, <2>5 DEF ExitCloses
<1>8. CASE head.do # "save"
  <2>1. events' = Append(events, head.what) /\ manifest' = manifest
    BY <1>2, <1>8
  <2>2. head.do = "event" /\ head.what \in EventType
    BY <1>2, <1>8 DEF Write
  <2>3. TypeOK'
    BY <1>2, <1>3, <2>1, <2>2, OneEventMore
  <2>4. DiskIsSound' /\ OwnerDecides'
    BY <1>3, <2>1 DEF DiskIsSound, OwnerDecides, OwnerAlive
  <2>5. NothingIsForgotten'
    <3>1. mem.outcome \in Terminal => WillRecord' \/ Recorded'
      <4>1. WillRecord => WillRecord' \/ head.what \in TerminalEvents
        BY <1>2 DEF WillRecord
      <4> QED BY <1>1, <2>1, <2>2, <4>1, OneEventMore DEF NothingIsForgotten
    <3>2. WillSave => WillSave'
      BY <1>2, <1>8 DEF WillSave
    <3> QED BY <1>1, <1>3, <2>1, <3>1, <3>2 DEF NothingIsForgotten
  <2> QED BY <1>3, <1>4, <1>5, <1>6, <2>3, <2>4, <2>5 DEF ExitCloses
<1> QED BY <1>7, <1>8

LEMMA OwnerStepsKeep == ASSUME RecordInv, OwnerSteps PROVE RecordInv'
<1>1. mem \in Manifest /\ Sound(mem)
  BY DEF RecordInv, TypeOK, OwnerIsSound
<1>2. CASE OwnerWrites
  BY <1>2, OwnerWritesKeeps
<1>3. CASE InstallSignalHandlers
  <2>1. OwnerAlive /\ todo = <<>> /\ owner' = "running" /\ Operation(mem, <<>>)
    BY <1>3 DEF InstallSignalHandlers, OwnerAlive
  <2> QED BY <1>1, <2>1, OperationKeeps
<1>4. CASE StartAttempt
  <2> DEFINE m == Started(mem)
  <2>1. /\ OwnerAlive /\ todo = <<>> /\ mem.outcome = "RUNNING" /\ owner' = "running"
        /\ Operation(m, <<Save(m), Event("attempt.started")>>)
    BY <1>4 DEF StartAttempt, Idle, OwnerAlive, Started
  <2>2. m \in Manifest /\ Sound(m) /\ m.outcome = "RUNNING"
    BY <1>1, <2>1, StartedIsSound
  <2> HIDE DEF m
  <2>3. Belong(<<Save(m), Event("attempt.started")>>, m)
    BY <2>2, TwoWrites DEF EventType, Terminal
  <2> QED BY <2>1, <2>2, <2>3, OperationKeeps
<1>5. CASE FinishAttempt
  <2>1. PICK v \in Verdicts \cup {Null} : Operation(Finished(mem, v), EvidenceFirst(v))
    BY <1>5 DEF FinishAttempt
  <2> DEFINE m == Finished(mem, v)
  <2>2. OwnerAlive /\ todo = <<>> /\ mem.outcome = "RUNNING" /\ mem.attempts # <<>> /\ owner' = "running"
    BY <1>5 DEF FinishAttempt, Idle, OwnerAlive
  <2>3. m \in Manifest /\ Sound(m) /\ m.outcome = "RUNNING"
    BY <1>1, <2>2, FinishedIsSound
  <2>4. Operation(m, <<Save(mem), Event("artifact.stored"), Save(m), Event("attempt.finished")>>)
    BY <2>1 DEF EvidenceFirst
  <2> HIDE DEF m
  <2>5. Belong(<<Save(mem), Event("artifact.stored"), Save(m), Event("attempt.finished")>>, m)
    BY <1>1, <2>2, <2>3, FourWrites DEF EventType
  <2> QED BY <2>2, <2>3, <2>4, <2>5, OperationKeeps
<1>6. CASE Finish
  <2>1. OwnerAlive /\ todo = <<>> /\ owner' = "running"
    BY <1>6 DEF Finish, Idle, OwnerAlive
  <2>2. \/ Ending(OutcomeFor(LastVerdict(mem)), LastVerdict(mem), "run.finished")
        \/ Ending("BLOCKED", Null, "run.finished")
    BY <1>6 DEF Finish
  <2>3. "run.finished" \in TerminalEvents
    BY DEF TerminalEvents
  <2> QED BY <2>1, <2>2, <2>3, EndingKeeps
<1>7. CASE Interrupted
  <2>1. PICK o \in {"CANCELLED", "ERROR"} : Ending(o, mem.legacy, "run.aborted")
    BY <1>7 DEF Interrupted
  <2>2. OwnerAlive /\ todo = <<>> /\ owner' = "exiting"
    BY <1>7 DEF Interrupted, Idle, OwnerAlive
  <2>3. mem.outcome = "RUNNING" => mem.legacy = Null
    BY <1>1, RunningClaimsNothing DEF Sound
  <2>4. "run.aborted" \in TerminalEvents
    BY DEF TerminalEvents
  <2> QED BY <2>1, <2>2, <2>3, <2>4, EndingKeeps
<1>8. CASE Exit
  <2>1. OwnerAlive /\ WillSave = FALSE /\ WillRecord = FALSE
    BY <1>8 DEF Exit, OwnerAlive, WillSave, WillRecord
  <2>2. manifest.outcome \in Terminal /\ Recorded
    BY <1>8, <2>1 DEF Exit, RecordInv, NothingIsForgotten
  <2> QED BY <1>8, <2>2 DEF Exit, RecordInv, TypeOK, diskVars, reaperVars, OwnerIsSound, DiskIsSound, ReapersAreSound,
       OnlyTheDeadAreReaped, OwnerDecides, NothingIsForgotten, OwnerAlive, ExitCloses, Recorded
<1> QED BY <1>2, <1>3, <1>4, <1>5, <1>6, <1>7, <1>8 DEF OwnerSteps

LEMMA KillsKeep == ASSUME RecordInv, KillOwner \/ PidReused PROVE RecordInv'
<1> USE DEF RecordInv, TypeOK, diskVars, ownerVars, reaperVars, OwnerIsSound, DiskIsSound, ReapersAreSound,
       OnlyTheDeadAreReaped, OwnerDecides, NothingIsForgotten, OwnerAlive, ExitCloses
<1>1. CASE KillOwner
  <2>1. todo' = <<>> /\ todo' \in Seq(Write) /\ DOMAIN todo' = {}
    BY <1>1 DEF KillOwner
  <2> QED BY <1>1, <2>1 DEF KillOwner
<1>2. CASE PidReused
  BY <1>2 DEF PidReused, WillSave, WillRecord, Recorded
<1> QED BY <1>1, <1>2

LEMMA AbandonedIsSound ==
  ASSUME NEW m \in Manifest, Replay(m), m.outcome = "RUNNING"
  PROVE  /\ [m EXCEPT !.outcome = "ABANDONED"] \in Manifest
         /\ Replay([m EXCEPT !.outcome = "ABANDONED"])
         /\ [m EXCEPT !.outcome = "ABANDONED"].outcome = "ABANDONED"
<1> DEFINE n == [m EXCEPT !.outcome = "ABANDONED"]
<1>1. n \in Manifest /\ n.outcome = "ABANDONED" /\ n.legacy = m.legacy /\ n.attempts = m.attempts
  BY DEF Manifest, Outcomes
<1> HIDE DEF n
<1>2. n.legacy = Null
  BY <1>1, RunningClaimsNothing
<1>3. AttemptsReplay(n)
  BY <1>1 DEF AttemptsReplay, Replay
<1>4. Replay(n)
  BY <1>1, <1>2, <1>3, NoClaimReplays
<1> QED BY <1>1, <1>4 DEF n

LEMMA ReapingKeeps == ASSUME RecordInv, NEW r \in Reapers, Reaping(r) \/ KillReaper(r) PROVE RecordInv'
<1>1. /\ UNCHANGED ownerVars
      /\ OwnerAlive' = OwnerAlive /\ WillSave' = WillSave /\ WillRecord' = WillRecord
  BY DEF Reaping, Load, Probe, Abandon, Report, KillReaper, ownerVars, OwnerAlive, WillSave, WillRecord
<1>2. OwnerIsSound'
  BY <1>1 DEF RecordInv, OwnerIsSound, ownerVars
<1> USE DEF RecordInv, TypeOK, ownerVars
<1>3. CASE Load(r) \/ Probe(r) \/ KillReaper(r)
  <2>1. UNCHANGED diskVars /\ UNCHANGED <<manifest, events>>
    BY <1>3 DEF Load, Probe, KillReaper, diskVars
  <2>2. TypeOK' /\ ReapersAreSound'
    <3>1. CASE Load(r)
      BY <1>1, <2>1, <3>1 DEF Load, ReapersAreSound, DiskIsSound
    <3>2. CASE Probe(r) \/ KillReaper(r)
      BY <1>1, <2>1, <3>2, NewManifestIsSound DEF Probe, KillReaper, ReapersAreSound
    <3> QED BY <1>3, <3>1, <3>2
  <2>3. OnlyTheDeadAreReaped'
    BY <1>1, <1>3 DEF Load, Probe, KillReaper, OnlyTheDeadAreReaped, OwnerIsGone, PidAlive
  <2> QED BY <1>1, <1>2, <2>1, <2>2, <2>3 DEF DiskIsSound, OwnerDecides, NothingIsForgotten, ExitCloses, Recorded
<1>4. CASE Abandon(r)
  <2>1. ~OwnerAlive
    BY <1>4 DEF Abandon, OnlyTheDeadAreReaped
  <2>2. /\ manifest' \in Manifest /\ Replay(manifest') /\ manifest'.outcome = "ABANDONED"
    BY <1>4, AbandonedIsSound DEF Abandon, ReapersAreSound
  <2>3. TypeOK' /\ ReapersAreSound' /\ OnlyTheDeadAreReaped'
    BY <1>1, <1>4, <2>2, NewManifestIsSound DEF Abandon, ReapersAreSound, OnlyTheDeadAreReaped
  <2>4. DiskIsSound' /\ OwnerDecides' /\ NothingIsForgotten'
    BY <1>1, <2>1, <2>2 DEF DiskIsSound, OwnerDecides, NothingIsForgotten
  <2>5. ExitCloses'
    BY <1>1, <1>4, <2>2 DEF Abandon, ExitCloses, Terminal, Outcomes
  <2> QED BY <1>2, <2>3, <2>4, <2>5
<1>5. CASE Report(r)
  <2>1. /\ events' = Append(events, "run.abandoned") /\ "run.abandoned" \in EventType
        /\ manifest' = manifest /\ loaded' = loaded
    BY <1>5 DEF Report, EventType, TerminalEvents
  <2>2. events' \in Seq(EventType) /\ (Recorded => Recorded')
    BY <2>1, OneEventMore
  <2>3. TypeOK' /\ ReapersAreSound' /\ OnlyTheDeadAreReaped'
    BY <1>1, <1>5, <2>1, <2>2 DEF Report, ReapersAreSound, OnlyTheDeadAreReaped
  <2>4. DiskIsSound' /\ OwnerDecides' /\ NothingIsForgotten'
    BY <1>1, <2>1, <2>2 DEF DiskIsSound, OwnerDecides, NothingIsForgotten
  <2>5. ExitCloses'
    BY <1>1, <2>1, <2>2 DEF ExitCloses, Recorded
  <2> QED BY <1>2, <2>3, <2>4, <2>5
<1> QED BY <1>3, <1>4, <1>5 DEF Reaping

LEMMA RecordNext == RecordInv /\ [Next]_vars => RecordInv'
<1> SUFFICES ASSUME RecordInv, [Next]_vars PROVE RecordInv'
  OBVIOUS
<1>1. CASE UNCHANGED vars
  BY <1>1 DEF vars, diskVars, ownerVars, reaperVars, RecordInv, TypeOK, OwnerIsSound, DiskIsSound, ReapersAreSound,
       OnlyTheDeadAreReaped, OwnerDecides, NothingIsForgotten, WillSave, WillRecord, Recorded, OwnerAlive, ExitCloses
<1> QED BY <1>1, OwnerStepsKeep, KillsKeep, ReapingKeeps DEF Next

\* Every manifest, in memory, on its way to the disk, on it or in a reaper, replays, and what the
\* owner decided reaches the disk while it lives; for any number of attempts, reapers and kills.
THEOREM RecordIsSound == Spec => []RecordInv
<1> QED BY RecordInit, RecordNext, PTL DEF Spec

\* Whatever is killed at whatever write, `qb replay` accepts the manifest on disk.
THEOREM ReplayAlwaysAccepts == Spec => []ReplayAccepts
<1>1. RecordInv => ReplayAccepts
  BY DEF RecordInv, DiskIsSound, ReplayAccepts
<1> QED BY <1>1, RecordIsSound, PTL

\* A process that exits by itself leaves a terminal manifest and its event.
THEOREM ExitAlwaysCloses == Spec => []ExitCloses
<1>1. RecordInv => ExitCloses
  BY DEF RecordInv
<1> QED BY <1>1, RecordIsSound, PTL

\* Only a write or a reaper changes the manifest.
LEMMA MarkStep ==
  ASSUME RecordInv, Next, manifest # Absent, manifest' # manifest
  PROVE  IF OwnerAlive
         THEN /\ manifest'.outcome # "ABANDONED"
              /\ manifest'.outcome # manifest.outcome => manifest.outcome = "RUNNING"
         ELSE manifest'.outcome = "ABANDONED"
<1>1. CASE OwnerWrites
  <2>1. OwnerAlive /\ todo \in Seq(Write) /\ todo # <<>> /\ Head(todo).do = "save" /\ manifest' = Head(todo).what
    BY <1>1 DEF OwnerWrites, RecordInv, TypeOK
  <2>2. Sound(manifest') /\ manifest'.outcome = mem.outcome
    BY <2>1, OneWriteLess DEF RecordInv, OwnerIsSound
  <2> QED BY <2>1, <2>2 DEF RecordInv, OwnerDecides, Sound
<1>2. ASSUME NEW r \in Reapers, Abandon(r)
      PROVE  ~OwnerAlive /\ manifest'.outcome = "ABANDONED"
  BY <1>2, AbandonedIsSound DEF Abandon, RecordInv, TypeOK, OnlyTheDeadAreReaped, ReapersAreSound
<1>3. OwnerWrites \/ \E r \in Reapers : Abandon(r)
  BY DEF Next, OwnerSteps, Reaping, InstallSignalHandlers, StartAttempt, FinishAttempt, Finish, Interrupted, Ending,
     Operation, Exit, KillOwner, PidReused, Load, Probe, Report, KillReaper, diskVars
<1> QED BY <1>1, <1>2, <1>3

\* While the owner is there nobody marks its run ABANDONED and its outcome is recorded once; once it
\* is gone only the mark is written.
THEOREM OnlyGoneOwnersAreReaped == Spec => OnlyTheGoneAreMarked
<1>1. RecordInv /\ [Next]_vars =>
        [manifest # Absent /\ manifest' # manifest =>
           IF OwnerAlive
           THEN /\ manifest'.outcome # "ABANDONED"
                /\ manifest'.outcome # manifest.outcome => manifest.outcome = "RUNNING"
           ELSE manifest'.outcome = "ABANDONED"]_vars
  BY MarkStep
<1> QED BY <1>1, RecordIsSound, PTL DEF Spec, OnlyTheGoneAreMarked

=============================================================================
