---------------------------- MODULE InstallLock ----------------------------
(***************************************************************************)
(* The installation's run slot (admit of lib/sandbox/admission.js): an     *)
(* exclusive file, created and then written, and removed by whoever finds  *)
(* its owner gone.  Every file operation is a step of its own.  The auth   *)
(* lock of lib/sandbox/auth.js removes a file in the same two steps.       *)
(***************************************************************************)
EXTENDS Naturals, FiniteSets

CONSTANTS
  Proc,       \* processes that want to run
  Earlier,    \* those of them that had the slot before, and died with it
  NoFile,     \* an absent lock
  MaxCrashes  \* bound

VARIABLES
  lock,    \* admission.lock: whose, and whether its content is there
  pc,      \* where each process is in admit, or whether it runs
  attempt, \* its attempt: 0, then 1
  crashes

vars == <<lock, pc, attempt, crashes>>

Goto(p, l) == pc' = [pc EXCEPT ![p] = l]

Init ==
  /\ lock \in {NoFile} \cup [owner : Earlier, written : BOOLEAN]
  /\ pc = [p \in Proc |-> IF p \in Earlier THEN "dead" ELSE "open"]
  /\ attempt = [p \in Proc |-> 0]
  /\ crashes = 0

Mine(p) == lock # NoFile /\ lock.owner = p

\* openSync(lock, 'wx')
Open(p) ==
  /\ pc[p] = "open"
  /\ IF lock = NoFile
     THEN lock' = [owner |-> p, written |-> FALSE] /\ Goto(p, "write")
     ELSE UNCHANGED lock /\ Goto(p, "read")
  /\ UNCHANGED <<attempt, crashes>>

\* writeSync goes to the file that was opened, even when its name is gone.
Write(p) ==
  /\ pc[p] = "write"
  /\ lock' = IF Mine(p) THEN [lock EXCEPT !.written = TRUE] ELSE lock
  /\ Goto(p, "check")
  /\ UNCHANGED <<attempt, crashes>>

\* readJson: a file that is gone or has no content yet has no owner.
OwnerLives == lock # NoFile /\ lock.written /\ pc[lock.owner] # "dead"
Read(p) ==
  /\ pc[p] = "read"
  /\ Goto(p, IF OwnerLives THEN "refused" ELSE "remove")
  /\ UNCHANGED <<lock, attempt, crashes>>

\* rmSync removes whatever is there by now; a second time in vain is a refusal.
Remove(p) ==
  /\ pc[p] = "remove"
  /\ lock' = NoFile
  /\ attempt' = [attempt EXCEPT ![p] = 1]
  /\ Goto(p, IF attempt[p] = 1 THEN "refused" ELSE "open")
  /\ UNCHANGED crashes

\* The host's memory is enough, is not known, or is too little.
CheckMemory(p) ==
  /\ pc[p] = "check"
  /\ \E l \in {"running", "release"} : Goto(p, l)
  /\ UNCHANGED <<lock, attempt, crashes>>

Finish(p) == pc[p] = "running" /\ Goto(p, "release") /\ UNCHANGED <<lock, attempt, crashes>>

\* release: the file is read, and unlinked when it says this process.
ReleaseRead(p) ==
  /\ pc[p] = "release"
  /\ Goto(p, IF Mine(p) /\ lock.written THEN "unlink" ELSE "done")
  /\ UNCHANGED <<lock, attempt, crashes>>
ReleaseRemove(p) ==
  /\ pc[p] = "unlink"
  /\ lock' = NoFile
  /\ Goto(p, "done")
  /\ UNCHANGED <<attempt, crashes>>

Crash(p) ==
  /\ pc[p] \notin {"refused", "done", "dead"}
  /\ crashes < MaxCrashes
  /\ crashes' = crashes + 1
  /\ Goto(p, "dead")
  /\ UNCHANGED <<lock, attempt>>

Next ==
  \E p \in Proc :
    \/ Open(p) \/ Write(p) \/ Read(p) \/ Remove(p) \/ CheckMemory(p)
    \/ Finish(p) \/ ReleaseRead(p) \/ ReleaseRemove(p) \/ Crash(p)

Spec == Init /\ [][Next]_vars

-----------------------------------------------------------------------------

\* "One run per QB installation: an exclusive lock file" (lib/sandbox/admission.js:4): two
\* processes that are alive are never both admitted.  Two that find the same dead owner are: the
\* second removes the lock the first has just made.
OneRun == Cardinality({p \in Proc : pc[p] = "running"}) <= 1

=============================================================================
