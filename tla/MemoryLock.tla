----------------------------- MODULE MemoryLock -----------------------------
(***************************************************************************)
(* The cross-process lock of the memory store (memory/lock.js).            *)
(*                                                                         *)
(* Two files carry it: `.lock`, which names the process inside, and        *)
(* `.lock.takeover`, which names the process that is removing a dead       *)
(* owner's `.lock`.  Both are published with link(), so each is absent or  *)
(* complete.  Every file operation of a process is a step of its own:      *)
(* other processes run, die and come back between any two of them.         *)
(***************************************************************************)
EXTENDS Naturals, FiniteSets

CONSTANTS
  Proc,       \* process ids that use one memory directory
  Host,       \* machines
  HostOf,     \* the machine each process runs on
  Token,      \* the random 12-byte tokens a claim carries
  NoClaim,    \* an absent file, an empty variable
  MaxCrashes  \* bound: how many times processes die

ASSUME MemoryLockAssumption ==
  /\ HostOf \in [Proc -> Host]
  /\ MaxCrashes \in Nat
  /\ \A p \in Proc, t \in Token : NoClaim # [proc |-> p, token |-> t]

VARIABLES
  lock,       \* content of `.lock`
  takeover,   \* content of `.lock.takeover`
  pc,         \* where each process is in withLock
  me,         \* withLock's `me`: the claim it publishes at `.lock`
  mine,       \* takeOver's `mine`: the claim it publishes at `.lock.takeover`
  seen,       \* withLock's `owner`: the last claim it read from `.lock`
  crashes     \* how many processes have died

vars == <<lock, takeover, pc, me, mine, seen, crashes>>

Claim == [proc : Proc, token : Token]

Place == {"idle", "claim", "confirm", "look", "probe", "again",
          "takeClaim", "takeCheck", "takeUnlink", "takeRead", "takeRelease",
          "critical", "release", "unlock", "dead"}

Claims == ({lock, takeover} \cup {me[p] : p \in Proc} \cup {mine[p] : p \in Proc}
            \cup {seen[p] : p \in Proc}) \ {NoClaim}

\* crypto.randomBytes(12): a token nothing else carries.
FreshToken == Token \ {c.token : c \in Claims}

\* The content of a claim; its host and time follow from its process.
NewClaim(p, t) == [proc |-> p, token |-> t]

\* publish() succeeds: link() fails where there is a file, rename() would replace it.
PublishedByRename(file) == TRUE
Published(file) == file = NoClaim

\* pidAlive and the host comparison: only a process of this host can be seen to be gone.
DeadByAge(p, c) == HostOf[c.proc] = HostOf[p]
DeadOnOtherHost(p, c) == HostOf[c.proc] # HostOf[p] /\ pc[c.proc] = "dead"
ProvablyDead(p, c) == HostOf[c.proc] = HostOf[p] /\ pc[c.proc] = "dead"

\* Claims are told apart by their tokens.
AnyToken(c, d) == c # NoClaim /\ d # NoClaim
SameToken(c, d) == c # NoClaim /\ d # NoClaim /\ c.token = d.token

Goto(p, l) == pc' = [pc EXCEPT ![p] = l]

Init ==
  /\ lock = NoClaim
  /\ takeover = NoClaim
  /\ pc = [p \in Proc |-> "idle"]
  /\ me = [p \in Proc |-> NoClaim]
  /\ mine = [p \in Proc |-> NoClaim]
  /\ seen = [p \in Proc |-> NoClaim]
  /\ crashes = 0

-----------------------------------------------------------------------------
(* Getting the lock *)

Start(p) ==
  /\ pc[p] = "idle"
  /\ \E t \in FreshToken : me' = [me EXCEPT ![p] = NewClaim(p, t)]
  /\ Goto(p, "claim")
  /\ UNCHANGED <<lock, takeover, mine, seen, crashes>>

\* publish(lf, me): link() succeeds only where there is no file.
PublishLock(p) ==
  /\ pc[p] = "claim"
  /\ IF Published(lock)
     THEN lock' = me[p] /\ Goto(p, "confirm")
     ELSE UNCHANGED lock /\ Goto(p, "look")
  /\ UNCHANGED <<takeover, me, mine, seen, crashes>>

\* The claim is re-read before entering.
Confirm(p) ==
  /\ pc[p] = "confirm"
  /\ Goto(p, IF SameToken(lock, me[p]) THEN "critical" ELSE "look")
  /\ UNCHANGED <<lock, takeover, me, mine, seen, crashes>>

LookUnchecked(p) ==
  /\ pc[p] = "look"
  /\ seen' = [seen EXCEPT ![p] = lock]
  /\ Goto(p, IF lock = NoClaim THEN "claim" ELSE "probe")
  /\ UNCHANGED <<lock, takeover, me, mine, crashes>>

\* readOwner(lf); an absent file is progress, and ends at the deadline check like the rest.
Look(p) ==
  /\ pc[p] = "look"
  /\ seen' = [seen EXCEPT ![p] = lock]
  /\ Goto(p, IF lock = NoClaim THEN "again" ELSE "probe")
  /\ UNCHANGED <<lock, takeover, me, mine, crashes>>

Probe(p) ==
  /\ pc[p] = "probe"
  /\ IF ProvablyDead(p, seen[p])
     THEN UNCHANGED seen /\ Goto(p, "takeClaim")
     ELSE seen' = [seen EXCEPT ![p] = NoClaim] /\ Goto(p, "again")
  /\ UNCHANGED <<lock, takeover, me, mine, crashes>>

\* The deadline check that ends every iteration: retry, or MEMORY_LOCK_TIMEOUT.
Retry(p) ==
  /\ pc[p] = "again"
  /\ Goto(p, "claim")
  /\ UNCHANGED <<lock, takeover, me, mine, seen, crashes>>

GiveUp(p) ==
  /\ pc[p] = "again"
  /\ Goto(p, "idle")
  /\ me' = [me EXCEPT ![p] = NoClaim]
  /\ UNCHANGED <<lock, takeover, mine, seen, crashes>>

-----------------------------------------------------------------------------
(* Taking over a dead owner's lock *)

PublishTakeover(p) ==
  /\ pc[p] = "takeClaim"
  /\ IF Published(takeover)
     THEN /\ \E t \in FreshToken :
               /\ mine' = [mine EXCEPT ![p] = NewClaim(p, t)]
               /\ takeover' = NewClaim(p, t)
          /\ UNCHANGED seen
          /\ Goto(p, "takeCheck")
     ELSE /\ seen' = [seen EXCEPT ![p] = NoClaim]
          /\ UNCHANGED <<takeover, mine>>
          /\ Goto(p, "again")
  /\ UNCHANGED <<lock, me, crashes>>

\* "still the dead owner's token?"
TakeoverCheck(p) ==
  /\ pc[p] = "takeCheck"
  /\ Goto(p, IF SameToken(lock, seen[p]) THEN "takeUnlink" ELSE "takeRead")
  /\ UNCHANGED <<lock, takeover, me, mine, seen, crashes>>

\* unlinkSync(lf) removes whatever is there.
TakeoverUnlink(p) ==
  /\ pc[p] = "takeUnlink"
  /\ lock' = NoClaim
  /\ Goto(p, "takeRead")
  /\ UNCHANGED <<takeover, me, mine, seen, crashes>>

TakeoverRead(p) ==
  /\ pc[p] = "takeRead"
  /\ seen' = [seen EXCEPT ![p] = NoClaim]
  /\ IF SameToken(takeover, mine[p])
     THEN UNCHANGED mine /\ Goto(p, "takeRelease")
     ELSE mine' = [mine EXCEPT ![p] = NoClaim] /\ Goto(p, "again")
  /\ UNCHANGED <<lock, takeover, me, crashes>>

TakeoverRelease(p) ==
  /\ pc[p] = "takeRelease"
  /\ takeover' = NoClaim
  /\ mine' = [mine EXCEPT ![p] = NoClaim]
  /\ Goto(p, "again")
  /\ UNCHANGED <<lock, me, seen, crashes>>

-----------------------------------------------------------------------------
(* Leaving *)

\* fn() returns or throws; either way the claim is read back before it is removed.
Leave(p) ==
  /\ pc[p] = "critical"
  /\ Goto(p, "release")
  /\ UNCHANGED <<lock, takeover, me, mine, seen, crashes>>

ReleaseRead(p) ==
  /\ pc[p] = "release"
  /\ IF SameToken(lock, me[p])
     THEN UNCHANGED me /\ Goto(p, "unlock")
     ELSE me' = [me EXCEPT ![p] = NoClaim] /\ Goto(p, "idle")
  /\ UNCHANGED <<lock, takeover, mine, seen, crashes>>

Unlock(p) ==
  /\ pc[p] = "unlock"
  /\ lock' = NoClaim
  /\ me' = [me EXCEPT ![p] = NoClaim]
  /\ Goto(p, "idle")
  /\ UNCHANGED <<takeover, mine, seen, crashes>>

-----------------------------------------------------------------------------
(* The environment *)

\* A process can be killed between any two file operations; its memory goes, its files stay.
Crash(p) ==
  /\ pc[p] # "dead"
  /\ crashes < MaxCrashes
  /\ crashes' = crashes + 1
  /\ Goto(p, "dead")
  /\ me' = [me EXCEPT ![p] = NoClaim]
  /\ mine' = [mine EXCEPT ![p] = NoClaim]
  /\ seen' = [seen EXCEPT ![p] = NoClaim]
  /\ UNCHANGED <<lock, takeover>>

\* A new process gets the process id of a dead one.
Restart(p) ==
  /\ pc[p] = "dead"
  /\ Goto(p, "idle")
  /\ UNCHANGED <<lock, takeover, me, mine, seen, crashes>>

\* What the timeout message tells the user: when no Quarterback process is running,
\* remove the file it names.
RemoveByHand ==
  /\ \A p \in Proc : pc[p] \in {"idle", "dead"}
  /\ \/ lock # NoClaim /\ lock' = NoClaim /\ UNCHANGED takeover
     \/ takeover # NoClaim /\ takeover' = NoClaim /\ UNCHANGED lock
  /\ UNCHANGED <<pc, me, mine, seen, crashes>>

Acquiring(p) == Start(p) \/ PublishLock(p) \/ Confirm(p) \/ Look(p) \/ Probe(p) \/ Retry(p) \/ GiveUp(p)

TakingOver(p) ==
  \/ PublishTakeover(p) \/ TakeoverCheck(p) \/ TakeoverUnlink(p)
  \/ TakeoverRead(p) \/ TakeoverRelease(p)

Leaving(p) == Leave(p) \/ ReleaseRead(p) \/ Unlock(p)

Next ==
  \/ \E p \in Proc : Acquiring(p) \/ TakingOver(p) \/ Leaving(p) \/ Crash(p) \/ Restart(p)
  \/ RemoveByHand

Spec == Init /\ [][Next]_vars

-----------------------------------------------------------------------------
(* Properties *)

TypeOK ==
  /\ lock \in Claim \cup {NoClaim}
  /\ takeover \in Claim \cup {NoClaim}
  /\ pc \in [Proc -> Place]
  /\ me \in [Proc -> Claim \cup {NoClaim}]
  /\ mine \in [Proc -> Claim \cup {NoClaim}]
  /\ seen \in [Proc -> Claim \cup {NoClaim}]
  /\ crashes \in Nat

\* From link() until the unlink that gives the lock back.
Holding(p) == pc[p] \in {"confirm", "critical", "release", "unlock"}

\* From the takeover claim's link() until its unlink.
Taking(p) == pc[p] \in {"takeCheck", "takeUnlink", "takeRead", "takeRelease"}

Waiting(p) ==
  pc[p] \in {"claim", "look", "probe", "again", "takeClaim"} \/ Taking(p)

\* Two processes never run their fn() on one memory directory at the same time, whatever dies,
\* comes back or is taken over in between (memory/lock.js withLock).
MutualExclusion ==
  \A p, q \in Proc : pc[p] = "critical" /\ pc[q] = "critical" => p = q

\* No takeover, however late, removes or replaces the claim of a process that is still there, which
\* leaves `.lock` only by that process's own unlink (takeOver's token check); and what a takeover
\* removes belongs to its own machine, for nobody can tell whether a process of another one is dead.
TakeoverIsSafe ==
  [][\A p \in Proc :
       /\ lock # NoClaim /\ lock = me[p] /\ pc'[p] # "dead" => lock' = lock \/ pc[p] = "unlock"
       /\ pc[p] = "takeUnlink" /\ pc'[p] = "takeRead"
            => lock # NoClaim /\ HostOf[lock.proc] = HostOf[p] /\ me[lock.proc] # lock]_vars

\* A lock left by a dead process does not block its machine for good: while processes there
\* keep waiting, the lock changes hands, unless the dead process id is in use again or a
\* taker died in turn (its takeover claim is never cleared automatically, lock.js:22-24).
Abandoned(p) == lock # NoClaim /\ lock.proc = p /\ pc[p] = "dead"
DeadLockIsReclaimed ==
  \A p \in Proc :
    Abandoned(p) ~> \/ ~Abandoned(p)
                    \/ takeover # NoClaim /\ ~Taking(takeover.proc)
                    \/ ~\E q \in Proc : HostOf[q] = HostOf[p] /\ Waiting(q)

\* withLock always comes to an end: the process gets in, times out or dies ("every wait
\* iteration ends at the deadline check", lock.js:27-28), provided that time passes: a process
\* that reaches its deadline check over and over finds the deadline behind it at last.
TimePasses == \A p \in Proc : SF_vars(GiveUp(p))
WaiterReturns ==
  TimePasses => \A p \in Proc : Waiting(p) ~> pc[p] \in {"critical", "idle", "dead"}

-----------------------------------------------------------------------------
(* Why they hold *)

\* Tokens identify claims.
OneTokenOneClaim == \A c, d \in Claims : c.token = d.token => c = d

\* Whoever holds the lock finds its own claim in `.lock`, whoever is taking over finds its
\* own in `.lock.takeover`; so there is one of each.
FilesNameTheirHolders ==
  \A p \in Proc :
    /\ me[p] = NoClaim <=> pc[p] \in {"idle", "dead"}
    /\ me[p] # NoClaim => me[p].proc = p
    /\ mine[p] # NoClaim => mine[p].proc = p
    /\ Holding(p) => lock = me[p]
    /\ Taking(p) => takeover = mine[p] /\ mine[p] # NoClaim

\* What a taker is about to remove was published by a process that is gone, and whose claim
\* nobody can publish again.
TakenFromTheDead ==
  \A p \in Proc :
    /\ pc[p] = "probe" => seen[p] # NoClaim
    /\ pc[p] \in {"takeClaim", "takeCheck", "takeUnlink"}
      => /\ seen[p] # NoClaim
         /\ HostOf[seen[p].proc] = HostOf[p]
         /\ \A q \in Proc : me[q] # seen[p]
         /\ pc[p] = "takeUnlink" => lock = seen[p]

IInv == TypeOK /\ OneTokenOneClaim /\ FilesNameTheirHolders /\ TakenFromTheDead

-----------------------------------------------------------------------------
(* Fairness and refinement *)

\* A process that is alive keeps running.  Nothing makes a process start, give up, die or
\* come back, or a user remove a file.
ProcessRuns(p) ==
  \/ PublishLock(p) \/ Confirm(p) \/ Look(p) \/ Probe(p) \/ Retry(p)
  \/ TakingOver(p) \/ Leaving(p)

FairSpec == Spec /\ \A p \in Proc : WF_vars(ProcessRuns(p))

\* The lock is held by the processes between link() and unlink(), and orphaned when `.lock`
\* exists and none of them is its owner.
M == INSTANCE Mutex WITH
       inside <- {p \in Proc : Holding(p)},
       orphaned <- lock # NoClaim /\ \A p \in Proc : ~Holding(p)

\* withLock implements the abstract mutex (memory/lock.js header).
ImplementsMutex == M!MSpec

=============================================================================
