-------------------------- MODULE MemoryLockProofs --------------------------
(***************************************************************************)
(* Proofs about MemoryLock, for any set of processes, machines and tokens  *)
(* and any number of crashes.                                              *)
(***************************************************************************)
EXTENDS MemoryLock, TLAPS

\* memory/lock.js keeps its two files and each process's variables well formed.
THEOREM TypeCorrect == Spec => []TypeOK
<1>1. Init => TypeOK
  BY MemoryLockAssumption DEF Init, TypeOK, Place
<1>2. TypeOK /\ [Next]_vars => TypeOK'
  <2> SUFFICES ASSUME TypeOK, [Next]_vars PROVE TypeOK'
    OBVIOUS
  <2> USE DEF TypeOK
  <2>1. ASSUME NEW p \in Proc, Acquiring(p) PROVE TypeOK'
    <3>1. CASE Start(p)
      BY <3>1 DEF Start, FreshToken, NewClaim, Claim, Goto, Place
    <3>2. CASE PublishLock(p)
      BY <3>2 DEF PublishLock, Goto, Place
    <3>3. CASE Confirm(p) \/ Look(p) \/ Probe(p) \/ Retry(p) \/ GiveUp(p)
      BY <3>3 DEF Confirm, Look, Probe, Retry, GiveUp, Goto, Place
    <3> QED BY <2>1, <3>1, <3>2, <3>3 DEF Acquiring
  <2>2. ASSUME NEW p \in Proc, TakingOver(p) PROVE TypeOK'
    <3>1. CASE PublishTakeover(p)
      BY <3>1 DEF PublishTakeover, FreshToken, NewClaim, Claim, Goto, Place
    <3>2. CASE TakeoverCheck(p) \/ TakeoverUnlink(p) \/ TakeoverRead(p) \/ TakeoverRelease(p)
      BY <3>2 DEF TakeoverCheck, TakeoverUnlink, TakeoverRead, TakeoverRelease, Goto, Place
    <3> QED BY <2>2, <3>1, <3>2 DEF TakingOver
  <2>3. ASSUME NEW p \in Proc, Leaving(p) PROVE TypeOK'
    BY <2>3 DEF Leaving, Leave, ReleaseRead, Unlock, Goto, Place
  <2>4. ASSUME NEW p \in Proc, Crash(p) \/ Restart(p) PROVE TypeOK'
    BY <2>4 DEF Crash, Restart, Goto, Place
  <2>5. CASE RemoveByHand
    BY <2>5 DEF RemoveByHand
  <2>6. CASE UNCHANGED vars
    BY <2>6 DEF vars
  <2> QED BY <2>1, <2>2, <2>3, <2>4, <2>5, <2>6 DEF Next
<1> QED BY <1>1, <1>2, PTL DEF Spec

-----------------------------------------------------------------------------
(* Tokens *)

\* What it takes for a token to stay unique: no step makes up a claim but with a fresh token.
LEMMA UniqueWhenNothingNew ==
  ASSUME OneTokenOneClaim, Claims' \subseteq Claims
  PROVE  OneTokenOneClaim'
BY DEF OneTokenOneClaim

LEMMA UniqueWhenFresh ==
  ASSUME OneTokenOneClaim, NEW p \in Proc, NEW t \in FreshToken,
         Claims' \subseteq Claims \cup {NewClaim(p, t)}
  PROVE  OneTokenOneClaim'
<1>1. \A c \in Claims : c.token # t
  BY DEF FreshToken
<1>2. NewClaim(p, t).token = t
  BY DEF NewClaim
<1>3. \A c, d \in Claims : c.token = d.token => c = d
  BY DEF OneTokenOneClaim
<1> HIDE DEF NewClaim, Claims
<1> QED BY <1>1, <1>2, <1>3 DEF OneTokenOneClaim

LEMMA SameTokenSameClaim ==
  ASSUME OneTokenOneClaim, NEW c \in Claims \cup {NoClaim}, NEW d \in Claims \cup {NoClaim},
         SameToken(c, d)
  PROVE  c = d /\ c # NoClaim
BY DEF OneTokenOneClaim, SameToken

\* A fresh claim is not the one any process has published or remembers.
LEMMA FreshIsNew ==
  ASSUME NEW p \in Proc, NEW t \in FreshToken
  PROVE  NewClaim(p, t) \notin Claims
BY DEF FreshToken, NewClaim

LEMMA NewClaimIsClaim ==
  ASSUME NEW p \in Proc, NEW t \in FreshToken
  PROVE  /\ NewClaim(p, t) \in Claim
         /\ NewClaim(p, t).proc = p
         /\ NewClaim(p, t) # NoClaim
BY MemoryLockAssumption DEF FreshToken, NewClaim, Claim

\* Whoever's variables a claim sits in, it is one of Claims.
LEMMA WhereClaimsAre ==
  /\ lock \in Claims \cup {NoClaim}
  /\ takeover \in Claims \cup {NoClaim}
  /\ \A p \in Proc : /\ me[p] \in Claims \cup {NoClaim}
                     /\ mine[p] \in Claims \cup {NoClaim}
                     /\ seen[p] \in Claims \cup {NoClaim}
BY DEF Claims

-----------------------------------------------------------------------------
(* The inductive invariant *)

LEMMA InitIInv == Init => IInv
<1> SUFFICES ASSUME Init PROVE IInv
  OBVIOUS
<1>1. TypeOK
  BY MemoryLockAssumption DEF Init, TypeOK, Place
<1>2. Claims = {}
  BY DEF Init, Claims
<1>3. OneTokenOneClaim
  BY <1>2 DEF OneTokenOneClaim
<1>4. FilesNameTheirHolders /\ TakenFromTheDead
  BY DEF Init, FilesNameTheirHolders, TakenFromTheDead, Holding, Taking
<1> QED BY <1>1, <1>3, <1>4 DEF IInv

LEMMA AcquiringPreserves ==
  ASSUME IInv, TypeOK', NEW p \in Proc, Acquiring(p)
  PROVE  IInv'
<1> USE DEF IInv, TypeOK, FilesNameTheirHolders, TakenFromTheDead, Holding, Taking
<1>1. CASE Start(p)
  <2>1. PICK t \in FreshToken : me' = [me EXCEPT ![p] = NewClaim(p, t)]
    BY <1>1 DEF Start
  <2>2. /\ pc' = [pc EXCEPT ![p] = "claim"]
        /\ UNCHANGED <<lock, takeover, mine, seen, crashes>>
    BY <1>1 DEF Start, Goto
  <2>3. Claims' \subseteq Claims \cup {NewClaim(p, t)}
    BY <2>1, <2>2 DEF Claims
  <2>4. OneTokenOneClaim'
    BY <2>3, UniqueWhenFresh
  <2>5. FilesNameTheirHolders'
    BY <1>1, <2>1, <2>2, NewClaimIsClaim DEF Start
  <2>6. TakenFromTheDead'
    BY <1>1, <2>1, <2>2, FreshIsNew, WhereClaimsAre DEF Start
  <2> QED BY <2>4, <2>5, <2>6
<1>2. CASE PublishLock(p)
  <2>1. Claims' \subseteq Claims
    BY <1>2 DEF PublishLock, Claims
  <2>2. me[p] # NoClaim
    BY <1>2 DEF PublishLock
  <2>3. FilesNameTheirHolders' /\ TakenFromTheDead'
    BY <1>2, <2>2 DEF PublishLock, Published, Goto
  <2> QED BY <2>1, <2>3, UniqueWhenNothingNew
<1>3. CASE Confirm(p)
  <2>1. Claims' \subseteq Claims
    BY <1>3 DEF Confirm, Claims
  <2>2. FilesNameTheirHolders' /\ TakenFromTheDead'
    BY <1>3 DEF Confirm, Goto
  <2> QED BY <2>1, <2>2, UniqueWhenNothingNew
<1>4. CASE Look(p)
  <2>1. Claims' \subseteq Claims
    BY <1>4 DEF Look, Claims
  <2>2. FilesNameTheirHolders' /\ TakenFromTheDead'
    BY <1>4 DEF Look, Goto
  <2> QED BY <2>1, <2>2, UniqueWhenNothingNew
<1>5. CASE Probe(p)
  <2>1. Claims' \subseteq Claims
    BY <1>5 DEF Probe, Claims
  <2>2. FilesNameTheirHolders' /\ TakenFromTheDead'
    BY <1>5 DEF Probe, Goto, ProvablyDead
  <2> QED BY <2>1, <2>2, UniqueWhenNothingNew
<1>6. CASE Retry(p) \/ GiveUp(p)
  <2>1. Claims' \subseteq Claims
    BY <1>6 DEF Retry, GiveUp, Claims
  <2>2. FilesNameTheirHolders' /\ TakenFromTheDead'
    BY <1>6 DEF Retry, GiveUp, Goto
  <2> QED BY <2>1, <2>2, UniqueWhenNothingNew
<1> QED BY <1>1, <1>2, <1>3, <1>4, <1>5, <1>6 DEF Acquiring

LEMMA TakingOverPreserves ==
  ASSUME IInv, TypeOK', NEW p \in Proc, TakingOver(p)
  PROVE  IInv'
<1> USE DEF IInv, TypeOK, FilesNameTheirHolders, TakenFromTheDead, Holding, Taking
<1>1. CASE PublishTakeover(p)
  <2>1. CASE Published(takeover)
    <3>1. PICK t \in FreshToken : /\ mine' = [mine EXCEPT ![p] = NewClaim(p, t)]
                                  /\ takeover' = NewClaim(p, t)
      BY <1>1, <2>1 DEF PublishTakeover
    <3>2. /\ pc' = [pc EXCEPT ![p] = "takeCheck"]
          /\ UNCHANGED <<lock, me, seen, crashes>>
      BY <1>1, <2>1 DEF PublishTakeover, Goto
    <3>3. Claims' \subseteq Claims \cup {NewClaim(p, t)}
      BY <3>1, <3>2 DEF Claims
    <3>4. OneTokenOneClaim'
      BY <3>3, UniqueWhenFresh
    <3>5. FilesNameTheirHolders'
      BY <1>1, <2>1, <3>1, <3>2, NewClaimIsClaim DEF PublishTakeover, Published
    <3>6. TakenFromTheDead'
      BY <1>1, <3>2 DEF PublishTakeover
    <3> QED BY <3>4, <3>5, <3>6
  <2>2. CASE ~Published(takeover)
    <3>1. Claims' \subseteq Claims
      BY <1>1, <2>2 DEF PublishTakeover, Claims
    <3>2. FilesNameTheirHolders' /\ TakenFromTheDead'
      BY <1>1, <2>2 DEF PublishTakeover, Goto
    <3> QED BY <3>1, <3>2, UniqueWhenNothingNew
  <2> QED BY <2>1, <2>2
<1>2. CASE TakeoverCheck(p)
  <2>1. Claims' \subseteq Claims
    BY <1>2 DEF TakeoverCheck, Claims
  <2>2. SameToken(lock, seen[p]) => lock = seen[p]
    BY WhereClaimsAre, SameTokenSameClaim
  <2>3. FilesNameTheirHolders' /\ TakenFromTheDead'
    BY <1>2, <2>2 DEF TakeoverCheck, Goto
  <2> QED BY <2>1, <2>3, UniqueWhenNothingNew
<1>3. CASE TakeoverUnlink(p)
  <2>1. Claims' \subseteq Claims
    BY <1>3 DEF TakeoverUnlink, Claims
  <2>2. lock = seen[p] /\ \A q \in Proc : me[q] # lock
    BY <1>3 DEF TakeoverUnlink
  <2>3. \A q \in Proc : ~Holding(q)
    BY <2>2
  <2>4. \A q \in Proc : Taking(q) => q = p
    BY <1>3 DEF TakeoverUnlink
  <2>5. FilesNameTheirHolders' /\ TakenFromTheDead'
    BY <1>3, <2>3, <2>4 DEF TakeoverUnlink, Goto
  <2> QED BY <2>1, <2>5, UniqueWhenNothingNew
<1>4. CASE TakeoverRead(p) \/ TakeoverRelease(p)
  <2>1. Claims' \subseteq Claims
    BY <1>4 DEF TakeoverRead, TakeoverRelease, Claims
  <2>2. \A q \in Proc : Taking(q) => q = p
    BY <1>4 DEF TakeoverRead, TakeoverRelease
  <2>3. FilesNameTheirHolders' /\ TakenFromTheDead'
    BY <1>4, <2>2 DEF TakeoverRead, TakeoverRelease, Goto
  <2> QED BY <2>1, <2>3, UniqueWhenNothingNew
<1> QED BY <1>1, <1>2, <1>3, <1>4 DEF TakingOver

LEMMA LeavingPreserves ==
  ASSUME IInv, TypeOK', NEW p \in Proc, Leaving(p)
  PROVE  IInv'
<1> USE DEF IInv, TypeOK, FilesNameTheirHolders, TakenFromTheDead, Holding, Taking
<1>1. Claims' \subseteq Claims
  BY DEF Leaving, Leave, ReleaseRead, Unlock, Claims
<1>2. CASE Leave(p) \/ ReleaseRead(p)
  BY <1>1, <1>2, UniqueWhenNothingNew DEF Leave, ReleaseRead, Goto
<1>3. CASE Unlock(p)
  \* No taker is about to remove a lock whose owner is here.
  <2>1. \A q \in Proc : Holding(q) => q = p
    BY <1>3 DEF Unlock
  <2>2. \A q \in Proc : pc[q] # "takeUnlink"
    BY <1>3 DEF Unlock
  <2> QED BY <1>1, <1>3, <2>1, <2>2, UniqueWhenNothingNew DEF Unlock, Goto
<1> QED BY <1>2, <1>3 DEF Leaving

LEMMA EnvironmentPreserves ==
  ASSUME IInv, TypeOK', RemoveByHand \/ \E p \in Proc : Crash(p) \/ Restart(p)
  PROVE  IInv'
<1> USE DEF IInv, TypeOK, FilesNameTheirHolders, TakenFromTheDead, Holding, Taking
<1>1. CASE RemoveByHand
  <2>1. Claims' \subseteq Claims
    BY <1>1 DEF RemoveByHand, Claims
  <2> QED BY <1>1, <2>1, UniqueWhenNothingNew DEF RemoveByHand
<1>2. ASSUME NEW p \in Proc, Crash(p) \/ Restart(p) PROVE IInv'
  <2>1. Claims' \subseteq Claims
    BY <1>2 DEF Crash, Restart, Claims
  <2>2. FilesNameTheirHolders' /\ TakenFromTheDead'
    BY <1>2 DEF Crash, Restart, Goto
  <2> QED BY <2>1, <2>2, UniqueWhenNothingNew
<1> QED BY <1>1, <1>2

LEMMA NextPreserves ==
  ASSUME IInv, TypeOK', [Next]_vars
  PROVE  IInv'
<1>1. CASE UNCHANGED vars
  BY <1>1 DEF vars, IInv, TypeOK, OneTokenOneClaim, Claims, FilesNameTheirHolders,
              TakenFromTheDead, Holding, Taking
<1> QED BY <1>1, AcquiringPreserves, TakingOverPreserves, LeavingPreserves, EnvironmentPreserves
        DEF Next

\* The reasons the lock is safe hold in every reachable state of memory/lock.js.
THEOREM Invariance == Spec => []IInv
<1>1. TypeOK' /\ IInv /\ [Next]_vars => IInv'
  BY NextPreserves
<1> QED BY InitIInv, <1>1, TypeCorrect, PTL DEF Spec

\* Two processes are never inside withLock's fn() of one memory directory together.
THEOREM MutexHolds == Spec => []MutualExclusion
<1>1. IInv => MutualExclusion
  BY DEF IInv, FilesNameTheirHolders, MutualExclusion, Holding, TypeOK
<1> QED BY <1>1, Invariance, PTL

-----------------------------------------------------------------------------
(* What a step may never do, and refinement *)

\* No takeover removes the claim of a process that is still there (takeOver's token check), or of
\* another machine.
THEOREM SafeTakeover == Spec => TakeoverIsSafe
<1>1. ASSUME IInv, [Next]_vars, NEW p \in Proc,
             lock # NoClaim, lock = me[p], pc'[p] # "dead", lock' # lock
      PROVE  pc[p] = "unlock"
  <2> USE DEF IInv, TypeOK, FilesNameTheirHolders, TakenFromTheDead, Holding, Taking
  <2>1. ASSUME NEW q \in Proc, Acquiring(q) PROVE pc[p] = "unlock"
    BY <1>1, <2>1 DEF Acquiring, Start, PublishLock, Published, Confirm, Look, Probe, Retry, GiveUp
  <2>2. ASSUME NEW q \in Proc, TakingOver(q) PROVE pc[p] = "unlock"
    BY <1>1, <2>2 DEF TakingOver, PublishTakeover, TakeoverCheck, TakeoverUnlink,
                      TakeoverRead, TakeoverRelease
  <2>3. ASSUME NEW q \in Proc, Leaving(q) PROVE pc[p] = "unlock"
    BY <1>1, <2>3 DEF Leaving, Leave, ReleaseRead, Unlock
  <2>4. ASSUME NEW q \in Proc, Crash(q) \/ Restart(q) PROVE pc[p] = "unlock"
    BY <1>1, <2>4 DEF Crash, Restart
  <2>5. CASE RemoveByHand
    BY <1>1, <2>5 DEF RemoveByHand
  <2>6. CASE UNCHANGED vars
    BY <1>1, <2>6 DEF vars
  <2> QED BY <1>1, <2>1, <2>2, <2>3, <2>4, <2>5, <2>6 DEF Next
<1>2. IInv => \A p \in Proc : pc[p] = "takeUnlink"
                => lock # NoClaim /\ HostOf[lock.proc] = HostOf[p] /\ me[lock.proc] # lock
  BY DEF IInv, TakenFromTheDead, TypeOK, Claim
<1>3. IInv /\ [Next]_vars
        => [\A p \in Proc :
              /\ lock # NoClaim /\ lock = me[p] /\ pc'[p] # "dead" => lock' = lock \/ pc[p] = "unlock"
              /\ pc[p] = "takeUnlink" /\ pc'[p] = "takeRead"
                   => lock # NoClaim /\ HostOf[lock.proc] = HostOf[p] /\ me[lock.proc] # lock]_vars
  BY <1>1, <1>2
<1> QED BY <1>3, Invariance, PTL DEF Spec, TakeoverIsSafe

\* The processes that have the lock, in the abstract.
Inside == {p \in Proc : Holding(p)}
Orphaned == lock # NoClaim /\ \A p \in Proc : ~Holding(p)

LEMMA AcquiringRefines ==
  ASSUME IInv, NEW p \in Proc, Acquiring(p)
  PROVE  M!MNext \/ UNCHANGED <<Inside, Orphaned>>
<1> USE DEF IInv, TypeOK, FilesNameTheirHolders, Holding
<1>1. CASE PublishLock(p) /\ lock = NoClaim
  <2>1. Inside = {} /\ ~Orphaned
    BY <1>1 DEF Inside, Orphaned
  <2>2. pc' = [pc EXCEPT ![p] = "confirm"] /\ lock' = me[p] /\ me[p] # NoClaim
    BY <1>1 DEF PublishLock, Published, Goto
  <2>3. Inside' = {p} /\ ~Orphaned'
    BY <2>1, <2>2 DEF Inside, Orphaned
  <2>4. M!Acquire(p)
    BY <2>1, <2>3 DEF M!Acquire, Inside, Orphaned
  <2> QED BY <2>4 DEF M!MNext
<1>2. CASE Confirm(p)
  <2>1. SameToken(lock, me[p])
    BY <1>2 DEF Confirm, SameToken
  <2> QED BY <1>2, <2>1 DEF Confirm, Goto, Inside, Orphaned
<1>3. CASE ~(PublishLock(p) /\ lock = NoClaim) /\ ~Confirm(p)
  <2>1. lock' = lock /\ \E l \in {"claim", "look", "probe", "again", "takeClaim", "idle"} :
          pc' = [pc EXCEPT ![p] = l] /\ ~Holding(p)
    BY <1>3 DEF Acquiring, Start, PublishLock, Published, Look, Probe, Retry, GiveUp, Goto
  <2> QED BY <2>1 DEF Inside, Orphaned
<1> QED BY <1>1, <1>2, <1>3

LEMMA TakingOverRefines ==
  ASSUME IInv, NEW p \in Proc, TakingOver(p)
  PROVE  M!MNext \/ UNCHANGED <<Inside, Orphaned>>
<1> USE DEF IInv, TypeOK, FilesNameTheirHolders, TakenFromTheDead, Holding
<1>1. Inside' = Inside
  BY DEF TakingOver, PublishTakeover, TakeoverCheck, TakeoverUnlink, TakeoverRead,
         TakeoverRelease, Goto, Inside
<1>2. CASE TakeoverUnlink(p)
  <2>1. Orphaned /\ ~Orphaned'
    BY <1>2 DEF TakeoverUnlink, Orphaned
  <2>2. M!Reclaim
    BY <1>1, <2>1 DEF M!Reclaim, Inside, Orphaned
  <2> QED BY <2>2 DEF M!MNext
<1>3. CASE ~TakeoverUnlink(p)
  <2>1. lock' = lock
    BY <1>3 DEF TakingOver, PublishTakeover, TakeoverCheck, TakeoverRead, TakeoverRelease
  <2>2. \A q \in Proc : Holding(q)' <=> Holding(q)
    BY <1>3 DEF TakingOver, PublishTakeover, TakeoverCheck, TakeoverRead, TakeoverRelease, Goto
  <2> QED BY <1>1, <2>1, <2>2 DEF Orphaned
<1> QED BY <1>2, <1>3

LEMMA LeavingRefines ==
  ASSUME IInv, NEW p \in Proc, Leaving(p)
  PROVE  M!MNext \/ UNCHANGED <<Inside, Orphaned>>
<1> USE DEF IInv, TypeOK, FilesNameTheirHolders, Holding
<1>1. CASE Leave(p)
  BY <1>1 DEF Leave, Goto, Inside, Orphaned
<1>2. CASE ReleaseRead(p)
  <2>1. SameToken(lock, me[p])
    BY <1>2 DEF ReleaseRead, SameToken
  <2> QED BY <1>2, <2>1 DEF ReleaseRead, Goto, Inside, Orphaned
<1>3. CASE Unlock(p)
  <2>1. p \in Inside /\ Inside' = Inside \ {p} /\ ~Orphaned /\ ~Orphaned'
    BY <1>3 DEF Unlock, Goto, Inside, Orphaned
  <2>2. M!Release(p)
    BY <2>1 DEF M!Release, Inside, Orphaned
  <2> QED BY <2>2 DEF M!MNext
<1> QED BY <1>1, <1>2, <1>3 DEF Leaving

LEMMA EnvironmentRefines ==
  ASSUME IInv, RemoveByHand \/ \E p \in Proc : Crash(p) \/ Restart(p)
  PROVE  M!MNext \/ UNCHANGED <<Inside, Orphaned>>
<1> USE DEF IInv, TypeOK, FilesNameTheirHolders, Holding
<1>1. ASSUME NEW p \in Proc, Crash(p), Holding(p) PROVE M!MNext
  <2>1. pc' = [pc EXCEPT ![p] = "dead"] /\ lock' = lock
    BY <1>1 DEF Crash, Goto
  <2>2. \A q \in Proc : Holding(q) => q = p
    BY <1>1
  <2>3. p \in Inside /\ Inside' = Inside \ {p} /\ Orphaned'
    BY <1>1, <2>1, <2>2 DEF Inside, Orphaned
  <2>4. M!Die(p)
    BY <2>3 DEF M!Die, Inside, Orphaned
  <2> QED BY <2>4 DEF M!MNext
<1>2. ASSUME NEW p \in Proc, Restart(p) \/ (Crash(p) /\ ~Holding(p))
      PROVE  UNCHANGED <<Inside, Orphaned>>
  BY <1>2 DEF Crash, Restart, Goto, Inside, Orphaned
<1>3. CASE RemoveByHand
  <2>1. Inside = {} /\ Inside' = {}
    BY <1>3 DEF RemoveByHand, Inside
  <2>2. CASE lock' = NoClaim /\ lock # NoClaim
    <3>1. Orphaned /\ ~Orphaned'
      BY <1>3, <2>2 DEF RemoveByHand, Orphaned
    <3>2. M!Reclaim
      BY <2>1, <3>1 DEF M!Reclaim, Inside, Orphaned
    <3> QED BY <3>2 DEF M!MNext
  <2>3. CASE lock' = lock
    BY <1>3, <2>1, <2>3 DEF RemoveByHand, Orphaned
  <2> QED BY <1>3, <2>2, <2>3 DEF RemoveByHand
<1> QED BY <1>1, <1>2, <1>3

\* withLock, with everything that can die and be taken over, is a mutex.
THEOREM Refinement == Spec => ImplementsMutex
<1>1. Init => M!MInit
  BY DEF Init, M!MInit, Holding
<1>2. IInv /\ [Next]_vars => [M!MNext]_<<Inside, Orphaned>>
  <2> SUFFICES ASSUME IInv, [Next]_vars PROVE M!MNext \/ UNCHANGED <<Inside, Orphaned>>
    OBVIOUS
  <2>1. CASE UNCHANGED vars
    BY <2>1 DEF vars, Inside, Orphaned, Holding
  <2> QED BY <2>1, AcquiringRefines, TakingOverRefines, LeavingRefines, EnvironmentRefines DEF Next
<1>3. IInv /\ [Next]_vars => [M!MNext]_M!mvars
  BY <1>2 DEF M!mvars, Inside, Orphaned
<1> QED BY <1>1, <1>3, Invariance, PTL DEF Spec, ImplementsMutex, M!MSpec

=============================================================================
