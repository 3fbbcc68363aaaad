------------------------- MODULE ModelCallPoolProofs -------------------------
(***************************************************************************)
(* Proofs about ModelCallPool, for any number of calls and of slots.       *)
(***************************************************************************)
EXTENDS ModelCallPool, SequenceTheorems, FiniteSetTheorems, TLAPS

Woken == {c \in Calls : pc[c] = "woken"}

TypeOK ==
  /\ pc \in [Calls -> {"idle", "queued", "woken", "granted", "fetching", "ending", "done"}]
  /\ inFlight \in Nat /\ waiting \in Seq(Calls) /\ aborted \in BOOLEAN

\* The queue holds the queued calls, each once.
QueueIsSound ==
  /\ \A i \in 1..Len(waiting) : pc[waiting[i]] = "queued"
  /\ \A i, j \in 1..Len(waiting) : waiting[i] = waiting[j] => i = j

\* Beside a queue every slot is taken, or a call is on its way to take it.
WakeUpsSuffice == waiting # <<>> => inFlight + Cardinality(Woken) >= Concurrency

\* SlotsAreConserved is inductive on its own; NoIdleSlot needs the wake-ups on their way.
PoolInv == TypeOK /\ QueueIsSound /\ SlotsAreConserved /\ WakeUpsSuffice

-----------------------------------------------------------------------------
(* Counting *)

\* The sets of calls are finite, so they can be counted.
LEMMA FiniteParts == IsFiniteSet(Holding) /\ IsFiniteSet(Woken)
                       /\ Cardinality(Holding) \in Nat /\ Cardinality(Woken) \in Nat
<1>1. Holding \subseteq Calls /\ Woken \subseteq Calls
  BY DEF Holding, Woken
<1> QED BY <1>1, PoolAssumption, FS_Subset, FS_CardinalityType

\* One element out of a sequence.
LEMMA RemoveAtProperties ==
  ASSUME NEW S, NEW s \in Seq(S), NEW i \in 1..Len(s)
  PROVE  /\ RemoveAt(s, i) \in Seq(S) /\ Len(RemoveAt(s, i)) = Len(s) - 1
         /\ \A j \in 1..(Len(s) - 1) : RemoveAt(s, i)[j] = IF j < i THEN s[j] ELSE s[j + 1]
<1> DEFINE front == SubSeq(s, 1, i - 1)
           back == SubSeq(s, i + 1, Len(s))
<1>1. front \in Seq(S) /\ Len(front) = i - 1 /\ \A j \in 1..(i - 1) : front[j] = s[j]
  OBVIOUS
<1>2. back \in Seq(S) /\ Len(back) = Len(s) - i /\ \A j \in 1..(Len(s) - i) : back[j] = s[i + j]
  OBVIOUS
<1>3. RemoveAt(s, i) = front \o back
  BY DEF RemoveAt
<1> HIDE DEF front, back
<1>4. Len(s) \in Nat
  OBVIOUS
<1>5. /\ front \o back \in Seq(S) /\ Len(front \o back) = Len(front) + Len(back)
      /\ \A j \in 1..Len(front) + Len(back) :
           (front \o back)[j] = IF j <= Len(front) THEN front[j] ELSE back[j - Len(front)]
  BY <1>1, <1>2, ConcatProperties
<1>6. Len(front) + Len(back) = Len(s) - 1
  BY <1>1, <1>2, <1>4
<1>7. ASSUME NEW j \in 1..(Len(s) - 1) PROVE (front \o back)[j] = IF j < i THEN s[j] ELSE s[j + 1]
  <2>1. CASE j < i
    BY <1>1, <1>4, <1>5, <1>6, <2>1
  <2>2. CASE ~(j < i)
    <3>1. (front \o back)[j] = back[j - (i - 1)]
      BY <1>1, <1>4, <1>5, <1>6, <2>2
    <3>2. j - (i - 1) \in 1..(Len(s) - i) /\ i + (j - (i - 1)) = j + 1
      BY <1>4, <2>2
    <3> QED BY <1>2, <2>2, <3>1, <3>2
  <2> QED BY <2>1, <2>2
<1> QED BY <1>3, <1>5, <1>6, <1>7

-----------------------------------------------------------------------------
(* The steps *)

\* The pool starts empty.
LEMMA InitPoolInv == Init => PoolInv
<1> SUFFICES ASSUME Init PROVE PoolInv
  OBVIOUS
<1> USE DEF Init
<1>1. TypeOK
  <2>1. aborted \in BOOLEAN
    BY Zenon
  <2> QED BY <2>1 DEF TypeOK
<1>2. Holding = {}
  BY DEF Holding
<1> QED BY <1>1, <1>2, FS_EmptySet, PoolAssumption
        DEF PoolInv, QueueIsSound, SlotsAreConserved, WakeUpsSuffice

\* A step that neither queues a call nor moves a slot or a wake-up.
LEMMA SetsKept ==
  ASSUME PoolInv, Holding' = Holding, Woken' = Woken, inFlight' = inFlight,
         waiting' # <<>> => waiting # <<>>
  PROVE  SlotsAreConserved' /\ WakeUpsSuffice'
BY DEF PoolInv, SlotsAreConserved, WakeUpsSuffice

\* A queue that a call with no place in it joins.
LEMMA QueueGrows ==
  ASSUME PoolInv, NEW c \in Calls, pc[c] # "queued",
         waiting' = Append(waiting, c), pc' = [pc EXCEPT ![c] = "queued"]
  PROVE  QueueIsSound' /\ waiting' \in Seq(Calls)
<1>1. waiting \in Seq(Calls) /\ Len(waiting) \in Nat
  BY DEF PoolInv, TypeOK
<1>2. /\ waiting' \in Seq(Calls) /\ Len(waiting') = Len(waiting) + 1
      /\ \A i \in 1..Len(waiting) : waiting'[i] = waiting[i]
      /\ waiting'[Len(waiting) + 1] = c
  BY <1>1, AppendProperties
<1>3. \A i \in 1..Len(waiting) : pc[waiting[i]] = "queued" /\ waiting[i] \in Calls /\ waiting[i] # c
  BY <1>1 DEF PoolInv, QueueIsSound
<1>4. pc'[c] = "queued" /\ \A d \in Calls : d # c => pc'[d] = pc[d]
  BY DEF PoolInv, TypeOK
<1>5. \A i \in 1..Len(waiting') : pc'[waiting'[i]] = "queued"
  BY <1>1, <1>2, <1>3, <1>4
<1>6. \A i, j \in 1..Len(waiting') : waiting'[i] = waiting'[j] => i = j
  BY <1>1, <1>2, <1>3 DEF PoolInv, QueueIsSound
<1> QED BY <1>2, <1>5, <1>6 DEF QueueIsSound

\* A slot is taken only if one is free, by a call that held none.
LEMMA TakeOrQueueKeepsPoolInv ==
  ASSUME PoolInv, NEW c \in Calls, pc[c] \in {"idle", "woken"}, TakeOrQueue(c), UNCHANGED aborted
  PROVE  PoolInv'
<1> USE DEF PoolInv
<1>1. CASE inFlight >= Concurrency
  <2>1. waiting' = Append(waiting, c) /\ pc' = [pc EXCEPT ![c] = "queued"] /\ inFlight' = inFlight
    BY <1>1 DEF TakeOrQueue
  <2>2. QueueIsSound' /\ waiting' \in Seq(Calls)
    BY <2>1, QueueGrows
  <2>3. TypeOK'
    BY <2>1, <2>2 DEF TypeOK
  <2>4. Holding' = Holding
    BY <2>1 DEF Holding, TypeOK
  <2>5. Woken' \subseteq Calls /\ Cardinality(Woken') \in Nat
    BY PoolAssumption, FS_Subset, FS_CardinalityType DEF Woken
  <2>6. inFlight \in Nat /\ Concurrency \in Nat
    BY PoolAssumption DEF TypeOK
  <2> QED BY <1>1, <2>1, <2>2, <2>3, <2>4, <2>5, <2>6 DEF SlotsAreConserved, WakeUpsSuffice
<1>2. CASE ~(inFlight >= Concurrency)
  <2>1. inFlight' = inFlight + 1 /\ pc' = [pc EXCEPT ![c] = "granted"] /\ waiting' = waiting
    BY <1>2 DEF TakeOrQueue
  <2>2. TypeOK'
    BY <2>1 DEF TypeOK
  <2>3. QueueIsSound'
    BY <2>1 DEF QueueIsSound, TypeOK
  <2>4. Holding' = Holding \cup {c} /\ c \notin Holding
    BY <2>1 DEF Holding, TypeOK
  <2>5. Cardinality(Holding') = Cardinality(Holding) + 1
    BY <2>4, FiniteParts, FS_AddElement
  <2>6. Cardinality(Woken') >= Cardinality(Woken) - 1 /\ Cardinality(Woken') \in Nat
    <3>1. CASE pc[c] = "woken"
      <4>1. Woken' = Woken \ {c} /\ c \in Woken
        BY <2>1, <3>1 DEF Woken, TypeOK
      <4>2. IsFiniteSet(Woken \ {c}) /\ Cardinality(Woken \ {c}) = Cardinality(Woken) - 1
        BY <4>1, FiniteParts, FS_RemoveElement
      <4>3. Cardinality(Woken \ {c}) \in Nat
        BY <4>2, FS_CardinalityType
      <4> QED BY <4>1, <4>2, <4>3, FiniteParts
    <3>2. CASE pc[c] = "idle"
      <4>1. Woken' = Woken
        BY <2>1, <3>2 DEF Woken, TypeOK
      <4> QED BY <4>1, FiniteParts
    <3> QED BY <3>1, <3>2
  <2>7. inFlight \in Nat /\ Concurrency \in Nat
    BY PoolAssumption DEF TypeOK
  <2>8. SlotsAreConserved'
    BY <1>2, <2>1, <2>5, <2>7 DEF SlotsAreConserved
  <2>9. WakeUpsSuffice'
    BY <2>1, <2>6, <2>7, FiniteParts DEF WakeUpsSuffice
  <2> QED BY <2>2, <2>3, <2>8, <2>9
<1> QED BY <1>1, <1>2

\* The slot of a call that ends goes back, and the head of the queue is woken for it.
LEMMA ReleaseKeepsPoolInv ==
  ASSUME PoolInv, NEW c \in Calls, Release(c)
  PROVE  PoolInv'
<1> USE DEF PoolInv
<1>1. pc[c] = "ending" /\ inFlight' = inFlight - 1 /\ aborted' = aborted
  BY DEF Release
<1>2. c \in Holding /\ inFlight = Cardinality(Holding) /\ inFlight <= Concurrency
      /\ inFlight \in Nat /\ Concurrency \in Nat
  BY <1>1, PoolAssumption DEF Holding, SlotsAreConserved, TypeOK
<1>3. Cardinality(Holding \ {c}) = inFlight - 1 /\ inFlight - 1 \in Nat
  <2>1. IsFiniteSet(Holding \ {c}) /\ Cardinality(Holding \ {c}) = Cardinality(Holding) - 1
    BY <1>2, FiniteParts, FS_RemoveElement
  <2>2. Cardinality(Holding \ {c}) \in Nat
    BY <2>1, FS_CardinalityType
  <2> QED BY <1>2, <2>1, <2>2
<1>4. CASE waiting = <<>>
  <2>1. waiting' = waiting /\ pc' = [d \in Calls |-> IF d = c THEN "done" ELSE pc[d]]
    BY <1>4 DEF Release
  <2>2. Holding' = Holding \ {c}
    BY <2>1 DEF Holding, TypeOK
  <2>3. TypeOK' /\ QueueIsSound'
    BY <1>1, <1>3, <1>4, <2>1 DEF TypeOK, QueueIsSound
  <2> QED BY <1>1, <1>2, <1>3, <1>4, <2>1, <2>2, <2>3 DEF SlotsAreConserved, WakeUpsSuffice
<1>5. CASE waiting # <<>>
  <2> DEFINE h == Head(waiting)
  <2>1. /\ waiting \in Seq(Calls) /\ Len(waiting) \in Nat /\ Len(waiting) > 0
        /\ h = waiting[1] /\ h \in Calls /\ pc[h] = "queued"
    BY <1>5 DEF TypeOK, QueueIsSound
  <2>2. /\ waiting' \in Seq(Calls) /\ Len(waiting') = Len(waiting) - 1
        /\ \A i \in 1..Len(waiting') : waiting'[i] = waiting[i + 1]
    BY <1>5, <2>1 DEF Release
  <2>3. pc' = [d \in Calls |-> IF d = c THEN "done" ELSE IF d = h THEN "woken" ELSE pc[d]] /\ h # c
    BY <1>1, <1>5, <2>1 DEF Release
  <2> HIDE DEF h
  <2>4. TypeOK'
    BY <1>1, <1>3, <2>2, <2>3 DEF TypeOK
  <2>5. QueueIsSound'
    <3>1. \A i \in 1..Len(waiting') : i + 1 \in 1..Len(waiting) /\ waiting[i + 1] # waiting[1]
      BY <2>1, <2>2 DEF QueueIsSound
    <3>2. ASSUME NEW i \in 1..Len(waiting')
          PROVE  waiting'[i] \in Calls /\ waiting'[i] # h /\ pc[waiting'[i]] = "queued"
      <4>1. waiting'[i] = waiting[i + 1] /\ i + 1 \in 1..Len(waiting)
        BY <2>2, <3>1
      <4>2. waiting[i + 1] \in Calls /\ waiting[i + 1] # h
        BY <2>1, <3>1, <4>1
      <4>3. pc[waiting[i + 1]] = "queued"
        BY <4>1 DEF QueueIsSound
      <4> QED BY <4>1, <4>2, <4>3
    <3>3. \A i \in 1..Len(waiting') : pc'[waiting'[i]] = "queued"
      BY <1>1, <2>3, <3>2
    <3>4. \A i, j \in 1..Len(waiting') : waiting'[i] = waiting'[j] => i = j
      BY <2>1, <2>2, <3>1 DEF QueueIsSound
    <3> QED BY <3>3, <3>4 DEF QueueIsSound
  <2>6. Holding' = Holding \ {c}
    BY <2>1, <2>3 DEF Holding, TypeOK
  <2>7. Woken' = Woken \cup {h} /\ h \notin Woken
    BY <1>1, <2>1, <2>3 DEF Woken, TypeOK
  <2>8. Cardinality(Woken') = Cardinality(Woken) + 1
    BY <2>7, FiniteParts, FS_AddElement
  <2>9. SlotsAreConserved'
    BY <1>1, <1>2, <1>3, <2>6 DEF SlotsAreConserved
  <2>10. WakeUpsSuffice'
    BY <1>1, <1>2, <1>5, <2>8, FiniteParts DEF WakeUpsSuffice
  <2> QED BY <2>4, <2>5, <2>9, <2>10
<1> QED BY <1>4, <1>5

\* A deadline in the queue takes one call out of it.
LEMMA LeaveQueueKeepsPoolInv ==
  ASSUME PoolInv, NEW c \in Calls, LeaveQueue(c), UNCHANGED <<inFlight, aborted>>
  PROVE  PoolInv'
<1> USE DEF PoolInv
<1>1. PICK k \in DOMAIN waiting : waiting[k] = c /\ waiting' = RemoveAt(waiting, k)
  BY DEF LeaveQueue
<1>2. pc[c] = "queued" /\ pc' = [pc EXCEPT ![c] = "done"]
  BY DEF LeaveQueue
<1>3. waiting \in Seq(Calls) /\ Len(waiting) \in Nat /\ k \in 1..Len(waiting)
  BY <1>1 DEF TypeOK
<1>4. /\ waiting' \in Seq(Calls) /\ Len(waiting') = Len(waiting) - 1
      /\ \A j \in 1..Len(waiting') : waiting'[j] = IF j < k THEN waiting[j] ELSE waiting[j + 1]
  BY <1>1, <1>3, RemoveAtProperties
<1>5. TypeOK'
  BY <1>2, <1>4 DEF TypeOK
<1>6. QueueIsSound'
  <2>1. \A j \in 1..Len(waiting') : \E i \in 1..Len(waiting) :
          i = (IF j < k THEN j ELSE j + 1) /\ i # k /\ waiting'[j] = waiting[i]
    BY <1>3, <1>4
  <2>2. \A j \in 1..Len(waiting') : waiting'[j] \in Calls /\ waiting'[j] # c /\ pc[waiting'[j]] = "queued"
    BY <1>1, <1>3, <2>1 DEF QueueIsSound
  <2>3. \A j \in 1..Len(waiting') : pc'[waiting'[j]] = "queued"
    BY <1>2, <2>2 DEF TypeOK
  <2>4. \A i, j \in 1..Len(waiting') : waiting'[i] = waiting'[j] => i = j
    BY <1>3, <1>4, <2>1 DEF QueueIsSound
  <2> QED BY <2>3, <2>4 DEF QueueIsSound
<1>7. Holding' = Holding /\ Woken' = Woken
  BY <1>2 DEF Holding, Woken, TypeOK
<1>8. waiting' # <<>> => waiting # <<>>
  BY <1>3
<1> QED BY <1>5, <1>6, <1>7, <1>8, SetsKept

\* A step of calls that hold their slots before and after it, and that empties the queue or
\* leaves it alone.
LEMMA SlotsStay ==
  ASSUME PoolInv, aborted' \in BOOLEAN, inFlight' = inFlight,
         pc' \in [Calls -> {"idle", "queued", "woken", "granted", "fetching", "ending", "done"}],
         \/ waiting' = waiting /\ \A c \in Calls : pc'[c] = "queued" <=> pc[c] = "queued"
         \/ waiting' = <<>>,
         Holding' = Holding, Woken' = Woken
  PROVE  PoolInv'
<1>1. TypeOK'
  <2>1. inFlight' \in Nat /\ (waiting' = waiting => waiting' \in Seq(Calls))
    BY DEF PoolInv, TypeOK
  <2>2. waiting' = <<>> => waiting' \in Seq(Calls)
    OBVIOUS
  <2> QED BY <2>1, <2>2 DEF TypeOK
<1>2. QueueIsSound'
  BY DEF PoolInv, QueueIsSound, TypeOK
<1> QED BY <1>1, <1>2, SetsKept DEF PoolInv

-----------------------------------------------------------------------------
(* Theorems *)

\* Every step keeps the invariant.
LEMMA NextKeepsPoolInv == PoolInv /\ [Next]_vars => PoolInv'
<1> SUFFICES ASSUME PoolInv, [Next]_vars PROVE PoolInv'
  OBVIOUS
<1>1. ASSUME NEW c \in Calls, Start(c) PROVE PoolInv'
  <2>1. CASE aborted
    <3>1. pc[c] = "idle" /\ pc' = [pc EXCEPT ![c] = "done"] /\ UNCHANGED <<inFlight, waiting, aborted>>
      BY <1>1, <2>1 DEF Start
    <3>2. Holding' = Holding /\ Woken' = Woken
      BY <3>1 DEF Holding, Woken, PoolInv, TypeOK
    <3> QED BY <3>1, <3>2, SlotsStay DEF PoolInv, TypeOK
  <2>2. CASE ~aborted
    BY <1>1, <2>2, TakeOrQueueKeepsPoolInv DEF Start
  <2> QED BY <2>1, <2>2
<1>2. ASSUME NEW c \in Calls, Retry(c) PROVE PoolInv'
  BY <1>2, TakeOrQueueKeepsPoolInv DEF Retry
<1>3. ASSUME NEW c \in Calls, Fetch(c) \/ Answer(c) \/ (AbandonFetch(c) /\ UNCHANGED <<inFlight, aborted>>)
      PROVE  PoolInv'
  <2>1. PICK s \in {"fetching", "ending"} : pc' = [pc EXCEPT ![c] = s]
    BY <1>3 DEF Fetch, Answer, AbandonFetch
  <2>2. pc[c] \in {"granted", "fetching"} /\ UNCHANGED <<inFlight, waiting, aborted>>
    BY <1>3 DEF Fetch, Answer, AbandonFetch
  <2>3. Holding' = Holding /\ Woken' = Woken
    BY <2>1, <2>2 DEF Holding, Woken, PoolInv, TypeOK
  <2> QED BY <2>1, <2>2, <2>3, SlotsStay DEF PoolInv, TypeOK
<1>4. ASSUME NEW c \in Calls, Release(c) PROVE PoolInv'
  BY <1>4, ReleaseKeepsPoolInv
<1>5. ASSUME NEW c \in Calls, Timeout(c) PROVE PoolInv'
  BY <1>3, <1>5, LeaveQueueKeepsPoolInv DEF Timeout
<1>6. CASE RunDeadline
  <2>1. Holding' = Holding /\ Woken' = Woken
    BY <1>6 DEF RunDeadline, Holding, Woken, PoolInv, TypeOK
  <2>2. pc' \in [Calls -> {"idle", "queued", "woken", "granted", "fetching", "ending", "done"}]
    BY <1>6 DEF RunDeadline, PoolInv, TypeOK
  <2>3. aborted' \in BOOLEAN
    BY <1>6, Zenon DEF RunDeadline
  <2> QED BY <1>6, <2>1, <2>2, <2>3, SlotsStay DEF RunDeadline
<1>7. CASE UNCHANGED vars
  BY <1>7, SlotsStay DEF vars, PoolInv, TypeOK, Holding, Woken
<1> QED BY <1>1, <1>2, <1>3, <1>4, <1>5, <1>6, <1>7 DEF Next

\* The invariant of the pool, whatever the number of calls and of slots.
THEOREM PoolInvariance == Spec => []PoolInv
<1>1. Init => PoolInv
  BY InitPoolInv
<1>2. PoolInv /\ [Next]_vars => PoolInv'
  BY NextKeepsPoolInv
<1> QED BY <1>1, <1>2, PTL DEF Spec

\* Slots are neither lost nor made up, and QB_MODEL_CONCURRENCY is never exceeded.
THEOREM Conserved == Spec => []SlotsAreConserved
<1>1. PoolInv => SlotsAreConserved
  BY DEF PoolInv
<1> QED BY <1>1, PoolInvariance, PTL

\* Once the continuations have run, no call queues beside a free slot.
THEOREM NoneIdle == Spec => []NoIdleSlot
<1>1. PoolInv => NoIdleSlot
  <2> SUFFICES ASSUME PoolInv, Quiet, waiting # <<>> PROVE inFlight = Concurrency
    BY DEF NoIdleSlot
  <2>1. Cardinality(Woken) = 0
    <3>1. Woken = {}
      BY DEF Woken, Quiet
    <3> QED BY <3>1, FS_EmptySet
  <2> QED BY <2>1, PoolAssumption DEF PoolInv, TypeOK, WakeUpsSuffice, SlotsAreConserved
<1> QED BY <1>1, PoolInvariance, PTL
=============================================================================
