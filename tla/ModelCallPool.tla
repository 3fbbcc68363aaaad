---------------------------- MODULE ModelCallPool ----------------------------
(***************************************************************************)
(* The model calls of one run share Concurrency slots (lib/budget.js).     *)
(*                                                                         *)
(* A timer, an answer or an abort is a turn of the event loop and comes    *)
(* only when no continuation is pending (Quiet). Continuations, and the    *)
(* starts that callers make in theirs, come in any order.                  *)
(*                                                                         *)
(* The usage counters are left out. A definition that precedes the one it  *)
(* resembles is a seeded fault.                                            *)
(***************************************************************************)
EXTENDS Naturals, Sequences, FiniteSets, SequencesExt

CONSTANTS
  Calls,        \* the model calls of the run
  Concurrency   \* QB_MODEL_CONCURRENCY

ASSUME PoolAssumption == IsFiniteSet(Calls) /\ Concurrency \in Nat \ {0}

VARIABLES
  pc,        \* idle; queued, woken, granted a slot, fetching, ending with its slot; done
  inFlight,  \* slots taken
  waiting,   \* the queue for a slot
  aborted    \* the run's signal

vars == <<pc, inFlight, waiting, aborted>>

Init ==
  /\ pc = [c \in Calls |-> "idle"]
  /\ inFlight = 0 /\ waiting = <<>> /\ aborted = FALSE

Quiet == \A c \in Calls : pc[c] \notin {"woken", "granted", "ending"}

\* The body of acquire's loop, up to its await or its end.
TakeOrQueue(c) ==
  IF inFlight >= Concurrency
  THEN /\ waiting' = Append(waiting, c) /\ pc' = [pc EXCEPT ![c] = "queued"]
       /\ UNCHANGED inFlight
  ELSE /\ inFlight' = inFlight + 1 /\ pc' = [pc EXCEPT ![c] = "granted"]
       /\ UNCHANGED waiting

\* modelCall, up to its first await.
Start(c) ==
  /\ pc[c] = "idle" /\ UNCHANGED aborted
  /\ IF aborted THEN pc' = [pc EXCEPT ![c] = "done"] /\ UNCHANGED <<inFlight, waiting>>
     ELSE TakeOrQueue(c)

\* A call that was woken looks again: another may have taken the slot first.
RetryWithoutLooking(c) ==
  /\ pc[c] = "woken"
  /\ inFlight' = inFlight + 1 /\ pc' = [pc EXCEPT ![c] = "granted"]
  /\ UNCHANGED <<waiting, aborted>>
Retry(c) == pc[c] = "woken" /\ TakeOrQueue(c) /\ UNCHANGED aborted

\* The slot is held and the request goes out.
Fetch(c) ==
  /\ pc[c] = "granted"
  /\ pc' = [pc EXCEPT ![c] = "fetching"]
  /\ UNCHANGED <<inFlight, waiting, aborted>>

\* The body is parsed, or the transport or the server failed.
Answer(c) ==
  /\ Quiet /\ pc[c] = "fetching"
  /\ pc' = [pc EXCEPT ![c] = "ending"]
  /\ UNCHANGED <<inFlight, waiting, aborted>>

\* The finally of modelCall: release() wakes the head of the queue.
ReleaseWithoutWaking(c) ==
  /\ pc[c] = "ending"
  /\ inFlight' = inFlight - 1 /\ pc' = [pc EXCEPT ![c] = "done"]
  /\ UNCHANGED <<waiting, aborted>>
Release(c) ==
  /\ pc[c] = "ending"
  /\ inFlight' = inFlight - 1
  /\ waiting' = IF waiting = <<>> THEN waiting ELSE Tail(waiting)
  /\ pc' = [d \in Calls |-> IF d = c THEN "done"
                            ELSE IF waiting # <<>> /\ d = Head(waiting) THEN "woken" ELSE pc[d]]
  /\ UNCHANGED aborted

\* The per-call deadline: a queued call leaves the queue, and one that fetches ends with
\* its slot, whatever its transport does with the signal.
LeaveQueue(c) ==
  /\ pc[c] = "queued"
  /\ \E i \in DOMAIN waiting : waiting[i] = c /\ waiting' = RemoveAt(waiting, i)
  /\ pc' = [pc EXCEPT ![c] = "done"]
AbandonFetch(c) ==
  /\ pc[c] = "fetching"
  /\ pc' = [pc EXCEPT ![c] = "ending"] /\ UNCHANGED waiting
TimeoutInTheQueue(c) == Quiet /\ LeaveQueue(c) /\ UNCHANGED <<inFlight, aborted>>
Timeout(c) == Quiet /\ (LeaveQueue(c) \/ AbandonFetch(c)) /\ UNCHANGED <<inFlight, aborted>>

\* The run's deadline does so to every call at once.
RunDeadline ==
  /\ Quiet /\ ~aborted /\ aborted' = TRUE
  /\ waiting' = <<>>
  /\ pc' = [c \in Calls |-> IF pc[c] = "queued" THEN "done" ELSE IF pc[c] = "fetching" THEN "ending" ELSE pc[c]]
  /\ UNCHANGED inFlight

Next ==
  \/ \E c \in Calls : Start(c) \/ Retry(c) \/ Fetch(c) \/ Answer(c) \/ Release(c) \/ Timeout(c)
  \/ RunDeadline

\* Continuations run, and timers fire. No server is assumed to answer.
Fairness == \A c \in Calls : WF_vars(Retry(c)) /\ WF_vars(Fetch(c)) /\ WF_vars(Release(c)) /\ WF_vars(Timeout(c))

Spec == Init /\ [][Next]_vars /\ Fairness

-----------------------------------------------------------------------------
(* Properties *)

Holding == {c \in Calls : pc[c] \in {"granted", "fetching", "ending"}}

\* Every slot counted as taken is held by a call that will give it back, and there are
\* never more than QB_MODEL_CONCURRENCY (lib/budget.js:11), whoever barges in.
SlotsAreConserved == inFlight = Cardinality(Holding) /\ inFlight <= Concurrency

\* No call is left in the queue beside a free slot: a wake-up that is lost, or used up
\* by a call that cannot take the slot, is followed by another.
NoIdleSlot == Quiet /\ waiting # <<>> => inFlight = Concurrency

\* Every call that starts ends, though its transport never answers and ignores the abort
\* (lib/budget.js:4-6).
CallsEnd == \A c \in Calls : pc[c] # "idle" ~> pc[c] = "done"
=============================================================================
