--------------------------- MODULE SignupDelivery ---------------------------
(***************************************************************************)
(* The landing page's sign-up and its emails (landing_page/_worker.js).    *)
(* Invocations of the worker, requests and cron runs, share one D1         *)
(* tables: a statement, or a batch of them, runs alone; between two an   *)
(* invocation may be slow, or end.  One address signs up; its emails are   *)
(* the jobs.                                                               *)
(*                                                                         *)
(* Time is what it changes: a job becomes due, a claim passes ten minutes, *)
(* a row passes its retention.                                             *)
(* A definition that precedes the one it resembles is a seeded fault.      *)
(***************************************************************************)
EXTENDS Naturals, FiniteSets

CONSTANTS
  Workers,       \* concurrent invocations
  Jobs,          \* the emails of a registration
  MaxAttempts,   \* MAX_DELIVERY_ATTEMPTS
  MaxTrouble     \* bound: invocations that end early, and claims that pass ten minutes in a live one

ASSUME SignupDeliveryAssumption == MaxAttempts \in Nat \ {0} /\ MaxTrouble \in Nat

VARIABLES
  registered,    \* the address is in submissions
  row,           \* email_deliveries, per job: absent, or its row
  completed,     \* delivery_completions, per job
  rowId,         \* the next row id
  answered,      \* a sign-up request was answered
  worker,        \* per invocation: what it does
  overran,       \* per job: a live sender took ten minutes
  trouble

tables == <<registered, row, completed, rowId>>
deliveryVars == <<tables, answered, worker, overran, trouble>>

Absent == [status |-> "absent", attempts |-> 0, id |-> 0, due |-> FALSE, stale |-> FALSE, old |-> FALSE]
Queued(id) == [status |-> "pending", attempts |-> 0, id |-> id, due |-> TRUE, stale |-> FALSE, old |-> FALSE]

NoJob == "no job"
\* `keys`: the deliveries still to be sent; the row it read: `id` and `attempts`; `sent`: the outcome of its send.
Off == [at |-> "off", signup |-> FALSE, keys |-> {}, job |-> NoJob, id |-> 0, attempts |-> 0, sent |-> FALSE]

DeliveryInit ==
  /\ registered \in BOOLEAN  \* by an older worker, without jobs
  /\ row = [j \in Jobs |-> Absent]
  /\ completed = [j \in Jobs |-> "no"]
  /\ rowId = 1 /\ answered = FALSE
  /\ worker = [w \in Workers |-> Off]
  /\ overran = [j \in Jobs |-> FALSE]
  /\ trouble = 0

IsAt(w, step) == worker[w].at = step
Becomes(w, to) == worker' = [worker EXCEPT ![w] = to]

-----------------------------------------------------------------------------
(* POST /api/beta-access *)

\* The registration and its jobs in one batch; completed deliveries are not queued again.
QueueAlways == {j \in Jobs : row[j] = Absent}
QueueIfNew == {j \in Jobs : row[j] = Absent /\ completed[j] = "no" /\ ~registered}
Queue == {j \in Jobs : row[j] = Absent /\ completed[j] = "no"}

SignUp(w) ==
  /\ IsAt(w, "off")
  /\ registered' = TRUE
  /\ row' = [j \in Jobs |-> IF j \in Queue THEN Queued(rowId) ELSE row[j]]
  /\ rowId' = IF Queue = {} THEN rowId ELSE rowId + 1
  /\ Becomes(w, [Off EXCEPT !.at = "claim", !.signup = TRUE, !.keys = Jobs])
  /\ UNCHANGED <<completed, answered, overran, trouble>>

-----------------------------------------------------------------------------
(* sendDeliveries *)

ClaimableAgain(j) == row[j].status \in {"pending", "failed", "sending"} /\ row[j].due
Claimable(j) == row[j].status \in {"pending", "failed"} /\ row[j].due

Claim(w) ==
  /\ IsAt(w, "claim")
  /\ \E j \in worker[w].keys :
       IF Claimable(j)
       THEN /\ row' = [row EXCEPT ![j].status = "sending", ![j].stale = FALSE]
            /\ Becomes(w, [worker[w] EXCEPT !.at = "read", !.job = j])
       ELSE /\ Becomes(w, [worker[w] EXCEPT !.keys = @ \ {j}])
            /\ UNCHANGED row
  /\ UNCHANGED <<registered, completed, rowId, answered, overran, trouble>>

\* Without the row there is nothing to read: the invocation fails.
ReadRow(w) ==
  /\ IsAt(w, "read")
  /\ LET r == row[worker[w].job]
     IN  Becomes(w, IF r = Absent THEN Off
                 ELSE [worker[w] EXCEPT !.at = "send", !.id = r.id, !.attempts = r.attempts])
  /\ UNCHANGED <<tables, answered, overran, trouble>>

\* The provider takes the email and its answer arrives; or it does not take it, or its answer is lost.
Send(w) ==
  /\ IsAt(w, "send")
  /\ \E ok \in BOOLEAN : Becomes(w, [worker[w] EXCEPT !.at = "record", !.sent = ok])
  /\ UNCHANGED <<tables, answered, overran, trouble>>

Attempts(w) == worker[w].attempts + 1
Dead(w) == Attempts(w) >= MaxAttempts
Outcome(w) == IF worker[w].sent THEN "sent" ELSE IF Dead(w) THEN "dead" ELSE "failed"

Closes(outcome) == outcome \in {"sent", "dead"}
\* The completion is inserted unless there is one.
Complete(j, outcome) ==
  completed' = IF completed[j] = "no" THEN [completed EXCEPT ![j] = outcome] ELSE completed

Finished(w) == [worker[w] EXCEPT !.at = "claim", !.keys = @ \ {worker[w].job}, !.job = NoJob, !.id = 0,
                                 !.attempts = 0, !.sent = FALSE]
\* Addressed by the row's id alone, whatever became of its status.
Record(w) ==
  /\ IsAt(w, "record")
  /\ LET j == worker[w].job
         outcome == Outcome(w)
     IN  /\ row' = IF row[j].id # worker[w].id THEN row
                   ELSE [row EXCEPT ![j].status = outcome, ![j].attempts = Attempts(w),
                                    ![j].due = IF outcome = "sent" THEN @ ELSE FALSE]
         /\ IF Closes(outcome) THEN Complete(j, outcome) ELSE UNCHANGED completed
  /\ Becomes(w, Finished(w))
  /\ UNCHANGED <<registered, rowId, answered, overran, trouble>>

Done(w) ==
  /\ IsAt(w, "claim")
  /\ worker[w].keys = {}
  /\ answered' = (answered \/ worker[w].signup)
  /\ Becomes(w, IF worker[w].signup THEN Off ELSE [Off EXCEPT !.at = "retain"])
  /\ UNCHANGED <<tables, overran, trouble>>

-----------------------------------------------------------------------------
(* Cron: retryDeliveries, then applyRetention *)

NoneInterrupted == {}
Interrupted == {j \in Jobs : row[j].status = "sending" /\ row[j].stale}
RetryStale(w) ==
  /\ IsAt(w, "off")
  /\ row' = [j \in Jobs |-> IF j \in Interrupted THEN [row[j] EXCEPT !.status = "failed"] ELSE row[j]]
  /\ Becomes(w, [Off EXCEPT !.at = "select"])
  /\ UNCHANGED <<registered, completed, rowId, answered, overran, trouble>>

SelectDue(w) ==
  /\ IsAt(w, "select")
  /\ Becomes(w, [worker[w] EXCEPT !.at = "claim", !.keys = {j \in Jobs : Claimable(j)}])
  /\ UNCHANGED <<tables, answered, overran, trouble>>

\* The expired rows are selected, then deleted one by one with their completion.
Expired == {j \in Jobs : row[j].old /\ row[j].status \in {"sent", "dead"}}
RetainRows(w) ==
  /\ IsAt(w, "retain")
  /\ \/ /\ Expired = {}
        /\ Becomes(w, Off)
        /\ UNCHANGED <<row, completed>>
     \/ \E j \in Expired :
          /\ Complete(j, row[j].status)
          /\ row' = [row EXCEPT ![j] = Absent]
          /\ UNCHANGED worker
  /\ UNCHANGED <<registered, rowId, answered, overran, trouble>>

-----------------------------------------------------------------------------
(* What happens to them *)

\* A lost connection, a database error, an evicted worker.
Dies(w) ==
  /\ worker[w].at # "off" /\ trouble < MaxTrouble
  /\ trouble' = trouble + 1
  /\ worker' = [worker EXCEPT ![w] = Off]
  /\ UNCHANGED <<tables, answered, overran>>

Sending(w, j) == worker[w].job = j /\ worker[w].at \in {"read", "send", "record"}
Abandoned(j) == row[j].status = "sending" /\ \A w \in Workers : ~Sending(w, j)

BecomesDue(j) ==
  /\ row[j].status = "failed" /\ ~row[j].due
  /\ row' = [row EXCEPT ![j].due = TRUE]
  /\ UNCHANGED <<registered, completed, rowId, answered, worker, overran, trouble>>

TenMinutes(j) ==
  /\ row[j].status = "sending" /\ ~row[j].stale
  /\ \/ Abandoned(j) /\ UNCHANGED trouble
     \/ ~Abandoned(j) /\ trouble < MaxTrouble /\ trouble' = trouble + 1
  /\ row' = [row EXCEPT ![j].stale = TRUE]
  /\ overran' = [overran EXCEPT ![j] = @ \/ ~Abandoned(j)]
  /\ UNCHANGED <<registered, completed, rowId, answered, worker>>

ThirtyDays(j) ==
  /\ row[j] # Absent /\ ~row[j].old
  /\ \A w \in Workers : worker[w].at = "off"
  /\ row' = [row EXCEPT ![j].old = TRUE]
  /\ UNCHANGED <<registered, completed, rowId, answered, worker, overran, trouble>>

Step(w) ==
  \/ Claim(w) \/ ReadRow(w) \/ Send(w) \/ Record(w) \/ Done(w)
  \/ SelectDue(w) \/ RetainRows(w)

DeliveryNext ==
  \/ \E w \in Workers : SignUp(w) \/ RetryStale(w) \/ Step(w) \/ Dies(w)
  \/ \E j \in Jobs : BecomesDue(j) \/ TenMinutes(j) \/ ThirtyDays(j)

DeliverySpec == DeliveryInit /\ [][DeliveryNext]_deliveryVars

\* Invocations end, cron keeps running, and time passes.
FairSpec ==
  /\ DeliverySpec
  /\ \A w \in Workers : WF_deliveryVars(Step(w)) /\ SF_deliveryVars(RetryStale(w))
  /\ \A j \in Jobs : WF_deliveryVars(BecomesDue(j)) /\ WF_deliveryVars(TenMinutes(j))

-----------------------------------------------------------------------------
(* Properties *)

\* Who got an answer gets the emails: each is queued, or was completed, and retention of rows
\* that carry the only trace of it does not lose it (_worker.js:105-125).
NoJobIsLost == answered => \A j \in Jobs : row[j] # Absent \/ completed[j] # "no"

\* A completed delivery is never queued again, even after retention removed its row.
NotQueuedAgain ==
  [][\A j \in Jobs : completed[j] # "no" /\ row[j] = Absent => row'[j] = Absent]_deliveryVars

\* One sender at a time, and none for a delivery completed as sent, as long as none took ten minutes.
Claims(w, j) == IsAt(w, "claim") /\ worker'[w].at = "read" /\ worker'[w].job = j
OneSender ==
  [][\A w \in Workers, j \in Jobs :
       Claims(w, j) /\ ~overran[j] => completed[j] # "sent" /\ \A v \in Workers : ~Sending(v, j)]_deliveryVars

\* Every delivery of a registration with jobs is closed in the end, sent or dead.
DeliveryEnds == \A j \in Jobs : row[j] # Absent ~> completed[j] # "no"

=============================================================================
