---------------------------- MODULE WorkerProofs ----------------------------
(***************************************************************************)
(* The promises of the landing page's worker, whatever ends in the middle: *)
(* of the telemetry endpoints for any number of requests, links, tokens    *)
(* and uploads, and of the sign-up and its emails for any number of        *)
(* invocations and jobs.  The two share the database but no table of it.   *)
(***************************************************************************)
EXTENDS Telemetry, SignupDelivery, TLAPS

-----------------------------------------------------------------------------
(* Telemetry *)

LEMMA TelemetryInit == Init => TelemetryInv
<1> SUFFICES ASSUME Init PROVE TelemetryInv
  OBVIOUS
<1> USE TelemetryAssumption DEF Init
<1>1. TypeOK BY DEF TypeOK, TablesTyped, RequestsTyped
<1>2. RequestsKnow BY DEF RequestsKnow, At
<1>3. CodesAreFresh BY DEF CodesAreFresh
<1>4. CodesAreSpent BY DEF CodesAreSpent, At
<1>5. DeletedAreRevoked BY DEF DeletedAreRevoked
<1>6. OneTokenPerLink BY DEF OneTokenPerLink
<1>7. DeletionIsFinal BY DEF DeletionIsFinal
<1> QED BY <1>1, <1>2, <1>3, <1>4, <1>5, <1>6, <1>7 DEF TelemetryInv

\* A row that is written and one whose hour passed are rows, of the token they should be of.
LEMMA RowWritten == ASSUME NEW n \in Runs, NEW t \in Tokens
                    PROVE  [run |-> n, token |-> t, recent |-> TRUE] \in Row
BY DEF Row

LEMMA RowAged == ASSUME NEW r \in Row
                 PROVE  /\ [r EXCEPT !.recent = FALSE] \in Row
                        /\ [r EXCEPT !.recent = FALSE].token = r.token
BY DEF Row

LEMMA TelemetryNext == TelemetryInv /\ [Next]_vars => TelemetryInv'
<1> SUFFICES ASSUME TelemetryInv, [Next]_vars
             PROVE  TelemetryInv'
  OBVIOUS
<1> USE TelemetryAssumption DEF TelemetryInv, TypeOK, database, links, tokens, request, At, Goes, Answers,
      TablesTyped, RequestsTyped, RequestsKnow, CodesAreFresh, CodesAreSpent, Spent, DeletedAreRevoked,
      OneTokenPerLink, DeletionIsFinal
<1>1. ASSUME NEW q \in Requests, AskLink(q) PROVE TelemetryInv'
  BY <1>1 DEF AskLink
<1>2. ASSUME NEW q \in Requests, LookUp(q) PROVE TelemetryInv'
  BY <1>2 DEF LookUp
<1>3. ASSUME NEW q \in Requests, StoreCode(q) PROVE TelemetryInv'
  BY <1>3 DEF StoreCode
<1>4. ASSUME NEW q \in Requests, Mail(q) PROVE TelemetryInv'
  BY <1>4 DEF Mail
<1>5. ASSUME NEW q \in Requests, ReadCode(q) PROVE TelemetryInv'
  BY <1>5 DEF ReadCode
<1>6. ASSUME NEW q \in Requests, UseCode(q) PROVE TelemetryInv'
  BY <1>6 DEF UseCode, Usable
<1>7. ASSUME NEW q \in Requests, IssueToken(q) PROVE TelemetryInv'
  BY <1>7 DEF IssueToken
<1>8. ASSUME NEW q \in Requests, Authorize(q) PROVE TelemetryInv'
  BY <1>8 DEF Authorize, Active
<1>9. ASSUME NEW q \in Requests, Upload(q) PROVE TelemetryInv'
  <2>1. PICK n \in Runs :
          \/ /\ Active(on[q])
             /\ metrics' = metrics \cup {[run |-> n, token |-> on[q], recent |-> TRUE]}
          \/ metrics' = metrics
    BY <1>9 DEF Upload, Accept
  <2>2. on[q] \in Tokens
    BY <1>9 DEF Upload
  <2>3. metrics' \subseteq Row
    BY <2>1, <2>2, RowWritten
  <2>4. DeletionIsFinal'
    BY <1>9, <2>1 DEF Upload, Active
  <2> QED BY <1>9, <2>3, <2>4 DEF Upload
<1>10. ASSUME NEW q \in Requests, Revoke(q) PROVE TelemetryInv'
  BY <1>10 DEF Revoke
<1>11. ASSUME NEW q \in Requests, Delete(q) PROVE TelemetryInv'
  BY <1>11 DEF Delete
<1>12. ASSUME NEW q \in Requests, Ends(q) PROVE TelemetryInv'
  BY <1>12 DEF Ends
<1>13. CASE HourPasses
  <2>1. CASE UNCHANGED metrics
    BY <1>13, <2>1 DEF HourPasses
  <2>2. ASSUME NEW r \in metrics, metrics' = (metrics \ {r}) \cup {[r EXCEPT !.recent = FALSE]}, UNCHANGED asked
        PROVE  TelemetryInv'
    <3>1. /\ r \in Row
          /\ [r EXCEPT !.recent = FALSE] \in Row
          /\ [r EXCEPT !.recent = FALSE].token = r.token
      BY RowAged
    <3>2. metrics' \subseteq Row
      BY <2>2, <3>1
    <3>3. DeletionIsFinal'
      BY <1>13, <2>2, <3>1 DEF HourPasses
    <3> QED BY <1>13, <2>2, <3>2, <3>3 DEF HourPasses
  <2> QED BY <1>13, <2>1, <2>2 DEF HourPasses
<1>14. CASE CodeExpires BY <1>14 DEF CodeExpires
<1>15. CASE Retain
  <2>1. CASE metrics' \subseteq metrics /\ UNCHANGED links
    BY <1>15, <2>1 DEF Retain
  <2>2. ASSUME NEW c \in expired, UNCHANGED metrics, link' = [link EXCEPT ![c] = Nothing],
               used' = used \ {c}, expired' = expired \ {c}
        PROVE  TelemetryInv'
    <3>1. link'[c] = Nothing /\ \A d \in Codes : d # c => link'[d] = link[d] /\ (d \in used' <=> d \in used)
      BY <2>2
    <3>2. TablesTyped'
      BY <1>15, <2>2 DEF Retain
    <3>3. CodesAreFresh' /\ OneTokenPerLink'
      BY <1>15, <2>2, <3>1 DEF Retain
    <3>4. CodesAreSpent'
      BY <1>15, <3>1 DEF Retain
    <3> QED BY <1>15, <2>2, <3>2, <3>3, <3>4 DEF Retain
  <2> QED BY <1>15, <2>1, <2>2 DEF Retain
<1>16. CASE UNCHANGED vars BY <1>16 DEF vars
<1> QED BY <1>1, <1>2, <1>3, <1>4, <1>5, <1>6, <1>7, <1>8, <1>9, <1>10, <1>11, <1>12,
           <1>13, <1>14, <1>15, <1>16 DEF Next

\* However often and however concurrently a mailed link is opened, it yields one token
\* (handleTelemetryVerify).
THEOREM LinkYieldsOneToken == Spec => []OneTokenPerLink
<1>1. TelemetryInv => OneTokenPerLink BY DEF TelemetryInv
<1> QED BY <1>1, TelemetryInit, TelemetryNext, PTL DEF Spec

\* No upload that was authorised before a deletion leaves a metric after it
\* (handleTelemetryDelete, handleMetrics).
THEOREM DeletionStays == Spec => []DeletionIsFinal
<1>1. TelemetryInv => DeletionIsFinal BY DEF TelemetryInv
<1> QED BY <1>1, TelemetryInit, TelemetryNext, PTL DEF Spec

-----------------------------------------------------------------------------
(* The sign-up and its emails: the invariant *)

Rows == [status : {"absent", "pending", "sending", "sent", "failed", "dead"}, attempts : Nat, id : Nat,
         due : BOOLEAN, stale : BOOLEAN, old : BOOLEAN]
Places == {"off", "claim", "read", "send", "record", "select", "retain"}
Invocations == [at : Places, signup : BOOLEAN, keys : SUBSET Jobs, job : Jobs \cup {NoJob}, id : Nat,
                attempts : Nat, sent : BOOLEAN]

DeliveryTyped ==
  /\ row \in [Jobs -> Rows] /\ rowId \in Nat \ {0}
  /\ completed \in [Jobs -> {"no", "sent", "dead"}] /\ overran \in [Jobs -> BOOLEAN]
  /\ worker \in [Workers -> Invocations]

\* A row has an id of its own, which no invocation mistakes for that of a missing row.
RowsHaveIds ==
  /\ \A j \in Jobs : IF row[j].status = "absent" THEN row[j] = Absent ELSE row[j].id # 0
  /\ \A w \in Workers : worker[w].at \in {"send", "record"} => worker[w].id # 0
  /\ \A w \in Workers : worker[w].at \in {"read", "send", "record"} => worker[w].job \in Jobs

\* From the batch of the sign-up on, each job has its row or its completion.
Traced(j) == row[j] # Absent \/ completed[j] # "no"
SignUpsAreTraced ==
  answered \/ (\E w \in Workers : worker[w].signup) => \A j \in Jobs : Traced(j)

\* A delivery that never took ten minutes in a live sender has one, whose row is the one it read.
OneLiveSender ==
  \A j \in Jobs : ~overran[j] =>
    /\ completed[j] = "sent" => row[j].status \in {"absent", "sent"}
    /\ \A w \in Workers : Sending(w, j) =>
         /\ row[j].status = "sending" /\ ~row[j].stale
         /\ worker[w].at # "read" => worker[w].id = row[j].id
         /\ \A v \in Workers \ {w} : ~Sending(v, j)

DeliveryInv == DeliveryTyped /\ RowsHaveIds /\ SignUpsAreTraced /\ OneLiveSender

LEMMA AbsentIsARow == Absent \in Rows /\ Absent.status = "absent" /\ Absent.id = 0
BY DEF Absent, Rows

LEMMA OffIsAnInvocation == Off \in Invocations /\ Off.at = "off" /\ ~Off.signup
BY DEF Off, Invocations, Places, NoJob

LEMMA QueuedIsARow ==
  ASSUME NEW id \in Nat \ {0}
  PROVE  Queued(id) \in Rows /\ Queued(id).id = id /\ Queued(id).status = "pending" /\ Queued(id) # Absent
<1>1. Queued(id) \in Rows /\ Queued(id).id = id /\ Queued(id).status = "pending"
  BY DEF Queued, Rows
<1> QED BY <1>1, AbsentIsARow

LEMMA DeliveryStarts == DeliveryInit => DeliveryInv
<1> SUFFICES ASSUME DeliveryInit PROVE DeliveryInv
  OBVIOUS
<1> USE DEF DeliveryInit
<1>1. DeliveryTyped
  BY AbsentIsARow, OffIsAnInvocation DEF DeliveryTyped
<1>2. RowsHaveIds
  BY AbsentIsARow, OffIsAnInvocation DEF RowsHaveIds
<1>3. SignUpsAreTraced
  BY OffIsAnInvocation DEF SignUpsAreTraced
<1>4. OneLiveSender
  BY OffIsAnInvocation DEF OneLiveSender, Sending
<1> QED BY <1>1, <1>2, <1>3, <1>4 DEF DeliveryInv

\* A step of an invocation that leaves the tables, and sends no other job than before, keeps all.
LEMMA InvocationSteps ==
  ASSUME DeliveryInv, NEW w \in Workers, NEW n \in Invocations, Becomes(w, n), UNCHANGED <<row, completed, rowId, overran>>,
         answered' => answered \/ worker[w].signup, n.signup => worker[w].signup,
         n.at \in {"read", "send", "record"} =>
           /\ worker[w].at \in {"read", "send", "record"} /\ n.job = worker[w].job
           /\ n.at # "read" => n.id # 0 /\ (~overran[n.job] => n.id = row[n.job].id)
  PROVE  DeliveryInv'
<1>1. worker' = [worker EXCEPT ![w] = n] /\ worker \in [Workers -> Invocations]
  BY DEF Becomes, DeliveryInv, DeliveryTyped
<1>2. worker'[w] = n /\ \A v \in Workers \ {w} : worker'[v] = worker[v]
  BY <1>1
<1>3. DeliveryTyped'
  BY <1>1 DEF DeliveryInv, DeliveryTyped
<1>4. RowsHaveIds'
  BY <1>2 DEF DeliveryInv, RowsHaveIds
<1>5. SignUpsAreTraced'
  BY <1>2 DEF DeliveryInv, SignUpsAreTraced, Traced
<1>6. OneLiveSender'
  BY <1>2 DEF DeliveryInv, OneLiveSender, Sending
<1> QED BY <1>3, <1>4, <1>5, <1>6 DEF DeliveryInv

\* The steps that change no row.
LEMMA QuietSteps ==
  ASSUME DeliveryInv, NEW w \in Workers,
         ReadRow(w) \/ Send(w) \/ Done(w) \/ SelectDue(w) \/ Dies(w)
  PROVE  DeliveryInv'
<1> DEFINE r == row[worker[w].job]
<1>1. worker[w] \in Invocations
  BY DEF DeliveryInv, DeliveryTyped
<1>2. CASE ReadRow(w)
  <2>1. worker[w].at = "read" /\ worker[w].job \in Jobs /\ r \in Rows /\ UNCHANGED <<row, completed, rowId, overran, answered>>
    BY <1>2 DEF ReadRow, IsAt, tables, DeliveryInv, DeliveryTyped, RowsHaveIds
  <2>2. CASE r = Absent
    <3>1. Becomes(w, Off)
      BY <1>2, <2>2 DEF ReadRow
    <3> QED BY <2>1, <3>1, OffIsAnInvocation, InvocationSteps
  <2>3. CASE r # Absent
    <3> DEFINE n == [worker[w] EXCEPT !.at = "send", !.id = r.id, !.attempts = r.attempts]
    <3>1. Becomes(w, n)
      BY <1>2, <2>3 DEF ReadRow
    <3>2. n \in Invocations /\ n.at = "send" /\ n.job = worker[w].job /\ n.id = r.id /\ n.signup = worker[w].signup
      BY <1>1, <2>1 DEF Invocations, Places, Rows
    <3>3. r.id # 0
      BY <2>1, <2>3 DEF DeliveryInv, RowsHaveIds
    <3> HIDE DEF n
    <3> QED BY <2>1, <3>1, <3>2, <3>3, InvocationSteps
  <2> QED BY <2>2, <2>3
<1>3. CASE Send(w)
  <2>1. PICK ok \in BOOLEAN : Becomes(w, [worker[w] EXCEPT !.at = "record", !.sent = ok])
    BY <1>3 DEF Send
  <2> DEFINE n == [worker[w] EXCEPT !.at = "record", !.sent = ok]
  <2>2. worker[w].at = "send" /\ worker[w].job \in Jobs /\ UNCHANGED <<row, completed, rowId, overran, answered>>
    BY <1>3 DEF Send, IsAt, tables, DeliveryInv, RowsHaveIds
  <2>3. n \in Invocations /\ n.at = "record" /\ n.job = worker[w].job /\ n.id = worker[w].id /\ n.signup = worker[w].signup
    BY <1>1 DEF Invocations, Places
  <2>4. n.id # 0
    BY <2>2, <2>3 DEF DeliveryInv, RowsHaveIds
  <2>5. ~overran[n.job] => n.id = row[n.job].id
    BY <2>2, <2>3 DEF DeliveryInv, OneLiveSender, Sending
  <2> HIDE DEF n
  <2> QED BY <2>1, <2>2, <2>3, <2>4, <2>5, InvocationSteps DEF n
<1>4. CASE Done(w)
  <2> DEFINE n == [Off EXCEPT !.at = "retain"]
  <2>1. n \in Invocations /\ n.at = "retain" /\ ~n.signup
    BY OffIsAnInvocation DEF Invocations, Places
  <2>2. UNCHANGED <<row, completed, rowId, overran>> /\ answered' = (answered \/ worker[w].signup)
    BY <1>4 DEF Done, tables
  <2>3. Becomes(w, Off) \/ Becomes(w, n)
    BY <1>4 DEF Done
  <2> HIDE DEF n
  <2> QED BY <2>1, <2>2, <2>3, OffIsAnInvocation, InvocationSteps
<1>5. CASE SelectDue(w)
  <2> DEFINE n == [worker[w] EXCEPT !.at = "claim", !.keys = {j \in Jobs : Claimable(j)}]
  <2>1. n \in Invocations /\ n.at = "claim" /\ n.signup = worker[w].signup
    BY <1>1 DEF Invocations, Places
  <2>2. UNCHANGED <<row, completed, rowId, overran, answered>> /\ Becomes(w, n)
    BY <1>5 DEF SelectDue, tables
  <2> HIDE DEF n
  <2> QED BY <2>1, <2>2, InvocationSteps
<1>6. CASE Dies(w)
  <2>1. UNCHANGED <<row, completed, rowId, overran, answered>> /\ Becomes(w, Off)
    BY <1>6 DEF Dies, tables, Becomes
  <2> QED BY <2>1, OffIsAnInvocation, InvocationSteps
<1> QED BY <1>2, <1>3, <1>4, <1>5, <1>6

LEMMA SignUpKeeps == ASSUME DeliveryInv, NEW w \in Workers, SignUp(w) PROVE DeliveryInv'
<1> DEFINE n == [Off EXCEPT !.at = "claim", !.signup = TRUE, !.keys = Jobs]
<1>1. n \in Invocations /\ n.at = "claim"
  BY OffIsAnInvocation DEF Invocations, Places
<1>2. /\ worker' = [worker EXCEPT ![w] = n] /\ UNCHANGED <<completed, answered, overran>>
      /\ row' = [j \in Jobs |-> IF j \in Queue THEN Queued(rowId) ELSE row[j]]
      /\ rowId' \in {rowId, rowId + 1}
  BY DEF SignUp, Becomes
<1> HIDE DEF n
<1> USE DEF DeliveryInv
<1>3. Queued(rowId) \in Rows /\ Queued(rowId).id # 0 /\ Queued(rowId).status = "pending" /\ Queued(rowId) # Absent
  BY QueuedIsARow DEF DeliveryTyped
<1>4. DeliveryTyped'
  BY <1>1, <1>2, <1>3 DEF DeliveryTyped
<1>5. RowsHaveIds'
  BY <1>1, <1>2, <1>3 DEF RowsHaveIds, DeliveryTyped
<1>6. SignUpsAreTraced'
  BY <1>2, <1>3 DEF SignUpsAreTraced, Traced, Queue, DeliveryTyped
<1>7. OneLiveSender'
  <2> SUFFICES ASSUME NEW j \in Jobs, ~overran[j]
               PROVE  /\ completed[j] = "sent" => row'[j].status \in {"absent", "sent"}
                      /\ \A v \in Workers : Sending(v, j)' =>
                           /\ row'[j].status = "sending" /\ ~row'[j].stale
                           /\ worker'[v].at # "read" => worker'[v].id = row'[j].id
                           /\ \A u \in Workers \ {v} : ~Sending(u, j)'
    BY <1>2 DEF OneLiveSender
  <2>1. \A v \in Workers : Sending(v, j)' => v # w /\ worker'[v] = worker[v] /\ Sending(v, j)
    BY <1>1, <1>2 DEF Sending, DeliveryTyped
  <2>2. CASE j \in Queue
    <3>1. row[j].status # "sending" /\ completed[j] # "sent"
      BY <2>2, AbsentIsARow DEF Queue
    <3> QED BY <2>1, <3>1 DEF OneLiveSender
  <2>3. CASE j \notin Queue
    BY <1>2, <2>1, <2>3 DEF OneLiveSender
  <2> QED BY <2>2, <2>3
<1> QED BY <1>4, <1>5, <1>6, <1>7

\* A row that changes keeps its id.
SameRow(r, q) == q \in Rows /\ q.status # "absent" /\ q.id = r.id

LEMMA RowsChange ==
  ASSUME DeliveryInv, NEW J \in SUBSET Jobs, NEW q,
         \A j \in J : row[j].status # "absent" /\ SameRow(row[j], q[j]),
         row' = [j \in Jobs |-> IF j \in J THEN q[j] ELSE row[j]]
  PROVE  /\ row' \in [Jobs -> Rows]
         /\ \A j \in Jobs : IF row'[j].status = "absent" THEN row'[j] = Absent ELSE row'[j].id # 0
         /\ \A j \in Jobs : row'[j].id = row[j].id /\ (row[j] # Absent => row'[j] # Absent)
BY AbsentIsARow DEF DeliveryInv, DeliveryTyped, RowsHaveIds, SameRow

LEMMA ClaimKeeps == ASSUME DeliveryInv, NEW w \in Workers, Claim(w) PROVE DeliveryInv'
<1>1. worker[w] \in Invocations /\ worker[w].at = "claim"
  BY DEF DeliveryInv, DeliveryTyped, Claim, IsAt
<1>2. PICK j \in worker[w].keys :
        IF Claimable(j)
        THEN /\ row' = [row EXCEPT ![j].status = "sending", ![j].stale = FALSE]
             /\ Becomes(w, [worker[w] EXCEPT !.at = "read", !.job = j])
        ELSE Becomes(w, [worker[w] EXCEPT !.keys = @ \ {j}]) /\ UNCHANGED row
  BY DEF Claim
<1>3. j \in Jobs /\ UNCHANGED <<completed, rowId, answered, overran>>
  BY <1>1 DEF Claim, Invocations
<1>4. CASE Claimable(j)
  <2> DEFINE n == [worker[w] EXCEPT !.at = "read", !.job = j]
             q == [i \in {j} |-> [row[j] EXCEPT !.status = "sending", !.stale = FALSE]]
  <2>1. n \in Invocations /\ n.at = "read" /\ n.job = j /\ n.signup = worker[w].signup
    BY <1>1, <1>3 DEF Invocations, Places
  <2>2. row[j] \in Rows /\ row[j].status \in {"pending", "failed"}
    BY <1>3, <1>4 DEF DeliveryInv, DeliveryTyped, Claimable
  <2>3. SameRow(row[j], q[j]) /\ q[j].status = "sending" /\ ~q[j].stale
    BY <2>2 DEF SameRow, Rows
  <2>4. row' = [i \in Jobs |-> IF i \in {j} THEN q[i] ELSE row[i]]
    BY <1>2, <1>4 DEF DeliveryInv, DeliveryTyped
  <2>5. worker' = [worker EXCEPT ![w] = n]
    BY <1>2, <1>4 DEF Becomes
  <2> HIDE DEF n, q
  <2>6. /\ row' \in [Jobs -> Rows]
        /\ \A i \in Jobs : IF row'[i].status = "absent" THEN row'[i] = Absent ELSE row'[i].id # 0
        /\ \A i \in Jobs : row'[i].id = row[i].id /\ (row[i] # Absent => row'[i] # Absent)
    BY <1>3, <2>2, <2>3, <2>4, RowsChange
  <2>7. /\ worker'[w] = n /\ \A v \in Workers \ {w} : worker'[v] = worker[v]
        /\ row'[j] = q[j] /\ \A i \in Jobs \ {j} : row'[i] = row[i]
    BY <1>3, <2>4, <2>5 DEF DeliveryInv, DeliveryTyped
  <2>8. DeliveryTyped'
    BY <1>3, <2>1, <2>5, <2>6 DEF DeliveryInv, DeliveryTyped
  <2>9. RowsHaveIds'
    BY <1>3, <2>1, <2>6, <2>7 DEF DeliveryInv, RowsHaveIds
  <2>10. SignUpsAreTraced'
    BY <1>3, <2>1, <2>6, <2>7 DEF DeliveryInv, SignUpsAreTraced, Traced
  <2>11. OneLiveSender'
    BY <1>3, <2>1, <2>2, <2>3, <2>7, <1>1 DEF DeliveryInv, OneLiveSender, Sending
  <2> QED BY <2>8, <2>9, <2>10, <2>11 DEF DeliveryInv
<1>5. CASE ~Claimable(j)
  <2> DEFINE n == [worker[w] EXCEPT !.keys = @ \ {j}]
  <2>1. n \in Invocations /\ n.at = "claim" /\ n.signup = worker[w].signup
    BY <1>1 DEF Invocations
  <2>2. Becomes(w, n) /\ UNCHANGED row
    BY <1>2, <1>5
  <2> HIDE DEF n
  <2> QED BY <1>3, <2>1, <2>2, InvocationSteps
<1> QED BY <1>4, <1>5

\* The steps of the cron job and of time on the rows.
LEMMA AgeingKeeps ==
  ASSUME DeliveryInv, (\E w \in Workers : RetryStale(w)) \/ \E j \in Jobs : BecomesDue(j) \/ TenMinutes(j) \/ ThirtyDays(j)
  PROVE  DeliveryInv'
<1>1. ASSUME NEW w \in Workers, RetryStale(w) PROVE DeliveryInv'
  <2> DEFINE n == [Off EXCEPT !.at = "select"]
             q == [j \in Interrupted |-> [row[j] EXCEPT !.status = "failed"]]
  <2>1. n \in Invocations /\ n.at = "select" /\ ~n.signup
    BY OffIsAnInvocation DEF Invocations, Places
  <2>2. \A j \in Interrupted : /\ j \in Jobs /\ row[j] \in Rows /\ row[j].status = "sending" /\ row[j].stale
                                /\ SameRow(row[j], q[j])
    BY DEF Interrupted, SameRow, Rows, DeliveryInv, DeliveryTyped
  <2>3. /\ row' = [j \in Jobs |-> IF j \in Interrupted THEN q[j] ELSE row[j]]
        /\ worker' = [worker EXCEPT ![w] = n] /\ UNCHANGED <<completed, rowId, answered, overran>>
    BY <1>1 DEF RetryStale, Becomes
  <2> HIDE DEF n, q
  <2>4. /\ row' \in [Jobs -> Rows]
        /\ \A i \in Jobs : IF row'[i].status = "absent" THEN row'[i] = Absent ELSE row'[i].id # 0
        /\ \A i \in Jobs : row'[i].id = row[i].id /\ (row[i] # Absent => row'[i] # Absent)
    BY <2>2, <2>3, RowsChange
  <2>5. /\ worker'[w] = n /\ \A v \in Workers \ {w} : worker'[v] = worker[v]
        /\ \A i \in Jobs \ Interrupted : row'[i] = row[i]
    BY <2>3 DEF DeliveryInv, DeliveryTyped
  <2>6. DeliveryTyped'
    BY <2>1, <2>3, <2>4 DEF DeliveryInv, DeliveryTyped
  <2>7. RowsHaveIds'
    BY <2>1, <2>4, <2>5 DEF DeliveryInv, RowsHaveIds
  <2>8. SignUpsAreTraced'
    BY <2>1, <2>3, <2>4, <2>5 DEF DeliveryInv, SignUpsAreTraced, Traced
  <2>9. OneLiveSender'
    BY <2>1, <2>2, <2>3, <2>5 DEF DeliveryInv, OneLiveSender, Sending
  <2> QED BY <2>6, <2>7, <2>8, <2>9 DEF DeliveryInv
<1>2. ASSUME NEW j \in Jobs, BecomesDue(j) \/ TenMinutes(j) \/ ThirtyDays(j) PROVE DeliveryInv'
  <2> DEFINE Ages(r) == /\ row' = [row EXCEPT ![j] = r]
                        /\ r \in Rows /\ r.status = row[j].status /\ r.id = row[j].id
                        /\ r.stale => row[j].stale \/ overran'[j] \/ \A w \in Workers : ~Sending(w, j)
  <2>1. /\ row[j] \in Rows /\ row[j].status # "absent"
        /\ UNCHANGED <<completed, rowId, answered, worker>> /\ overran' \in [Jobs -> BOOLEAN]
        /\ \A i \in Jobs : overran[i] => overran'[i]
    BY <1>2 DEF BecomesDue, TenMinutes, ThirtyDays, DeliveryInv, DeliveryTyped, RowsHaveIds
  <2>2. \E r : Ages(r)
    <3>1. CASE BecomesDue(j)
      <4> DEFINE r == [row[j] EXCEPT !.due = TRUE]
      <4>1. r \in Rows /\ r.status = row[j].status /\ r.id = row[j].id /\ r.stale = row[j].stale
        BY <2>1 DEF Rows
      <4>2. row' = [row EXCEPT ![j] = r]
        BY <3>1 DEF BecomesDue, DeliveryInv, DeliveryTyped
      <4> QED BY <4>1, <4>2
    <3>2. CASE TenMinutes(j)
      <4> DEFINE r == [row[j] EXCEPT !.stale = TRUE]
      <4>1. r \in Rows /\ r.status = row[j].status /\ r.id = row[j].id
        BY <2>1 DEF Rows
      <4>2. row' = [row EXCEPT ![j] = r]
        BY <3>2 DEF TenMinutes, DeliveryInv, DeliveryTyped
      <4>3. overran'[j] \/ Abandoned(j)
        BY <3>2 DEF TenMinutes, DeliveryInv, DeliveryTyped
      <4>4. overran'[j] \/ \A w \in Workers : ~Sending(w, j)
        BY <4>3 DEF Abandoned
      <4> QED BY <4>1, <4>2, <4>4
    <3>3. CASE ThirtyDays(j)
      <4> DEFINE r == [row[j] EXCEPT !.old = TRUE]
      <4>1. r \in Rows /\ r.status = row[j].status /\ r.id = row[j].id /\ r.stale = row[j].stale
        BY <2>1 DEF Rows
      <4>2. row' = [row EXCEPT ![j] = r]
        BY <3>3 DEF ThirtyDays, DeliveryInv, DeliveryTyped
      <4> QED BY <4>1, <4>2
    <3> QED BY <1>2, <3>1, <3>2, <3>3
  <2>3. PICK r : Ages(r)
    BY <2>2
  <2>4. row \in [Jobs -> Rows] /\ row'[j] = r /\ \A i \in Jobs \ {j} : row'[i] = row[i]
    BY <2>3 DEF DeliveryInv, DeliveryTyped
  <2>5. row' \in [Jobs -> Rows]
    BY <2>3, <2>4
  <2>6. r.status # "absent" /\ r.id # 0 /\ r # Absent
    BY <2>1, <2>3, AbsentIsARow DEF DeliveryInv, RowsHaveIds
  <2>7. DeliveryTyped'
    BY <2>1, <2>5 DEF DeliveryInv, DeliveryTyped
  <2>8. RowsHaveIds'
    BY <2>1, <2>4, <2>6 DEF DeliveryInv, RowsHaveIds
  <2>9. SignUpsAreTraced'
    BY <2>1, <2>4, <2>6 DEF DeliveryInv, SignUpsAreTraced, Traced
  <2>10. OneLiveSender'
    BY <2>1, <2>3, <2>4 DEF DeliveryInv, OneLiveSender, Sending
  <2> QED BY <2>7, <2>8, <2>9, <2>10 DEF DeliveryInv
<1> QED BY <1>1, <1>2

LEMMA RecordKeeps == ASSUME DeliveryInv, NEW w \in Workers, Record(w) PROVE DeliveryInv'
<1> DEFINE j == worker[w].job
           n == Finished(w)
           o == Outcome(w)
           q == [i \in {j} |-> [row[j] EXCEPT !.status = o, !.attempts = Attempts(w),
                                              !.due = IF o = "sent" THEN @ ELSE FALSE]]
<1>1. worker[w] \in Invocations /\ worker[w].at = "record" /\ j \in Jobs /\ worker[w].id # 0 /\ row[j] \in Rows
  BY DEF DeliveryInv, DeliveryTyped, RowsHaveIds, Record, IsAt
<1>2. o \in {"sent", "dead", "failed"}
  BY DEF Outcome
<1>3. n \in Invocations /\ n.at = "claim" /\ n.signup = worker[w].signup
  BY <1>1 DEF Finished, Invocations, Places, NoJob
<1>4. /\ worker' = [worker EXCEPT ![w] = n] /\ UNCHANGED <<rowId, answered, overran>>
      /\ worker'[w] = n /\ \A v \in Workers \ {w} : worker'[v] = worker[v]
  BY DEF Record, Becomes, DeliveryInv, DeliveryTyped
<1>5. /\ row[j].id # worker[w].id => row' = row
      /\ row[j].id = worker[w].id => row' = [i \in Jobs |-> IF i \in {j} THEN q[i] ELSE row[i]]
  <2>1. row \in [Jobs -> Rows]
    BY DEF DeliveryInv, DeliveryTyped
  <2>2. row[j].id = worker[w].id =>
          row' = [row EXCEPT ![j] = [row[j] EXCEPT !.status = o, !.attempts = Attempts(w),
                                                   !.due = IF o = "sent" THEN @ ELSE FALSE]]
    BY <1>1, <2>1 DEF Record, Rows
  <2> QED BY <1>1, <2>1, <2>2 DEF Record
<1>6. /\ completed' \in [Jobs -> {"no", "sent", "dead"}]
      /\ \A i \in Jobs : completed[i] # "no" => completed'[i] = completed[i]
      /\ \A i \in Jobs : completed'[i] = completed[i] \/ (i = j /\ completed'[i] = o)
  BY <1>1, <1>2 DEF Record, Complete, Closes, DeliveryInv, DeliveryTyped
<1>7. SameRow(row[j], q[j]) /\ q[j].status = o
  <2> DEFINE d == IF o = "sent" THEN row[j].due ELSE FALSE
             r == [row[j] EXCEPT !.status = o, !.attempts = Attempts(w), !.due = d]
  <2>0. worker[w].attempts \in Nat /\ row[j].due \in BOOLEAN
    BY <1>1 DEF Invocations, Rows
  <2>1. Attempts(w) \in Nat /\ d \in BOOLEAN
    <3>1. Attempts(w) \in Nat
      BY <2>0 DEF Attempts
    <3>2. d \in BOOLEAN
      <4>1. CASE o = "sent" BY <2>0, <4>1
      <4>2. CASE o # "sent" BY <4>2
      <4> QED BY <4>1, <4>2
    <3> QED BY <3>1, <3>2
  <2>2. q[j] = r
    BY <1>1 DEF Rows
  <2> HIDE DEF d, q, o
  <2>3. r \in Rows /\ r.status = o /\ r.id = row[j].id
    BY <1>1, <1>2, <2>1 DEF Rows
  <2> HIDE DEF r
  <2> QED BY <1>2, <2>2, <2>3 DEF SameRow
<1>8. row[j].id = worker[w].id => row[j].status # "absent"
  BY <1>1, AbsentIsARow DEF DeliveryInv, RowsHaveIds
<1> HIDE DEF n, o, q
<1>9. /\ row' \in [Jobs -> Rows]
      /\ \A i \in Jobs : IF row'[i].status = "absent" THEN row'[i] = Absent ELSE row'[i].id # 0
      /\ \A i \in Jobs : row'[i].id = row[i].id /\ (row[i] # Absent => row'[i] # Absent)
  <2>1. CASE row[j].id = worker[w].id
    <3>1. {j} \in SUBSET Jobs /\ row' = [i \in Jobs |-> IF i \in {j} THEN q[i] ELSE row[i]]
      BY <1>1, <1>5, <2>1
    <3>2. \A i \in {j} : row[i].status # "absent" /\ SameRow(row[i], q[i])
      BY <1>7, <1>8, <2>1
    <3> QED BY <3>1, <3>2, RowsChange
  <2>2. CASE row[j].id # worker[w].id
    BY <1>5, <2>2 DEF DeliveryInv, DeliveryTyped, RowsHaveIds
  <2> QED BY <2>1, <2>2
<1>10. /\ \A i \in Jobs \ {j} : row'[i] = row[i]
       /\ row[j].id = worker[w].id => row'[j] = q[j]
  BY <1>1, <1>5
<1>11. DeliveryTyped'
  BY <1>3, <1>4, <1>6, <1>9 DEF DeliveryInv, DeliveryTyped
<1>12. RowsHaveIds'
  BY <1>3, <1>4, <1>9 DEF DeliveryInv, RowsHaveIds
<1>13. SignUpsAreTraced'
  BY <1>3, <1>4, <1>6, <1>9 DEF DeliveryInv, SignUpsAreTraced, Traced
<1>14. OneLiveSender'
  <2> SUFFICES ASSUME NEW i \in Jobs, ~overran[i]
               PROVE  /\ completed'[i] = "sent" => row'[i].status \in {"absent", "sent"}
                      /\ \A v \in Workers : Sending(v, i)' =>
                           /\ row'[i].status = "sending" /\ ~row'[i].stale
                           /\ worker'[v].at # "read" => worker'[v].id = row'[i].id
                           /\ \A u \in Workers \ {v} : ~Sending(u, i)'
    BY <1>4 DEF OneLiveSender
  <2>1. \A v \in Workers : Sending(v, i)' => v # w /\ Sending(v, i) /\ worker'[v] = worker[v]
    BY <1>3, <1>4 DEF Sending
  <2>2. CASE i = j
    <3>1. Sending(w, j)
      BY <1>1 DEF Sending
    <3>2. row[j].id = worker[w].id /\ row[j].status = "sending" /\ \A v \in Workers \ {w} : ~Sending(v, j)
      BY <1>1, <2>2, <3>1 DEF DeliveryInv, OneLiveSender
    <3>3. completed[j] # "sent"
      BY <2>2, <3>2 DEF DeliveryInv, OneLiveSender
    <3> QED BY <1>6, <1>7, <1>10, <2>1, <2>2, <3>2, <3>3
  <2>3. CASE i # j
    BY <1>6, <1>10, <2>1, <2>3 DEF DeliveryInv, OneLiveSender
  <2> QED BY <2>2, <2>3
<1> QED BY <1>11, <1>12, <1>13, <1>14 DEF DeliveryInv

LEMMA RetainKeeps == ASSUME DeliveryInv, NEW w \in Workers, RetainRows(w) PROVE DeliveryInv'
<1>1. CASE Becomes(w, Off) /\ UNCHANGED <<row, completed>>
  <2>1. UNCHANGED <<row, completed, rowId, overran, answered>>
    BY <1>1 DEF RetainRows
  <2> QED BY <1>1, <2>1, OffIsAnInvocation, InvocationSteps
<1>2. ASSUME NEW j \in Expired, Complete(j, row[j].status), row' = [row EXCEPT ![j] = Absent], UNCHANGED worker
      PROVE  DeliveryInv'
  <2>1. j \in Jobs /\ row[j].status \in {"sent", "dead"} /\ UNCHANGED <<rowId, answered, overran>>
    BY DEF Expired, RetainRows
  <2>2. /\ completed' \in [Jobs -> {"no", "sent", "dead"}] /\ completed'[j] # "no"
        /\ \A i \in Jobs : completed[i] # "no" => completed'[i] = completed[i]
        /\ \A i \in Jobs \ {j} : completed'[i] = completed[i]
    BY <1>2, <2>1 DEF Complete, DeliveryInv, DeliveryTyped
  <2>3. row'[j] = Absent /\ \A i \in Jobs \ {j} : row'[i] = row[i]
    BY <1>2, <2>1 DEF DeliveryInv, DeliveryTyped
  <2>4. DeliveryTyped'
    BY <1>2, <2>1, <2>2, AbsentIsARow DEF DeliveryInv, DeliveryTyped
  <2>5. RowsHaveIds'
    BY <1>2, <2>3, AbsentIsARow DEF DeliveryInv, RowsHaveIds
  <2>6. SignUpsAreTraced'
    BY <1>2, <2>1, <2>2, <2>3 DEF DeliveryInv, SignUpsAreTraced, Traced
  <2>7. OneLiveSender'
    BY <1>2, <2>1, <2>2, <2>3, AbsentIsARow DEF DeliveryInv, OneLiveSender, Sending
  <2> QED BY <2>4, <2>5, <2>6, <2>7 DEF DeliveryInv
<1> QED BY <1>1, <1>2 DEF RetainRows

LEMMA DeliverySteps == DeliveryInv /\ [DeliveryNext]_deliveryVars => DeliveryInv'
<1> SUFFICES ASSUME DeliveryInv, [DeliveryNext]_deliveryVars PROVE DeliveryInv'
  OBVIOUS
<1>1. CASE UNCHANGED deliveryVars
  BY <1>1 DEF deliveryVars, tables, DeliveryInv, DeliveryTyped, RowsHaveIds, SignUpsAreTraced, Traced, OneLiveSender, Sending
<1> QED BY <1>1, QuietSteps, SignUpKeeps, ClaimKeeps, AgeingKeeps, RecordKeeps, RetainKeeps DEF DeliveryNext, Step

-----------------------------------------------------------------------------
(* The sign-up and its emails: the theorems *)

\* However many requests and cron runs overlap and wherever they end, who got an answer has each of
\* the emails queued or completed, retention included (handleBetaAccess, applyRetention).
THEOREM AnswersAreKept == DeliverySpec => []NoJobIsLost
<1>1. DeliveryInv => NoJobIsLost
  BY DEF DeliveryInv, SignUpsAreTraced, Traced, NoJobIsLost
<1> QED BY <1>1, DeliveryStarts, DeliverySteps, PTL DEF DeliverySpec

\* A row that is absent appears by a sign-up alone.
LEMMA RowsAppearBySignUp ==
  ASSUME DeliveryInv, [DeliveryNext]_deliveryVars, NEW j \in Jobs, row[j] = Absent, completed[j] # "no"
  PROVE  row'[j] = Absent
<1>1. row[j].status = "absent" /\ row[j].id = 0 /\ row \in [Jobs -> Rows]
  BY AbsentIsARow DEF DeliveryInv, DeliveryTyped
<1>2. ASSUME NEW w \in Workers, SignUp(w) PROVE row'[j] = row[j]
  BY <1>2 DEF SignUp, Queue
<1>3. ASSUME NEW w \in Workers, RetryStale(w) PROVE row'[j] = row[j]
  BY <1>1, <1>3 DEF RetryStale, Interrupted
<1>4. ASSUME NEW w \in Workers, Claim(w) PROVE row'[j] = row[j]
  BY <1>1, <1>4 DEF Claim, Claimable
<1>5. ASSUME NEW w \in Workers, Record(w) PROVE row'[j] = row[j]
  BY <1>1, <1>5 DEF Record, IsAt, DeliveryInv, RowsHaveIds
<1>6. ASSUME NEW w \in Workers, RetainRows(w) PROVE row'[j] = Absent
  BY <1>1, <1>6 DEF RetainRows
<1>7. ASSUME NEW w \in Workers, ReadRow(w) \/ Send(w) \/ Done(w) \/ SelectDue(w) \/ Dies(w) PROVE row'[j] = row[j]
  BY <1>7 DEF ReadRow, Send, Done, SelectDue, Dies, tables
<1>8. ASSUME NEW i \in Jobs, BecomesDue(i) \/ TenMinutes(i) \/ ThirtyDays(i) PROVE row'[j] = row[j]
  BY <1>1, <1>8 DEF BecomesDue, TenMinutes, ThirtyDays
<1>9. CASE UNCHANGED deliveryVars
  BY <1>9 DEF deliveryVars, tables
<1> QED BY <1>2, <1>3, <1>4, <1>5, <1>6, <1>7, <1>8, <1>9 DEF DeliveryNext, Step

\* A completed email is never queued again, even when retention has removed its row and a sender
\* that read it earlier still has to record its outcome (handleBetaAccess, sendDeliveries).
THEOREM CompletedStaysClosed == DeliverySpec => NotQueuedAgain
<1>1. DeliveryInv /\ [DeliveryNext]_deliveryVars =>
        [\A j \in Jobs : completed[j] # "no" /\ row[j] = Absent => row'[j] = Absent]_deliveryVars
  BY RowsAppearBySignUp
<1> QED BY <1>1, DeliveryStarts, DeliverySteps, PTL DEF DeliverySpec, NotQueuedAgain

\* Who claims an email finds it pending or failed: it has no sender and was not completed as sent.
LEMMA ClaimsAreAlone ==
  ASSUME DeliveryInv, [DeliveryNext]_deliveryVars, NEW w \in Workers, NEW j \in Jobs, Claims(w, j), ~overran[j]
  PROVE  completed[j] # "sent" /\ \A v \in Workers : ~Sending(v, j)
<1>1. worker[w].at = "claim" /\ worker'[w].at = "read" /\ worker'[w].job = j /\ worker \in [Workers -> Invocations]
  BY DEF Claims, IsAt, DeliveryInv, DeliveryTyped
<1>2. Claim(w)
  <2> SUFFICES ASSUME ~Claim(w) PROVE worker'[w] = worker[w] \/ worker'[w].at # "read"
    BY <1>1
  <2>2. ASSUME NEW v \in Workers, v # w, Step(v) PROVE worker'[w] = worker[w]
    BY <1>1, <2>2 DEF Step, Claim, ReadRow, Send, Record, Done, SelectDue, RetainRows, Becomes
  <2>3. CASE Step(w)
    <3>1. ~ReadRow(w) /\ ~Send(w) /\ ~Record(w) /\ ~RetainRows(w)
      BY <1>1 DEF ReadRow, Send, Record, RetainRows, IsAt
    <3>2. CASE Done(w)
      BY <1>1, <3>2 DEF Done, Becomes, Off
    <3>3. ~SelectDue(w)
      BY <1>1 DEF SelectDue, IsAt
    <3> QED BY <2>3, <3>1, <3>2, <3>3 DEF Step
  <2>4. ASSUME NEW v \in Workers, SignUp(v) \/ RetryStale(v) \/ Dies(v)
        PROVE  worker'[w] = worker[w] \/ worker'[w].at # "read"
    <3> DEFINE s == [Off EXCEPT !.at = "claim", !.signup = TRUE, !.keys = Jobs]
               c == [Off EXCEPT !.at = "select"]
    <3>1. s.at # "read" /\ c.at # "read" /\ Off.at # "read"
      BY OffIsAnInvocation DEF Off
    <3>2. Becomes(v, s) \/ Becomes(v, c) \/ Becomes(v, Off)
      BY <2>4 DEF SignUp, RetryStale, Dies, Becomes
    <3> HIDE DEF s, c
    <3> QED BY <1>1, <3>1, <3>2 DEF Becomes
  <2>5. ASSUME NEW i \in Jobs, BecomesDue(i) \/ TenMinutes(i) \/ ThirtyDays(i) PROVE worker' = worker
    BY <2>5 DEF BecomesDue, TenMinutes, ThirtyDays
  <2>6. CASE UNCHANGED deliveryVars
    BY <2>6 DEF deliveryVars
  <2> QED BY <2>2, <2>3, <2>4, <2>5, <2>6 DEF DeliveryNext
<1>3. Claimable(j)
  <2>1. PICK i \in worker[w].keys :
          IF Claimable(i) THEN Becomes(w, [worker[w] EXCEPT !.at = "read", !.job = i])
          ELSE Becomes(w, [worker[w] EXCEPT !.keys = @ \ {i}])
    BY <1>2 DEF Claim
  <2>2. worker[w] \in Invocations
    BY <1>1
  <2>3. CASE Claimable(i)
    <3>1. worker'[w] = [worker[w] EXCEPT !.at = "read", !.job = i]
      BY <1>1, <2>1, <2>3 DEF Becomes
    <3> QED BY <1>1, <2>2, <2>3, <3>1 DEF Invocations
  <2>4. CASE ~Claimable(i)
    <3>1. worker'[w] = [worker[w] EXCEPT !.keys = @ \ {i}]
      BY <1>1, <2>1, <2>4 DEF Becomes
    <3> QED BY <1>1, <2>2, <3>1 DEF Invocations
  <2> QED BY <2>3, <2>4
<1>4. row[j].status \in {"pending", "failed"}
  BY <1>3 DEF Claimable
<1> QED BY <1>4 DEF DeliveryInv, OneLiveSender

\* An email is in the hands of one sender, and not sent again, as long as no live sender took the ten
\* minutes after which it counts as interrupted (sendDeliveries, retryDeliveries).
THEOREM SendersAreAlone == DeliverySpec => OneSender
<1>1. DeliveryInv /\ [DeliveryNext]_deliveryVars =>
        [\A w \in Workers, j \in Jobs :
           Claims(w, j) /\ ~overran[j] => completed[j] # "sent" /\ \A v \in Workers : ~Sending(v, j)]_deliveryVars
  BY ClaimsAreAlone
<1> QED BY <1>1, DeliveryStarts, DeliverySteps, PTL DEF DeliverySpec, OneSender

=============================================================================
