----------------------------- MODULE Telemetry -----------------------------
(***************************************************************************)
(* Telemetry credentials and uploads (landing_page/_worker.js, QB-32 and   *)
(* QB-33).  Requests to the worker run concurrently over one D1 database:  *)
(* a statement or a batch runs alone, between two of them anything may     *)
(* happen, and a request may end anywhere.                                 *)
(*                                                                         *)
(* A definition that precedes the one it resembles is a seeded fault.      *)
(***************************************************************************)
EXTENDS Naturals, FiniteSets

CONSTANTS
  Requests,      \* concurrent invocations of the worker
  Addresses, Registered,
  Codes, Tokens, \* those the worker may draw, each once
  Runs,          \* run ids
  MaxLinks, MaxMetrics,  \* per address and per token, an hour
  Nothing

ASSUME TelemetryAssumption ==
  /\ Registered \subseteq Addresses
  /\ MaxLinks \in Nat \ {0} /\ MaxMetrics \in Nat \ {0}
  /\ Nothing \notin Addresses \cup Codes \cup Tokens

VARIABLES
  asked,     \* telemetry_link_requests of the last hour, per address
  link,      \* telemetry_verifications: the address of each code, Nothing without a row
  used,      \* used_at is set
  expired,   \* expires_at is over
  drawn,     \* codes drawn so far
  mailed,    \* codes whose link was sent
  token,     \* telemetry_tokens: the code each was issued for, Nothing without a row
  revoked,   \* revoked_at is set
  deleted,   \* tokens whose holder was told that the metrics are deleted
  metrics,   \* client_metrics
  at,        \* per invocation: its next step
  on         \* and the address, code or token it is about

links == <<link, used, expired>>
tokens == <<token, revoked>>
database == <<asked, links, tokens, metrics>>
request == <<at, on>>
vars == <<database, drawn, mailed, deleted, request>>

Row == [run : Runs, token : Tokens, recent : BOOLEAN]

At(q, step) == at[q] = step
Goes(q, step, x) == at' = [at EXCEPT ![q] = step] /\ on' = [on EXCEPT ![q] = x]
Answers(q) == Goes(q, "off", Nothing)

Init ==
  /\ asked = [a \in Addresses |-> 0]
  /\ link = [c \in Codes |-> Nothing] /\ used = {} /\ expired = {}
  /\ drawn = {} /\ mailed = {} /\ deleted = {}
  /\ token = [t \in Tokens |-> Nothing] /\ revoked = {}
  /\ metrics = {}
  /\ at = [q \in Requests |-> "off"] /\ on = [q \in Requests |-> Nothing]

-----------------------------------------------------------------------------
(* POST /api/telemetry/request *)

\* admit() counts every address, registered or not, in the statement that records the request.
AskLink(q) ==
  /\ At(q, "off")
  /\ \E a \in Addresses :
       IF asked[a] < MaxLinks
       THEN asked' = [asked EXCEPT ![a] = @ + 1] /\ Goes(q, "lookup", a)
       ELSE UNCHANGED <<asked, request>>
  /\ UNCHANGED <<links, drawn, mailed, tokens, deleted, metrics>>

\* Without a registration the answer is the same.
LookUp(q) ==
  /\ At(q, "lookup")
  /\ IF on[q] \in Registered THEN Goes(q, "code", on[q]) ELSE Answers(q)
  /\ UNCHANGED <<database, drawn, mailed, deleted>>

StoreCode(q) ==
  /\ At(q, "code")
  /\ \E c \in Codes \ drawn :
       /\ drawn' = drawn \cup {c}
       /\ link' = [link EXCEPT ![c] = on[q]]
       /\ Goes(q, "mail", c)
  /\ UNCHANGED <<asked, used, expired, mailed, tokens, deleted, metrics>>

\* The provider may fail; the answer does not tell.
Mail(q) ==
  /\ At(q, "mail")
  /\ \E ok \in BOOLEAN : mailed' = IF ok THEN mailed \cup {on[q]} ELSE mailed
  /\ Answers(q)
  /\ UNCHANGED <<database, drawn, deleted>>

-----------------------------------------------------------------------------
(* GET /api/telemetry/verify *)

\* The link is opened, perhaps several times at once.
ReadCode(q) ==
  /\ At(q, "off")
  /\ \E c \in mailed :
       /\ link[c] # Nothing /\ c \notin used \cup expired
       /\ Goes(q, "use", c)
  /\ UNCHANGED <<database, drawn, mailed, deleted>>

UsableAsRead(c) == link[c] # Nothing
Usable(c) == link[c] # Nothing /\ c \notin used

\* UPDATE ... WHERE used_at IS NULL: of concurrent clicks one goes on.
UseCode(q) ==
  /\ At(q, "use")
  /\ LET c == on[q] IN
       IF Usable(c)
       THEN used' = used \cup {c} /\ Goes(q, "issue", c)
       ELSE UNCHANGED used /\ Answers(q)
  /\ UNCHANGED <<asked, link, expired, drawn, mailed, tokens, deleted, metrics>>

IssueToken(q) ==
  /\ At(q, "issue")
  /\ \E t \in Tokens :
       /\ token[t] = Nothing
       /\ token' = [token EXCEPT ![t] = on[q]]
  /\ Answers(q)
  /\ UNCHANGED <<asked, links, revoked, drawn, mailed, deleted, metrics>>

-----------------------------------------------------------------------------
(* With a token *)

Active(t) == token[t] # Nothing /\ t \notin revoked

\* bearer(), for an upload, a revocation or a deletion
Authorize(q) ==
  /\ At(q, "off")
  /\ \E t \in Tokens, next \in {"insert", "revoke", "delete"} : Active(t) /\ Goes(q, next, t)
  /\ UNCHANGED <<database, drawn, mailed, deleted>>

Hourly(t) == {r \in metrics : r.token = t /\ r.recent}
AcceptAuthorized(t) == Cardinality(Hourly(t)) < MaxMetrics
Accept(t) == Active(t) /\ Cardinality(Hourly(t)) < MaxMetrics

\* INSERT ... SELECT ... WHERE the token is active and below its quota; run_id is unique.
Upload(q) ==
  /\ At(q, "insert")
  /\ \E n \in Runs :
       LET t == on[q]
           row == [run |-> n, token |-> t, recent |-> TRUE]
       IN metrics' = IF Accept(t) /\ \A r \in metrics : r.run # n THEN metrics \cup {row} ELSE metrics
  /\ Answers(q)
  /\ UNCHANGED <<asked, links, drawn, mailed, tokens, deleted>>

Revoke(q) ==
  /\ At(q, "revoke")
  /\ revoked' = revoked \cup {on[q]}
  /\ Answers(q)
  /\ UNCHANGED <<asked, links, token, drawn, mailed, deleted, metrics>>

\* One batch: the token is revoked, its metrics are deleted.
Delete(q) ==
  /\ At(q, "delete")
  /\ LET t == on[q] IN
       /\ revoked' = revoked \cup {t}
       /\ metrics' = {r \in metrics : r.token # t}
       /\ deleted' = deleted \cup {t}
  /\ Answers(q)
  /\ UNCHANGED <<asked, links, token, drawn, mailed>>

-----------------------------------------------------------------------------
(* Time, retention and failures *)

\* A request or an upload of address a, of row r, is an hour old; a code is thirty minutes old.
HourPasses ==
  /\ \/ \E a \in Addresses : asked[a] > 0 /\ asked' = [asked EXCEPT ![a] = @ - 1] /\ UNCHANGED metrics
     \/ \E r \in metrics :
          r.recent /\ metrics' = (metrics \ {r}) \cup {[r EXCEPT !.recent = FALSE]} /\ UNCHANGED asked
  /\ UNCHANGED <<links, drawn, mailed, tokens, deleted, request>>

CodeExpires ==
  /\ \E c \in Codes : link[c] # Nothing /\ c \notin expired /\ expired' = expired \cup {c}
  /\ UNCHANGED <<asked, link, used, drawn, mailed, tokens, deleted, metrics, request>>

\* applyRetention: codes after seven days, metrics after 180.
Retain ==
  /\ \/ \E c \in expired :
          /\ link' = [link EXCEPT ![c] = Nothing] /\ used' = used \ {c} /\ expired' = expired \ {c}
          /\ UNCHANGED metrics
     \/ \E r \in metrics : ~r.recent /\ metrics' = metrics \ {r} /\ UNCHANGED links
  /\ UNCHANGED <<asked, drawn, mailed, tokens, deleted, request>>

\* The invocation ends, or a statement of its fails.
Ends(q) ==
  /\ ~At(q, "off")
  /\ Answers(q)
  /\ UNCHANGED <<database, drawn, mailed, deleted>>

Next ==
  \/ \E q \in Requests :
       \/ AskLink(q) \/ LookUp(q) \/ StoreCode(q) \/ Mail(q)
       \/ ReadCode(q) \/ UseCode(q) \/ IssueToken(q)
       \/ Authorize(q) \/ Upload(q) \/ Revoke(q) \/ Delete(q) \/ Ends(q)
  \/ HourPasses \/ CodeExpires \/ Retain

Spec == Init /\ [][Next]_vars

-----------------------------------------------------------------------------
(* Properties *)

\* A link yields one token however often it is opened at once ("a concurrent second click gets
\* nothing"), and only a link that was mailed to a registered address does.
OneTokenPerLink ==
  /\ \A t, u \in Tokens : token[t] # Nothing /\ token[t] = token[u] => t = u
  /\ \A t \in Tokens : token[t] \in mailed \cup {Nothing}
  /\ \A c \in Codes : link[c] \in Registered \cup {Nothing}

\* Once a holder was told that the metrics are deleted, none of that token is there or comes back,
\* whatever uploads were authorised before ("Any upload that has not inserted yet now fails").
DeletionIsFinal ==
  \A r \in metrics : r.token \notin deleted

-----------------------------------------------------------------------------
(* Why they hold *)

TablesTyped ==
  /\ asked \in [Addresses -> 0..MaxLinks]
  /\ link \in [Codes -> Addresses \cup {Nothing}]
  /\ used \subseteq Codes /\ expired \subseteq Codes
  /\ drawn \subseteq Codes /\ mailed \subseteq Codes /\ deleted \subseteq Tokens
  /\ token \in [Tokens -> Codes \cup {Nothing}] /\ revoked \subseteq Tokens
  /\ metrics \subseteq Row
RequestsTyped ==
  /\ at \in [Requests -> {"off", "lookup", "code", "mail", "use", "issue", "insert", "revoke", "delete"}]
  /\ on \in [Requests -> Addresses \cup Codes \cup Tokens \cup {Nothing}]
TypeOK == TablesTyped /\ RequestsTyped

\* What an invocation is about, by where it is.
RequestsKnow ==
  \A q \in Requests :
    /\ At(q, "code") => on[q] \in Registered
    /\ At(q, "mail") => on[q] \in drawn
    /\ At(q, "use") \/ At(q, "issue") => on[q] \in mailed
    /\ At(q, "insert") \/ At(q, "revoke") \/ At(q, "delete") => on[q] \in Tokens /\ token[on[q]] # Nothing

\* A code is drawn, stored and mailed once.
CodesAreFresh ==
  /\ mailed \subseteq drawn
  /\ \A c \in Codes : c \notin drawn => link[c] = Nothing /\ c \notin used

\* Whoever is about to issue a token spent the code, alone, and no token was issued for it.
Spent(c) == link[c] = Nothing \/ c \in used
CodesAreSpent ==
  /\ \A q \in Requests : At(q, "issue") =>
       /\ Spent(on[q])
       /\ \A p \in Requests : At(p, "issue") /\ on[p] = on[q] => p = q
       /\ \A t \in Tokens : token[t] # on[q]
  /\ \A t \in Tokens : token[t] # Nothing => Spent(token[t])

DeletedAreRevoked == \A t \in deleted : token[t] # Nothing /\ t \in revoked

TelemetryInv ==
  TypeOK /\ RequestsKnow /\ CodesAreFresh /\ CodesAreSpent /\ DeletedAreRevoked
    /\ OneTokenPerLink /\ DeletionIsFinal

=============================================================================
