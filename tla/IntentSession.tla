---------------------------- MODULE IntentSession ----------------------------
(***************************************************************************)
(* How a run comes by its contract (intent/session.js, intent/dsa.js,      *)
(* intent/contract-state.js, the first layer of qb.js): vague terms of the *)
(* request are asked about, the model drafts, a rejected draft is          *)
(* corrected once, and a human approves the result, or reviewed a file.    *)
(*                                                                         *)
(* A step ends where the program awaits: the model, or its user.  The run  *)
(* goes on in RunPipeline, with which pc, mode, outcome and aborted are    *)
(* shared.  A definition that precedes the one it resembles is a seeded    *)
(* fault.                                                                  *)
(***************************************************************************)
EXTENDS Naturals, FiniteSetsExt

CONSTANTS
  Rules,      \* AMBIGUITY_RULES, numbered as in the table
  Measured,   \* those whose choice needs a value, a measurable target
  Defaults,   \* defaults a draft may propose
  MaxRounds,  \* MAX_ROUNDS
  Modes,      \* the runs: to be approved, or a dry run
  None

VARIABLES
  mode,       \* how the run was started
  pc,         \* what the run awaits: draft, correction or answer; contract, confirm; see RunPipeline
  outcome,    \* manifest.outcome
  aborted,    \* the run's deadline has passed
  source,     \* where its contract comes from: a file, a terminal's user or a batch
  open,       \* vague terms of the request that nothing has defined
  round,      \* how many answers there were
  last,       \* the last of them, with the question it is bound to
  rejected,   \* the model's draft that was rejected
  contract,   \* the contract at hand, and whether it is a correction
  evidence    \* the run record has the rejected draft

sessionVars == <<source, open, round, last, rejected, contract, evidence>>
vars == <<mode, pc, outcome, aborted, sessionVars>>

EndWith(o) == outcome' = o /\ pc' = "ended"

-----------------------------------------------------------------------------
(* Contracts and answers *)

\* A parsed draft: faulty for any reason but its defaults, and the defaults it proposes, with and
\* without a criterion that covers them.
Draft == {d \in [faulty : BOOLEAN, covered : SUBSET Defaults, uncovered : SUBSET Defaults] :
            d.covered \cap d.uncovered = {}}
Unreadable == [faulty |-> TRUE, covered |-> {}, uncovered |-> {}, syntax |-> TRUE]
Proposed(d) == d.covered \cup d.uncovered

\* contractState of a draft that asks no question.
Finalized(d) == ~d.faulty /\ d.uncovered = {}

\* "A correction may not bring in a proposed default the rejected draft had not already justified."
ValidatedOnly(d) == TRUE
Justified(d) == rejected = Unreadable \/ Proposed(d) \subseteq rejected.covered

\* An answer is a selection that names its question, or free text; it commits to a choice, supplies
\* a target, or decides nothing.
Answers == [names : Rules \cup {None}, says : {"choice", "target", "nothing"}]

\* The question asked is the first one open; without one, the model's own.
Asked == IF open = {} THEN None ELSE Min(open)
Bound(a) == IF a.names \in open THEN a.names ELSE Asked

\* applyAnswer: a bare choice of a measured rule leaves it open, behind a follow-up question.
Decides(a, r) == a.says = "target" \/ (a.says = "choice" /\ r \notin Measured)
DefinesAny(a, r) == a.names \in {None, r} /\ Decides(a, r)
Defines(a, r) == a.names \in {None, r} /\ Bound(a) = r /\ Decides(a, r)

Init ==
  /\ mode \in Modes /\ outcome = "RUNNING" /\ aborted = FALSE
  /\ \/ source = "file" /\ pc = "file" /\ open = {}
     \/ source \in {"terminal", "batch"} /\ pc = "draft" /\ open \in SUBSET Rules
  /\ round = 0 /\ last = None /\ rejected = None /\ contract = None /\ evidence = FALSE

-----------------------------------------------------------------------------
(* The session *)

\* budget.checkpoint() after compileIntent: a session that gives up late is a cancelled run.
GivesUp == EndWith(IF aborted THEN "CANCELLED" ELSE "BLOCKED")

Answered(a) ==
  /\ round' = round + 1 /\ last' = [question |-> Bound(a), answer |-> a]
  /\ open' = {r \in open : ~Defines(a, r)}
  /\ pc' = "draft"
  /\ UNCHANGED outcome

\* A question is open: the rules', before the model is called at all, or the model's.
RoundsOver == round >= MaxRounds
Question ==
  /\ pc = "draft" /\ (open = {} => ~aborted)
  /\ \/ RoundsOver /\ GivesUp /\ UNCHANGED <<round, last, open>>
     \/ ~RoundsOver /\ \E a \in Answers : Answered(a)     \* this round's --clarify
     \/ /\ ~RoundsOver
        /\ IF source = "terminal" THEN pc' = "answer" /\ UNCHANGED outcome ELSE GivesUp
        /\ UNCHANGED <<round, last, open>>
  /\ UNCHANGED <<mode, aborted, source, rejected, contract, evidence>>

UserAnswers ==
  /\ pc = "answer"
  /\ \/ \E a \in Answers : Answered(a)
     \/ GivesUp /\ UNCHANGED <<round, last, open>>
  /\ UNCHANGED <<mode, aborted, source, rejected, contract, evidence>>

\* A valid first draft is the contract; one that is not, or is not even readable, is corrected.
ModelDrafts ==
  /\ pc = "draft" /\ open = {} /\ ~aborted
  /\ \E d \in Draft \cup {Unreadable} :
       IF d # Unreadable /\ Finalized(d)
       THEN contract' = d /\ pc' = "contract" /\ UNCHANGED rejected
       ELSE rejected' = d /\ pc' = "correction" /\ UNCHANGED contract
  /\ UNCHANGED <<mode, outcome, aborted, source, open, round, last, evidence>>

\* The correction is validated from scratch and never corrected again.  Either way the rejected
\* draft goes into the run's record.
Corrected(d) == Finalized(d) /\ Justified(d)
ModelCorrects ==
  /\ pc = "correction" /\ ~aborted
  /\ \/ /\ \E d \in Draft : Corrected(d) /\ contract' = d
        /\ pc' = "contract" /\ UNCHANGED outcome
     \/ EndWith("BLOCKED") /\ UNCHANGED contract   \* invalid, unreadable, or a question
  /\ evidence' = TRUE
  /\ UNCHANGED <<mode, aborted, source, open, round, last, rejected>>

\* The call fails, or the run's deadline aborts it; error.recovery saves the rejected draft.
CallFails ==
  /\ pc = "correction" \/ (pc = "draft" /\ open = {})
  /\ EndWith(IF aborted THEN "CANCELLED" ELSE "ERROR")
  /\ evidence' = (pc = "correction")
  /\ UNCHANGED <<mode, aborted, source, open, round, last, rejected, contract>>

\* loadContractFile: what a human wrote or reviewed is validated and never corrected.
ReadContractFile ==
  /\ pc = "file"
  /\ \/ \E d \in Draft : Finalized(d) /\ contract' = d /\ pc' = "contract" /\ UNCHANGED outcome
     \/ EndWith("BLOCKED") /\ UNCHANGED contract
  /\ UNCHANGED <<mode, aborted, source, open, round, last, rejected, evidence>>

-----------------------------------------------------------------------------
(* Approval *)

\* run.setContract; the session's variables are out of scope from here on.
Proceed ==
  /\ pc' = "context"
  /\ round' = 0 /\ last' = None /\ rejected' = None /\ contract' = None
  /\ UNCHANGED <<mode, outcome, aborted, source, open, evidence>>

\* A dry run verifies nothing and needs no approval; a file was reviewed.
NeedsPromptUnlessCorrected == mode # "dry-run" /\ source # "file" /\ rejected = None
NeedsPrompt == mode # "dry-run" /\ source # "file"
Unprompted == pc = "contract" /\ ~NeedsPrompt /\ Proceed

\* Without a terminal the proposal is written for review and the run ends.
ShowContract ==
  /\ pc = "contract" /\ NeedsPrompt
  /\ IF source = "terminal" THEN pc' = "confirm" /\ UNCHANGED outcome ELSE EndWith("BLOCKED")
  /\ UNCHANGED <<mode, aborted, sessionVars>>

Approve == pc = "confirm" /\ Proceed
Decline == pc = "confirm" /\ EndWith("BLOCKED") /\ UNCHANGED <<mode, aborted, sessionVars>>

-----------------------------------------------------------------------------
(* What happens to a run *)

InSession == pc \in {"file", "draft", "correction", "answer", "contract", "confirm"}

DeadlinePasses ==
  /\ InSession /\ ~aborted
  /\ aborted' = TRUE
  /\ UNCHANGED <<mode, pc, outcome, sessionVars>>

Interrupted ==
  /\ InSession
  /\ \E o \in {"CANCELLED", "ERROR"} : EndWith(o)
  /\ UNCHANGED <<mode, aborted, sessionVars>>

Killed ==
  /\ InSession
  /\ pc' = "killed" /\ outcome' = "ABANDONED"
  /\ UNCHANGED <<mode, aborted, sessionVars>>

Next ==
  \/ Question \/ UserAnswers \/ ModelDrafts \/ ModelCorrects \/ CallFails \/ ReadContractFile
  \/ Unprompted \/ ShowContract \/ Approve \/ Decline
  \/ DeadlinePasses \/ Interrupted \/ Killed

Spec == Init /\ [][Next]_vars

-----------------------------------------------------------------------------
(* Properties *)

\* A vague term is settled by its user and nobody else: it leaves the open ones only with an answer
\* bound to its own question, which says something testable, one term with each answer; and no
\* contract is made while one is open (intent/dsa.js:6-20, intent/session.js:96-104).
TermsAreSettledByTheirAnswers ==
  [][/\ contract' # None /\ source # "file" => open = {}
     /\ \A r \in open \ open' :
          /\ round' = round + 1 /\ last'.question = r
          /\ last'.answer.says # "nothing"
          /\ r \in Measured => last'.answer.says = "target"]_vars

\* What runs was reviewed: a human approved it at the terminal or wrote it to a file, unless it is a
\* dry run; it is final; and where the model corrected itself, the correction made no choice that
\* the rejected draft had not justified, and the rejected draft is in the record (qb.js:204-273).
OnlyReviewedContractsRun ==
  [][pc # "context" /\ pc' = "context" =>
       /\ Finalized(contract) /\ open = {}
       /\ mode = "approved" => source = "file" \/ pc = "confirm"
       /\ rejected \notin {None, Unreadable} => Proposed(contract) \subseteq rejected.covered
       /\ rejected # None => evidence]_vars

=============================================================================
