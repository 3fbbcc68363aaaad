-------------------------------- MODULE QbRun --------------------------------
(***************************************************************************)
(* One run of qb from the request to the recorded outcome (main of qb.js): *)
(* the intent session makes the contract and hands it to the pipeline.     *)
(* They share the run's mode, its outcome, its deadline and where it is.   *)
(***************************************************************************)
EXTENDS RunPipeline

CONSTANTS Rules, Measured, Defaults, MaxRounds

VARIABLES source, open, round, last, rejected, contract, evidence

sessionVars == <<source, open, round, last, rejected, contract, evidence>>

Session == INSTANCE IntentSession

QbInit == Session!Init /\ BeforeTheLoop

QbNext ==
  \/ Session!Next /\ UNCHANGED <<loopVars, attempts, remembered>>
  \/ Next /\ UNCHANGED sessionVars

QbSpec == QbInit /\ [][QbNext]_<<vars, sessionVars>>

-----------------------------------------------------------------------------
(* Properties of the session, for the whole run. *)

TermsAreSettledByTheirAnswers == Session!TermsAreSettledByTheirAnswers
OnlyReviewedContractsRun == Session!OnlyReviewedContractsRun

=============================================================================
