----------------------------- MODULE JudgeCache -----------------------------
(***************************************************************************)
(* One piece of evidence, judged by processes that share a judge cache     *)
(* (verify/judge-cache.js; judgeOne and judgeFresh of verify/judge.js).    *)
(*                                                                         *)
(* `<key>.lock` is created and written in two steps, found stale by two    *)
(* reads, and taken over by a rename that may catch somebody else's fresh  *)
(* claim.  Several processes can therefore sample the judge for the same   *)
(* evidence; the decision is still one, because `<key>.json` is published  *)
(* with link().  A process makes one claim, so its name stands for its     *)
(* random token.                                                           *)
(***************************************************************************)
EXTENDS Naturals, FiniteSets

CONSTANTS
  Proc,        \* processes that verify this evidence
  Earlier,     \* those of them that came before, and may have died over it
  HostOf,      \* the machine each runs on
  Votes,       \* VOTE_COUNT: judge calls per judgment
  NoFile,      \* an absent claim
  MaxFaults    \* bound: deaths, the earlier ones as one, and owners that miss their heartbeats for staleMs

ASSUME JudgeCacheAssumption ==
  /\ Earlier \subseteq Proc
  /\ Votes \in Nat
  /\ MaxFaults \in Nat
  /\ \A p \in Proc, w, o \in BOOLEAN : NoFile # [owner |-> p, written |-> w, old |-> o]

VARIABLES
  entry,    \* `<key>.json`
  clean,    \* that file was not corrupt to begin with
  lock,     \* `<key>.lock`: whose, whether its content is written, whether its mtime is old
  moved,    \* each process's `<key>.lock.stale.<token>`
  pc,       \* where each process is in judgeOne
  sawOld,   \* stale()'s `st`: the claim it looked at had an old mtime
  judged,   \* stale()'s `token`: whose claim it found stale
  draft,    \* what a process's own judge calls came to
  result,   \* what its judgeOne returned
  faults    \* how many there were, as MaxFaults counts them

judgeVars == <<entry, clean, lock, moved, pc, sawOld, judged, draft, result, faults>>
disk == <<entry, lock, moved>>
memory == <<sawOld, judged, draft, result>>

Decision == {"met", "unmet", "undecided"}   \* what validJudgment lets into the cache
NoDecision == "none"
Claim == [owner : Proc, written : BOOLEAN, old : BOOLEAN]

\* From openSync to the unlink of release(), a process counts its claim as its own.
Owning == {"write", "reget", "sample", "publish", "recheck", "replace", "release", "unlink"}
Place == Owning \cup {"start", "claim", "peek", "hit", "stat", "inspect", "rename",
                      "read", "linkback", "wait", "done", "dead"}

Goto(p, l) == pc' = [pc EXCEPT ![p] = l]
Answer(p, a) == result' = [result EXCEPT ![p] = a]

JudgeInit ==
  /\ entry \in {NoDecision, "corrupt"}
  /\ clean = (entry # "corrupt")
  /\ \E dead \in SUBSET Earlier :
       /\ pc = [p \in Proc |-> IF p \in dead THEN "dead" ELSE IF p \in Earlier THEN "done" ELSE "start"]
       /\ \/ dead = {} /\ lock = NoFile /\ faults = 0
          \/ /\ faults = 1
             /\ \E p \in dead, written, old \in BOOLEAN :
                  lock = [owner |-> p, written |-> written, old |-> old]
  /\ moved = [p \in Proc |-> NoFile]
  /\ sawOld = [p \in Proc |-> FALSE]
  /\ judged = [p \in Proc |-> NoFile]
  /\ draft = [p \in Proc |-> NoDecision]
  /\ result = [p \in Proc |-> NoDecision]

-----------------------------------------------------------------------------
(* Waiting for the claim, or for somebody's decision *)

Lookup(p) ==
  /\ pc[p] = "start"
  /\ IF entry \in Decision
     THEN Answer(p, entry) /\ Goto(p, "done")
     ELSE UNCHANGED result /\ Goto(p, "claim")
  /\ UNCHANGED <<disk, sawOld, judged, draft, clean, faults>>

\* The run was aborted: no decision, and no file is touched.
Cancel(p) ==
  /\ pc[p] = "claim"
  /\ Answer(p, "unjudged")
  /\ Goto(p, "done")
  /\ UNCHANGED <<disk, sawOld, judged, draft, clean, faults>>

\* openSync(lf, 'wx')
OpenClaim(p) ==
  /\ pc[p] = "claim"
  /\ IF lock = NoFile
     THEN lock' = [owner |-> p, written |-> FALSE, old |-> FALSE] /\ Goto(p, "write")
     ELSE UNCHANGED lock /\ Goto(p, "peek")
  /\ UNCHANGED <<entry, moved, memory, clean, faults>>

\* writeSync goes to the file that was opened, wherever it is by now.
WriteClaim(p) ==
  /\ pc[p] = "write"
  /\ LET Fill(f) == IF f # NoFile /\ f.owner = p THEN [f EXCEPT !.written = TRUE] ELSE f
     IN /\ lock' = Fill(lock)
        /\ moved' = [q \in Proc |-> Fill(moved[q])]
  /\ Goto(p, "reget")
  /\ UNCHANGED <<entry, memory, clean, faults>>

Peek(p) ==
  /\ pc[p] = "peek"
  /\ Goto(p, IF entry \in Decision THEN "hit" ELSE "stat")
  /\ UNCHANGED <<disk, memory, clean, faults>>

Hit(p) ==
  /\ pc[p] = "hit"
  /\ Answer(p, entry)
  /\ Goto(p, "done")
  /\ UNCHANGED <<disk, sawOld, judged, draft, clean, faults>>

\* stale(): statSync, then readFileSync; a file that is gone or has no content is not stale.
Stat(p) ==
  /\ pc[p] = "stat"
  /\ IF lock = NoFile
     THEN UNCHANGED sawOld /\ Goto(p, "wait")
     ELSE sawOld' = [sawOld EXCEPT ![p] = lock.old] /\ Goto(p, "inspect")
  /\ UNCHANGED <<disk, judged, draft, result, clean, faults>>

DeadHere(p, q) == HostOf[p] = HostOf[q] /\ pc[q] = "dead"

Inspect(p) ==
  /\ pc[p] = "inspect"
  /\ IF lock # NoFile /\ lock.written /\ (sawOld[p] \/ DeadHere(p, lock.owner))
     THEN judged' = [judged EXCEPT ![p] = lock.owner] /\ Goto(p, "rename")
     ELSE UNCHANGED judged /\ Goto(p, "wait")
  /\ sawOld' = [sawOld EXCEPT ![p] = FALSE]
  /\ UNCHANGED <<disk, draft, result, clean, faults>>

\* The deadline check, which only an iteration that found no stale claim reaches.
Poll(p) ==
  /\ pc[p] = "wait"
  /\ Goto(p, "claim")
  /\ UNCHANGED <<disk, memory, clean, faults>>

TimeOut(p) ==
  /\ pc[p] = "wait"
  /\ Answer(p, "unjudged")
  /\ Goto(p, "done")
  /\ UNCHANGED <<disk, sawOld, judged, draft, clean, faults>>

-----------------------------------------------------------------------------
(* Taking over a stale claim *)

\* renameSync moves whatever is there; where there is nothing, another waiter was first.
MoveAside(p) ==
  /\ pc[p] = "rename"
  /\ IF lock = NoFile
     THEN /\ judged' = [judged EXCEPT ![p] = NoFile]
          /\ UNCHANGED <<lock, moved>>
          /\ Goto(p, "claim")
     ELSE /\ moved' = [moved EXCEPT ![p] = lock]
          /\ lock' = NoFile
          /\ UNCHANGED judged
          /\ Goto(p, "read")
  /\ UNCHANGED <<entry, sawOld, draft, result, clean, faults>>

\* A claim with no content yet cannot be read: it stays where it was moved.
ReadMoved(p) ==
  /\ pc[p] = "read"
  /\ IF moved[p].written /\ moved[p].owner # judged[p]
     THEN UNCHANGED moved /\ Goto(p, "linkback")
     ELSE moved' = [moved EXCEPT ![p] = NoFile] /\ Goto(p, "claim")
  /\ judged' = [judged EXCEPT ![p] = NoFile]
  /\ UNCHANGED <<entry, lock, sawOld, draft, result, clean, faults>>

\* linkSync fails if someone claimed meanwhile: the claim that was moved is lost.
LinkBack(p) ==
  /\ pc[p] = "linkback"
  /\ lock' = IF lock = NoFile THEN moved[p] ELSE lock
  /\ moved' = [moved EXCEPT ![p] = NoFile]
  /\ Goto(p, "claim")
  /\ UNCHANGED <<entry, memory, clean, faults>>

-----------------------------------------------------------------------------
(* Judging *)

ReLookupSkipped(p) ==
  /\ pc[p] = "reget"
  /\ Goto(p, "sample")
  /\ UNCHANGED <<disk, memory, clean, faults>>

\* After claiming, the cache is re-read before sampling.
ReLookup(p) ==
  /\ pc[p] = "reget"
  /\ IF entry \in Decision
     THEN Answer(p, entry) /\ Goto(p, "release")
     ELSE UNCHANGED result /\ Goto(p, "sample")
  /\ UNCHANGED <<disk, sawOld, judged, draft, clean, faults>>

\* A strict majority decides; a malformed or failed call votes for nothing, and calls that all
\* failed are no judgment.  What was not shown in full is never met.
Count(votes, v) == Cardinality({i \in DOMAIN votes : votes[i] = v})
Majority(votes, v) == Count(votes, v) >= (Votes \div 2) + 1
Judgment(votes, missing) ==
  IF Count(votes, "failed") = Votes THEN "unjudged"
  ELSE IF Majority(votes, "yes") /\ ~missing THEN "met"
  ELSE IF Majority(votes, "no") THEN "unmet"
  ELSE "undecided"

\* judgeFresh; publish() returns at once what it does not let into the cache.
Sample(p) ==
  /\ pc[p] = "sample"
  /\ \E votes \in [1..Votes -> {"yes", "no", "null", "failed"}], missing \in BOOLEAN :
       LET j == Judgment(votes, missing)
       IN IF j \in Decision
          THEN draft' = [draft EXCEPT ![p] = j] /\ UNCHANGED result /\ Goto(p, "publish")
          ELSE Answer(p, j) /\ UNCHANGED draft /\ Goto(p, "release")
  /\ UNCHANGED <<disk, sawOld, judged, clean, faults>>

PublishByRename(p) ==
  /\ pc[p] = "publish"
  /\ entry' = draft[p]
  /\ Answer(p, draft[p])
  /\ Goto(p, "release")
  /\ UNCHANGED <<lock, moved, sawOld, judged, draft, clean, faults>>

\* linkSync(tmp, file): the first published decision is the one.
Publish(p) ==
  /\ pc[p] = "publish"
  /\ IF entry = NoDecision
     THEN entry' = draft[p] /\ Answer(p, draft[p]) /\ Goto(p, "release")
     ELSE UNCHANGED <<entry, result>> /\ Goto(p, "recheck")
  /\ UNCHANGED <<lock, moved, sawOld, judged, draft, clean, faults>>

Recheck(p) ==
  /\ pc[p] = "recheck"
  /\ IF entry \in Decision
     THEN Answer(p, entry) /\ Goto(p, "release")
     ELSE UNCHANGED result /\ Goto(p, "replace")
  /\ UNCHANGED <<disk, sawOld, judged, draft, clean, faults>>

\* renameSync(tmp, file): the existing entry was corrupt when it was read.
Replace(p) ==
  /\ pc[p] = "replace"
  /\ entry' = draft[p]
  /\ Answer(p, draft[p])
  /\ Goto(p, "release")
  /\ UNCHANGED <<lock, moved, sawOld, judged, draft, clean, faults>>

ReleaseRead(p) ==
  /\ pc[p] = "release"
  /\ Goto(p, IF lock # NoFile /\ lock.owner = p /\ lock.written THEN "unlink" ELSE "done")
  /\ UNCHANGED <<disk, memory, clean, faults>>

\* unlinkSync(lf) removes whatever is there.
ReleaseUnlink(p) ==
  /\ pc[p] = "unlink"
  /\ lock' = NoFile
  /\ Goto(p, "done")
  /\ UNCHANGED <<entry, moved, memory, clean, faults>>

-----------------------------------------------------------------------------
(* Time and deaths *)

\* The heartbeat: timers fire while the judge calls are awaited, on whatever is at the path.
Beat(p) ==
  /\ pc[p] = "sample"
  /\ lock # NoFile
  /\ lock.old
  /\ lock' = [lock EXCEPT !.old = FALSE]
  /\ UNCHANGED <<entry, moved, pc, memory, clean, faults>>

\* staleMs passes without a heartbeat; for an owner that is there, that is a stall.
GrowOld ==
  /\ lock # NoFile
  /\ ~lock.old
  /\ lock' = [lock EXCEPT !.old = TRUE]
  /\ IF pc[lock.owner] \in Owning
     THEN faults < MaxFaults /\ faults' = faults + 1
     ELSE UNCHANGED faults
  /\ UNCHANGED <<entry, clean, moved, pc, memory>>

\* A death leaves the files as they are, an unwritten claim among them.
Crash(p) ==
  /\ pc[p] \notin {"start", "done", "dead"}
  /\ faults < MaxFaults
  /\ faults' = faults + 1
  /\ Goto(p, "dead")
  /\ sawOld' = [sawOld EXCEPT ![p] = FALSE]
  /\ judged' = [judged EXCEPT ![p] = NoFile]
  /\ moved' = [moved EXCEPT ![p] = NoFile]
  /\ draft' = [draft EXCEPT ![p] = NoDecision]
  /\ UNCHANGED <<entry, lock, result, clean>>

Waiting(p) ==
  \/ Lookup(p) \/ OpenClaim(p) \/ Peek(p) \/ Hit(p) \/ Stat(p) \/ Inspect(p) \/ Poll(p)
TakingOver(p) == MoveAside(p) \/ ReadMoved(p) \/ LinkBack(p)
Judging(p) ==
  \/ WriteClaim(p) \/ ReLookup(p) \/ Sample(p) \/ Publish(p) \/ Recheck(p) \/ Replace(p)
  \/ ReleaseRead(p) \/ ReleaseUnlink(p)

JudgeNext ==
  \/ \E p \in Proc :
       Waiting(p) \/ TakingOver(p) \/ Judging(p) \/ Cancel(p) \/ TimeOut(p) \/ Beat(p) \/ Crash(p)
  \/ GrowOld

JudgeSpec == JudgeInit /\ [][JudgeNext]_judgeVars

-----------------------------------------------------------------------------
(* Properties *)

TypeOK ==
  /\ entry \in Decision \cup {NoDecision, "corrupt"}
  /\ clean \in BOOLEAN
  /\ lock \in Claim \cup {NoFile}
  /\ moved \in [Proc -> Claim \cup {NoFile}]
  /\ pc \in [Proc -> Place]
  /\ sawOld \in [Proc -> BOOLEAN]
  /\ judged \in [Proc -> Proc \cup {NoFile}]
  /\ draft \in [Proc -> Decision \cup {NoDecision}]
  /\ result \in [Proc -> Decision \cup {NoDecision, "unjudged"}]
  /\ faults \in Nat

\* Processes that judge the same evidence come to one decision: the first published, whichever
\* of them sampled, lost its claim, stalled or died (judge-cache.js header: "a competing writer
\* gets it back, never its own").  Two writers that found the same corrupt file may differ.
OneDecision ==
  clean => \A p \in Proc : result[p] \in Decision => result[p] = entry

\* While nobody dies or stalls, the judge is asked once: no process samples beside another,
\* nor after a decision ("the evidence is CLAIMED before sampling").
ClaimedBeforeSampling ==
  faults = 0 =>
    \A p \in Proc : pc[p] = "sample" =>
      entry \notin Decision /\ \A q \in Proc : pc[q] = "sample" => q = p

-----------------------------------------------------------------------------
(* Why there is one decision *)

\* A process publishes what it judged, a hit finds a decision, and over a file that was not
\* corrupt to begin with no process gets to replace it.
DecisionStands ==
  \A p \in Proc :
    /\ pc[p] \in {"publish", "recheck", "replace"} => draft[p] \in Decision
    /\ pc[p] = "hit" => entry \in Decision
    /\ clean => /\ entry # "corrupt"
                /\ pc[p] # "replace"
                /\ pc[p] = "recheck" => entry # NoDecision

\* The part of TypeOK it rests on.
DecisionsTyped ==
  /\ entry \in Decision \cup {NoDecision, "corrupt"}
  /\ clean \in BOOLEAN
  /\ pc \in [Proc -> Place]
  /\ draft \in [Proc -> Decision \cup {NoDecision}]
  /\ result \in [Proc -> Decision \cup {NoDecision, "unjudged"}]

DecisionInv == DecisionsTyped /\ DecisionStands /\ OneDecision

-----------------------------------------------------------------------------
(* Why the judge is asked once *)

\* Without a fault nobody is dead and no claim grows old, so none is found stale or moved; the claim
\* is there exactly while its owner counts it as its own, so that no two do.
ClaimIsOwned ==
  /\ pc \in [Proc -> Place \ {"rename", "read", "linkback", "dead"}]
  /\ lock \in Claim \cup {NoFile} /\ sawOld \in [Proc -> BOOLEAN]
  /\ lock # NoFile => ~lock.old /\ pc[lock.owner] \in Owning
  /\ \A p \in Proc :
       /\ ~sawOld[p]
       /\ pc[p] \in Owning => lock # NoFile /\ lock.owner = p /\ (pc[p] # "write" => lock.written)
       /\ pc[p] = "sample" => entry \notin Decision

ClaimInv ==
  /\ faults \in Nat
  /\ faults = 0 => ClaimIsOwned

=============================================================================
