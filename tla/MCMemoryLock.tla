---------------------------- MODULE MCMemoryLock ----------------------------
(***************************************************************************)
(* An instance of MemoryLock: three processes of one machine, so that one  *)
(* dies in the lock, two set out to take it over, and one of those dies.   *)
(*                                                                         *)
(* Tokens are only compared with each other, so it does not matter which   *)
(* fresh one a claim gets.  TLC is given one choice instead of all: each   *)
(* process has tokens of its own, and takes the least fresh one.           *)
(***************************************************************************)
EXTENDS MemoryLock

CONSTANTS p1, p2, p3, h1

OneHost == [p \in Proc |-> h1]

\* Bound: tokens of each process for `.lock`, and for `.lock.takeover`.  A process whose tokens
\* are all in use does not start before one is forgotten; nobody ever waits for another one.
LockTokens(p) == CASE p = p1 -> {1, 2} [] p = p2 -> {3, 4} [] p = p3 -> {5}
TakeoverTokens(p) == CASE p = p1 -> {6} [] p = p2 -> {7} [] p = p3 -> {8}

LeastFresh(c, tokens) ==
  c # NoClaim => c.token \in tokens /\ \A t \in tokens \cap FreshToken : c.token <= t

TokensInTurn ==
  \A p \in Proc :
    /\ me'[p] # me[p] => LeastFresh(me'[p], LockTokens(p))
    /\ mine'[p] # mine[p] => LeastFresh(mine'[p], TakeoverTokens(p))

=============================================================================
