------------------------------- MODULE Mutex -------------------------------
(***************************************************************************)
(* What memory/lock.js promises to its callers: one process at a time is   *)
(* inside the store's critical section, a process that dies inside leaves  *)
(* the lock orphaned, and an orphaned lock is given back before anyone     *)
(* else gets in.  MemoryLock implements this specification.                *)
(***************************************************************************)
CONSTANT Proc        \* the processes of one memory store

VARIABLES inside,    \* the processes that have the lock
          orphaned   \* the lock names a process that is gone

mvars == <<inside, orphaned>>

MInit == inside = {} /\ orphaned = FALSE

\* A process gets the lock only when nobody has it.
Acquire(p) ==
  /\ inside = {}
  /\ ~orphaned
  /\ inside' = {p}
  /\ UNCHANGED orphaned

Release(p) ==
  /\ p \in inside
  /\ inside' = inside \ {p}
  /\ UNCHANGED orphaned

Die(p) ==
  /\ p \in inside
  /\ inside' = inside \ {p}
  /\ orphaned' = TRUE

\* Somebody establishes that the owner is gone and gives the lock back.
Reclaim ==
  /\ orphaned
  /\ orphaned' = FALSE
  /\ UNCHANGED inside

MNext == (\E p \in Proc : Acquire(p) \/ Release(p) \/ Die(p)) \/ Reclaim

MSpec == MInit /\ [][MNext]_mvars

=============================================================================
