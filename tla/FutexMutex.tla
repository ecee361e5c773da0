----------------------------- MODULE FutexMutex -----------------------------
(***************************************************************************)
(* The futex-based mutex, library/std/src/sys/sync/mutex/futex.rs.         *)
(*                                                                         *)
(* One action per atomic access of the futex word.  Between two calls a    *)
(* thread is "idle"; it holds the lock at "locked".  spin() only loads the *)
(* word, up to 101 times, and returns the last value it saw: any moment's  *)
(* value is a possible result, so it is one load here.                     *)
(***************************************************************************)
EXTENDS Futex, Naturals

CONSTANT NoOwner          \* the owner of a mutex nobody holds

VARIABLES futex,          \* the atomic word
          local_state     \* local_state[t]: the variable state of lock_contended

mutex_vars == <<pc, futex, local_state>>

ASSUME NoOwnerAssumption == NoOwner \notin Threads

UNLOCKED == 0
LOCKED == 1               \* locked, no other threads waiting
CONTENDED == 2            \* locked, and other threads waiting

MutexWord == {UNLOCKED, LOCKED, CONTENDED}

MutexInit ==
  /\ futex = UNLOCKED
  /\ pc = [t \in Threads |-> "idle"]
  /\ local_state = [t \in Threads |-> UNLOCKED]

(***************************************************************************)
(* lock, try_lock                                                          *)
(***************************************************************************)

\* A call that finds the lock taken returns false and changes nothing.
try_lock(t) ==
  /\ futex = UNLOCKED
  /\ futex' = LOCKED
  /\ Goto(t, "idle", "locked")
  /\ UNCHANGED local_state

lock(t) ==
  \/ /\ futex = UNLOCKED
     /\ futex' = LOCKED
     /\ Goto(t, "idle", "locked")
     /\ UNCHANGED local_state
  \/ /\ futex # UNLOCKED
     /\ Goto(t, "idle", "spin_first")
     /\ UNCHANGED <<futex, local_state>>

\* The first spin of lock_contended: an UNLOCKED word is tried once more
\* without marking it as contended.
spin_first(t) ==
  /\ local_state' = [local_state EXCEPT ![t] = futex]
  /\ Goto(t, "spin_first", IF futex = UNLOCKED THEN "retry" ELSE "mark")
  /\ UNCHANGED futex

\* Mutant: the second attempt stores LOCKED without comparing.
Mut_retry_lock(t) ==
  /\ futex' = LOCKED
  /\ Goto(t, "retry", "locked")
  /\ UNCHANGED local_state

retry_lock(t) ==
  \/ /\ futex = UNLOCKED
     /\ futex' = LOCKED
     /\ Goto(t, "retry", "locked")
     /\ UNCHANGED local_state
  \/ /\ futex # UNLOCKED
     /\ local_state' = [local_state EXCEPT ![t] = futex]
     /\ Goto(t, "retry", "mark")
     /\ UNCHANGED futex

\* Mutant: the waiter marks an unlocked or locked word LOCKED, not CONTENDED.
Mut_mark_contended(t) ==
  /\ \/ /\ local_state[t] = CONTENDED
        /\ Goto(t, "mark", "wait")
        /\ UNCHANGED futex
     \/ /\ local_state[t] # CONTENDED
        /\ futex' = IF futex = UNLOCKED THEN LOCKED ELSE CONTENDED
        /\ Goto(t, "mark", IF futex = UNLOCKED THEN "locked" ELSE "wait")
  /\ UNCHANGED local_state

\* The head of the loop: put the word in the contended state, which takes
\* the lock if it was free.
mark_contended(t) ==
  /\ \/ /\ local_state[t] = CONTENDED
        /\ Goto(t, "mark", "wait")
        /\ UNCHANGED futex
     \/ /\ local_state[t] # CONTENDED
        /\ futex' = CONTENDED
        /\ Goto(t, "mark", IF futex = UNLOCKED THEN "locked" ELSE "wait")
  /\ UNCHANGED local_state

mutex_wait(t) ==
  /\ futex_wait(t, "wait", futex, CONTENDED, "asleep", "spin")
  /\ UNCHANGED <<futex, local_state>>

mutex_leave_wait(t) ==
  /\ \/ futex_interrupted(t, "asleep", "wait")
     \/ futex_spurious(t, "asleep", "spin")
  /\ UNCHANGED <<futex, local_state>>

\* The spin after waking up.
spin(t) ==
  /\ local_state' = [local_state EXCEPT ![t] = futex]
  /\ Goto(t, "spin", "mark")
  /\ UNCHANGED futex

(***************************************************************************)
(* unlock                                                                  *)
(***************************************************************************)

\* Mutant: unlock never calls wake().
Mut_unlock(t) ==
  /\ futex' = UNLOCKED
  /\ Goto(t, "locked", "idle")
  /\ UNCHANGED local_state

unlock(t) ==
  /\ futex' = UNLOCKED
  /\ Goto(t, "locked", IF futex = CONTENDED THEN "wake" ELSE "idle")
  /\ UNCHANGED local_state

mutex_wake(t) ==
  /\ futex_wake(t, "wake", "idle", "asleep", "spin")
  /\ UNCHANGED <<futex, local_state>>

(***************************************************************************)
(* The steps that a call once begun goes on taking, and the whole system.  *)
(***************************************************************************)

InsideMutex(t) ==
  \/ spin_first(t) \/ retry_lock(t) \/ mark_contended(t)
  \/ mutex_wait(t) \/ spin(t) \/ unlock(t) \/ mutex_wake(t)

MutexNext ==
  \E t \in Threads :
    try_lock(t) \/ lock(t) \/ InsideMutex(t) \/ mutex_leave_wait(t)

MutexSpec == MutexInit /\ [][MutexNext]_mutex_vars

\* The scheduler runs every thread that can run, and an owner lets go of the
\* lock in the end.  Nothing is assumed of callers between two calls, and
\* nothing of the kernel's spurious returns.
FairMutexSpec == MutexSpec /\ \A t \in Threads : WF_mutex_vars(InsideMutex(t))
-----------------------------------------------------------------------------
(***************************************************************************)
(* Correctness                                                             *)
(***************************************************************************)

MutexPoints == {"idle", "spin_first", "retry", "mark", "wait", "asleep",
                "spin", "locked", "wake"}

\* The variables have their types; local_state[t] is a value that
\* lock_contended can have loaded.
MutexTypeOK ==
  /\ futex \in MutexWord
  /\ pc \in [Threads -> MutexPoints]
  /\ local_state \in [Threads -> MutexWord]

\* Two threads never hold the lock, whatever the swaps of lock_contended,
\* the barging compare_exchange of lock and the swap of unlock interleave to.
MutualExclusion ==
  \A t, u \in Threads : pc[t] = "locked" /\ pc[u] = "locked" => t = u

\* The word is UNLOCKED exactly when nobody holds the lock: the CONTENDED
\* mark of a waiter is never taken for a lock, and never lost as one.
WordTellsOwner ==
  (futex # UNLOCKED) <=> (\E t \in Threads : pc[t] = "locked")

\* Who will make the next wake-up happen: the caller of unlock that has
\* not called futex_wake yet, or a thread in the loop of lock_contended
\* that is awake and will mark the word or take the lock with the mark on.
Responsible == {u \in Threads : pc[u] \in {"wake", "spin", "mark", "wait"}}

\* No lost wake-up: a thread asleep in futex_wait is always owed a wake-up,
\* by an owner that will see CONTENDED or by a thread in motion.
SleeperIsOwed ==
  Sleepers("asleep") # {} => futex = CONTENDED \/ Responsible # {}

\* The inductive strengthening of the three invariants above.
MutexInv == MutexTypeOK /\ MutualExclusion /\ WordTellsOwner /\ SleeperIsOwed

Waiting(t) == pc[t] \in {"spin_first", "retry", "mark", "wait", "asleep", "spin"}

\* Progress: while threads wait in lock(), the lock keeps being acquired.
LockIsAcquired ==
  (\E t \in Threads : Waiting(t)) ~> (\E t \in Threads : pc[t] = "locked")

\* The mutex implements the abstract one.
LockOwner == IF \E t \in Threads : pc[t] = "locked"
             THEN CHOOSE t \in Threads : pc[t] = "locked"
             ELSE NoOwner

AbstractLock ==
  INSTANCE AbstractMutex WITH owner <- LockOwner, NoThread <- NoOwner

ImplementsMutex == AbstractLock!Spec
=============================================================================
