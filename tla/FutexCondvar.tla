---------------------------- MODULE FutexCondvar ----------------------------
(***************************************************************************)
(* The futex-based condition variable,                                     *)
(* library/std/src/sys/sync/condvar/futex.rs, over the contract of the     *)
(* mutex (AbstractMutex).  This module holds its operations; CondvarQueue  *)
(* and Barrier are programs that use it.                                   *)
(*                                                                         *)
(* The notification counter is only ever compared with a value loaded from *)
(* it before, so it is kept as the set of threads whose loaded value is    *)
(* still the current one; that 2^32 notifications fall between a waiter's  *)
(* load and its futex_wait is left out.  A timed wait differs only in the  *)
(* time after which it comes back by itself: time is abstracted, and every *)
(* wait may come back at any moment.                                       *)
(***************************************************************************)
EXTENDS Futex, FiniteSets

CONSTANT NoThread         \* the owner of a mutex nobody holds

ASSUME ThreadsAssumption == IsFiniteSet(Threads)
ASSUME NoThreadAssumption == NoThread \notin Threads

VARIABLES owner,          \* the mutex: the thread that holds it
          current         \* threads whose loaded counter is up to date

Mutex == INSTANCE AbstractMutex

CondvarInit == Mutex!Init /\ current = {}

\* lock and unlock of the mutex, from one control point to another.
lock(t, from, to) == Goto(t, from, to) /\ Mutex!Acquire(t) /\ UNCHANGED current

unlock(t, from, to) == Goto(t, from, to) /\ Mutex!Release(t) /\ UNCHANGED current

\* let futex_value = self.futex.load(), with the mutex held
wait_load(t, from) ==
  /\ Goto(t, from, "cv_unlock")
  /\ current' = current \cup {t}
  /\ UNCHANGED owner

wait_unlock(t) == unlock(t, "cv_unlock", "cv_wait")

\* Mutant: the counter is loaded here, after the unlock, and so always agrees.
Mut_wait_sleep(t) ==
  /\ Goto(t, "cv_wait", "cv_asleep")
  /\ UNCHANGED <<owner, current>>

\* futex_wait(&self.futex, futex_value, timeout)
wait_sleep(t) ==
  /\ futex_wait(t, "cv_wait", t \in current, TRUE, "cv_asleep", "cv_lock")
  /\ UNCHANGED <<owner, current>>

wait_leave(t) ==
  /\ \/ futex_interrupted(t, "cv_asleep", "cv_wait")
     \/ futex_spurious(t, "cv_asleep", "cv_lock")
  /\ UNCHANGED <<owner, current>>

\* Lock the mutex again; the caller goes on at "back".
wait_lock(t, back) ==
  /\ Goto(t, "cv_lock", back)
  /\ Mutex!Acquire(t)
  /\ current' = current \ {t}

\* Mutant: notify_one and notify_all do not increment the counter.
Mut_notify_add(t, from, to) ==
  /\ Goto(t, from, to)
  /\ UNCHANGED <<owner, current>>

\* self.futex.fetch_add(1), in notify_one and notify_all
notify_add(t, from, to) ==
  /\ Goto(t, from, to)
  /\ current' = {}
  /\ UNCHANGED owner

notify_one(t, from, to) ==
  /\ futex_wake(t, from, to, "cv_asleep", "cv_lock")
  /\ UNCHANGED <<owner, current>>

notify_all(t, from, to) ==
  /\ futex_wake_all(t, from, to, "cv_asleep", "cv_lock")
  /\ UNCHANGED <<owner, current>>

WaitPoints == {"cv_unlock", "cv_wait", "cv_asleep", "cv_lock"}
=============================================================================
