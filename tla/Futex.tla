------------------------------- MODULE Futex -------------------------------
(***************************************************************************)
(* The futex layer of library/std/src/sys/pal/unix/futex.rs, as seen by    *)
(* the primitives of library/std/src/sys/sync that block on it.            *)
(*                                                                         *)
(* Every primitive is a set of threads with one control point each; a      *)
(* thread that the kernel has put to sleep on a futex is at a control      *)
(* point reserved for that, so the kernel's wait queue of a futex is the   *)
(* set of threads at that control point.  The kernel itself is external:   *)
(* it compares the word and queues the caller in one atomic step, it may   *)
(* pick any sleeper to wake, and a sleeper may come back for no reason.    *)
(*                                                                         *)
(* The loop of futex_wait first loads the word in user space and then      *)
(* makes the system call, which compares again.  The two checks are one    *)
(* step here: a load that differs returns as a comparison at that moment   *)
(* would, and a load that agrees is followed by the system call's own      *)
(* comparison, the only one that counts.                                   *)
(***************************************************************************)
CONSTANT Threads          \* the threads that share the primitive

VARIABLE pc               \* pc[t]: the control point of thread t

\* The threads that the kernel's queue for one futex holds.
Sleepers(asleep) == {u \in Threads : pc[u] = asleep}

Goto(t, from, to) ==
  /\ pc[t] = from
  /\ pc' = [pc EXCEPT ![t] = to]

\* futex_wait(&word, expected): sleep if the word still has the expected
\* value, return at once (to "back") if it has another one.
futex_wait(t, at, word, expected, asleep, back) ==
  Goto(t, at, IF word = expected THEN asleep ELSE back)

\* The system call ends without a futex_wake: EINTR goes round the loop of
\* futex_wait and checks the word again, any other outcome is a return to
\* the caller (a spurious wake-up).
futex_interrupted(t, asleep, at) == Goto(t, asleep, at)

futex_spurious(t, asleep, back) == Goto(t, asleep, back)

\* futex_wake(&word): wakes one sleeper if there is one.
futex_wake(t, at, to, asleep, back) ==
  /\ pc[t] = at
  /\ IF Sleepers(asleep) = {}
     THEN pc' = [pc EXCEPT ![t] = to]
     ELSE \E u \in Sleepers(asleep) : pc' = [pc EXCEPT ![t] = to, ![u] = back]

\* futex_wake_all(&word): wakes every sleeper.
futex_wake_all(t, at, to, asleep, back) ==
  /\ pc[t] = at
  /\ pc' = [u \in Threads |-> IF u = t THEN to
                              ELSE IF pc[u] = asleep THEN back ELSE pc[u]]
=============================================================================
