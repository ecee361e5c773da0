--------------------------- MODULE MCFutexRwLock ---------------------------
(***************************************************************************)
(* FutexRwLock for TLC.  Safety is checked with threads that call for ever *)
(* and are interchangeable.  For liveness the calls are counted: a thread  *)
(* may starve while others keep barging in, which the lock allows, but     *)
(* with finitely many calls each of them has to return.                    *)
(***************************************************************************)
EXTENDS FutexRwLock, TLC

CONSTANT MaxCalls         \* bound on the number of lock calls begun

VARIABLE calls            \* the calls begun so far

Symmetry == Permutations(Threads)

BoundedInit == Init /\ calls = 0

BoundedCall(t) == calls < MaxCalls /\ calls' = calls + 1 /\ Call(t)

GoOn(t) == Inside(t) /\ UNCHANGED calls

LeaveWait(t) == (read_leave_wait(t) \/ write_leave_wait(t)) /\ UNCHANGED calls

AllDone == (\A t \in Threads : pc[t] = "idle") /\ UNCHANGED <<vars, calls>>

BoundedNext ==
  \/ \E t \in Threads : BoundedCall(t) \/ GoOn(t) \/ LeaveWait(t)
  \/ AllDone

BoundedSpec ==
  /\ BoundedInit
  /\ [][BoundedNext]_<<vars, calls>>
  /\ \A t \in Threads : WF_<<vars, calls>>(GoOn(t))

\* Unbounded calls, for the safety run.
EndlessNext == Next /\ UNCHANGED calls

EndlessSpec == BoundedInit /\ [][EndlessNext]_<<vars, calls>>

\* Every call of read or write returns: no wake-up is lost to the interplay
\* of the two futexes, a spurious wake-up or a downgrade.
EveryCallReturns == \A t \in Threads : Waiting(t) ~> ~Waiting(t)
=============================================================================
