----------------------------- MODULE FutexParker -----------------------------
(***************************************************************************)
(* Thread parking on a futex,                                              *)
(* library/std/src/sys/sync/thread_parking/futex.rs: the Parker of one     *)
(* thread, the Owner, and the other threads that unpark it.                *)
(*                                                                         *)
(* The state is an unsigned integer modulo MAX + 1, since the code counts  *)
(* on PARKED being EMPTY - 1 in wrapping arithmetic.  One action per       *)
(* atomic access; park and park_timeout differ in what follows the wait.   *)
(***************************************************************************)
EXTENDS Futex, Naturals

CONSTANTS Owner,          \* the thread that the Parker belongs to
          MAX             \* SmallPrimitive::MAX (2^32 - 1 on Linux, 2^8 - 1 on Windows)

ASSUME OwnerAssumption == Owner \in Threads
ASSUME MaxAssumption == MAX \in Nat \ {0, 1}

VARIABLES state,          \* the atomic state of the Parker
          timed           \* is the Owner in park_timeout?

parker_vars == <<pc, state, timed>>

EMPTY == 0
NOTIFIED == 1
PARKED == MAX

ParkerInit ==
  /\ state = EMPTY
  /\ timed = FALSE
  /\ pc = [t \in Threads |-> "idle"]

\* The head of park and park_timeout: fetch_sub(1) changes NOTIFIED to EMPTY
\* and returns, or EMPTY to PARKED.
park(timeout) ==
  /\ state' = (state + MAX) % (MAX + 1)
  /\ timed' = IF state = NOTIFIED THEN FALSE ELSE timeout
  /\ Goto(Owner, "idle", IF state = NOTIFIED THEN "idle" ELSE "wait")

park_wait ==
  /\ futex_wait(Owner, "wait", state, PARKED, "asleep", "woken")
  /\ UNCHANGED <<state, timed>>

\* EINTR, a spurious wake-up or a timeout.
park_leave ==
  /\ \/ futex_interrupted(Owner, "asleep", "wait")
     \/ futex_spurious(Owner, "asleep", "woken")
  /\ UNCHANGED <<state, timed>>

\* Mutant: any wake-up ends park, which leaves PARKED behind.
Mut_park_woken ==
  /\ ~timed
  /\ state' = IF state = NOTIFIED THEN EMPTY ELSE state
  /\ Goto(Owner, "woken", "idle")
  /\ UNCHANGED timed

\* park after the wait: compare_exchange(NOTIFIED, EMPTY) or wait again.
park_woken ==
  /\ ~timed
  /\ state' = IF state = NOTIFIED THEN EMPTY ELSE state
  /\ Goto(Owner, "woken", IF state = NOTIFIED THEN "idle" ELSE "wait")
  /\ UNCHANGED timed

\* park_timeout after the wait: swap(EMPTY) and return in any case.
park_timeout_woken ==
  /\ timed
  /\ timed' = FALSE
  /\ state' = EMPTY
  /\ Goto(Owner, "woken", "idle")

\* Mutant: a NOTIFIED left by somebody else is taken for a wake-up due, and
\* a PARKED one is not.
Mut_unpark(t) ==
  /\ state' = NOTIFIED
  /\ Goto(t, "idle", IF state = EMPTY THEN "wake" ELSE "idle")
  /\ UNCHANGED timed

\* swap(NOTIFIED); a parked thread is woken.
unpark(t) ==
  /\ state' = NOTIFIED
  /\ Goto(t, "idle", IF state = PARKED THEN "wake" ELSE "idle")
  /\ UNCHANGED timed

wake(t) ==
  /\ futex_wake(t, "wake", "idle", "asleep", "woken")
  /\ UNCHANGED <<state, timed>>
-----------------------------------------------------------------------------
InsidePark == park_wait \/ park_woken \/ park_timeout_woken

\* The owner may unpark itself too (its handle is an ordinary Thread).
ParkerNext ==
  \/ \E timeout \in BOOLEAN : park(timeout)
  \/ InsidePark \/ park_leave
  \/ \E t \in Threads : unpark(t) \/ wake(t)

ParkerSpec == ParkerInit /\ [][ParkerNext]_parker_vars

\* The scheduler runs every thread that can run.  No timeout is assumed to
\* expire and no interrupt to come.
FairParkerSpec == ParkerSpec /\ WF_parker_vars(InsidePark) /\ \A t \in Threads : WF_parker_vars(wake(t))
-----------------------------------------------------------------------------
ParkerPoints == {"idle", "wait", "asleep", "woken", "wake"}

\* The state takes only its three values: "this is only called by the thread
\* that owns the Parker, which means that self.state != PARKED", and so the
\* subtraction of park never goes below PARKED.
ParkerTypeOK ==
  /\ state \in {EMPTY, NOTIFIED, PARKED}
  /\ timed \in BOOLEAN
  /\ pc \in [Threads -> ParkerPoints]

Parked == pc[Owner] \in {"wait", "asleep", "woken"}

\* The owner is inside park exactly when the state may be PARKED: the next
\* park starts from EMPTY or NOTIFIED, and an unpark of a thread that is
\* inside park leaves NOTIFIED for it to find.
ParkedOnlyInPark ==
  /\ state = PARKED => Parked
  /\ Parked => state # EMPTY

\* No lost wake-up: an owner asleep is asleep on PARKED, or the unpark that
\* changed the state is about to call futex_wake.
NoLostWakeup ==
  pc[Owner] = "asleep" => state = PARKED \/ \E t \in Threads : pc[t] = "wake"

\* A token ends the park that is in progress.
UnparkEndsPark == (Parked /\ state = NOTIFIED) ~> ~Parked

Mode == IF ~Parked THEN "running" ELSE IF timed THEN "park_timeout" ELSE "park"

AbstractPark == INSTANCE AbstractParker WITH token <- state = NOTIFIED, mode <- Mode

\* The futex parker implements the abstract one: a token is never lost, only
\* park_timeout returns without one, and a spurious wake-up is not seen.
ImplementsParker == AbstractPark!Spec
=============================================================================
