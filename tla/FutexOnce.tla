----------------------------- MODULE FutexOnce -----------------------------
(***************************************************************************)
(* The futex-based one-time initialization,                                *)
(* library/std/src/sys/sync/once/futex.rs, as called by std::sync::Once.   *)
(*                                                                         *)
(* One action per atomic access of state_and_queued, which is kept as its  *)
(* two fields.  A compare_exchange_weak that fails spuriously loads the    *)
(* same value and goes round its loop: a step that changes nothing.  The   *)
(* closure f of the caller is external: it returns, or it panics, or (for  *)
(* OnceLock) it asks for poisoning and returns.  A closure that calls the  *)
(* same Once again is against the contract of call_once and left out.      *)
(* A local variable that is not read again has its initial value.          *)
(***************************************************************************)
EXTENDS Futex

CONSTANT NoThread         \* the runner of a Once that nobody runs

ASSUME NoThreadAssumption == NoThread \notin Threads

VARIABLES word,           \* state_and_queued
          seen,           \* seen[t]: the local copy of state_and_queued
          op,             \* op[t]: the function t is in, "call" or "wait"
          ignore          \* ignore[t]: its argument ignore_poisoning

vars == <<pc, word, seen, op, ignore>>

States == {"INCOMPLETE", "POISONED", "RUNNING", "COMPLETE"}

Word == [state : States, queued : BOOLEAN]

W(s, q) == [state |-> s, queued |-> q]

Init ==
  /\ word = W("INCOMPLETE", FALSE)
  /\ pc = [t \in Threads |-> "idle"]
  /\ seen = [t \in Threads |-> W("INCOMPLETE", FALSE)]
  /\ op = [t \in Threads |-> "call"]
  /\ ignore = [t \in Threads |-> FALSE]

\* is_completed, the fast path of Once: a completed cell returns at once.
is_completed == word = W("COMPLETE", FALSE)

\* A call goes past its fast path, into call or wait of the futex Once.
enter(t, o, i) ==
  /\ ~is_completed
  /\ op' = [op EXCEPT ![t] = o]
  /\ ignore' = [ignore EXCEPT ![t] = i]
  /\ Goto(t, "idle", "load")
  /\ UNCHANGED <<word, seen>>

call_once(t) == enter(t, "call", FALSE)

call_once_force(t) == enter(t, "call", TRUE)

\* Once::wait ("wait" below is its step on the futex).
wait_once(t) == enter(t, "wait", FALSE)

wait_force(t) == enter(t, "wait", TRUE)

\* The call returns or unwinds: its locals are gone.
Return(t, from) ==
  /\ Goto(t, from, "idle")
  /\ seen' = [seen EXCEPT ![t] = W("INCOMPLETE", FALSE)]
  /\ op' = [op EXCEPT ![t] = "call"]
  /\ ignore' = [ignore EXCEPT ![t] = FALSE]

load(t) ==
  /\ seen' = [seen EXCEPT ![t] = word]
  /\ Goto(t, "load", "loop")
  /\ UNCHANGED <<word, op, ignore>>

\* COMPLETE => return, or POISONED without ignore_poisoning => panic
Leaving(t) ==
  \/ seen[t].state = "COMPLETE"
  \/ seen[t].state = "POISONED" /\ ~ignore[t]

return_or_panic(t) ==
  /\ Leaving(t)
  /\ Return(t, "loop")
  /\ UNCHANGED word

\* The compare_exchange from the value seen fails: load the new value.
Reload(t) ==
  /\ pc[t] = "loop"
  /\ word # seen[t]
  /\ seen' = [seen EXCEPT ![t] = word]
  /\ UNCHANGED <<word, pc, op, ignore>>

Run(t, queued) ==
  /\ word = seen[t]
  /\ word' = W("RUNNING", queued)
  /\ Goto(t, "loop", "running")
  /\ seen' = [seen EXCEPT ![t] = W("INCOMPLETE", FALSE)]
  /\ ignore' = [ignore EXCEPT ![t] = FALSE]
  /\ UNCHANGED op

Runnable(t) ==
  \/ seen[t].state = "INCOMPLETE"
  \/ seen[t].state = "POISONED" /\ ignore[t]

\* Mutant: the runner drops the QUEUED bit of threads that already wait.
Mut_start_running(t) ==
  /\ op[t] = "call" /\ Runnable(t)
  /\ (Run(t, FALSE) \/ Reload(t))

\* Mutant: the state is stored, not exchanged for the one seen.
Mut_start_store(t) ==
  /\ op[t] = "call" /\ Runnable(t)
  /\ word' = W("RUNNING", seen[t].queued)
  /\ Goto(t, "loop", "running")
  /\ seen' = [seen EXCEPT ![t] = W("INCOMPLETE", FALSE)]
  /\ ignore' = [ignore EXCEPT ![t] = FALSE]
  /\ UNCHANGED op

\* call registers its thread as the one running; the QUEUED bit stays.
start_running(t) ==
  /\ op[t] = "call" /\ Runnable(t)
  /\ (Run(t, seen[t].queued) \/ Reload(t))

\* The values on which a thread queues up.
MustQueue(t) == seen[t].state = "RUNNING" \/ (op[t] = "wait" /\ Runnable(t))

\* Set the QUEUED bit if it has not already been set, then wait.
queue(t) ==
  /\ MustQueue(t)
  /\ \/ /\ seen[t].queued
        /\ Goto(t, "loop", "wait")
        /\ UNCHANGED <<word, seen, op, ignore>>
     \/ /\ ~seen[t].queued
        /\ word = seen[t]
        /\ word' = W(word.state, TRUE)
        /\ seen' = [seen EXCEPT ![t] = W(word.state, TRUE)]
        /\ Goto(t, "loop", "wait")
        /\ UNCHANGED <<op, ignore>>
     \/ ~seen[t].queued /\ Reload(t)

wait(t) ==
  /\ futex_wait(t, "wait", word, seen[t], "asleep", "load")
  /\ UNCHANGED <<word, seen, op, ignore>>

leave_wait(t) ==
  /\ \/ futex_interrupted(t, "asleep", "wait")
     \/ futex_spurious(t, "asleep", "load")
  /\ UNCHANGED <<word, seen, op, ignore>>

\* Mutant: the guard keeps the QUEUED bit when it stores the new state.
Mut_finish(t, s) ==
  /\ word' = W(s, word.queued)
  /\ Goto(t, "running", IF word.queued THEN "wake_all" ELSE "idle")
  /\ UNCHANGED <<seen, op, ignore>>

\* f returns or unwinds and CompletionGuard is dropped: COMPLETE if f
\* returned, POISONED if it panicked or called OnceState::poison.
finish(t, s) ==
  /\ word' = W(s, FALSE)
  /\ Goto(t, "running", IF word.queued THEN "wake_all" ELSE "idle")
  /\ UNCHANGED <<seen, op, ignore>>

\* Mutant: one waiter is woken where all have to be.
Mut_wake_all(t) ==
  /\ futex_wake(t, "wake_all", "idle", "asleep", "load")
  /\ UNCHANGED <<word, seen, op, ignore>>

wake_all(t) ==
  /\ futex_wake_all(t, "wake_all", "idle", "asleep", "load")
  /\ UNCHANGED <<word, seen, op, ignore>>
-----------------------------------------------------------------------------
Enter(t) == call_once(t) \/ call_once_force(t) \/ wait_once(t) \/ wait_force(t)

\* The steps a call once begun goes on taking, the closure's end included.
Inside(t) ==
  \/ load(t) \/ return_or_panic(t) \/ start_running(t) \/ queue(t) \/ wait(t)
  \/ finish(t, "COMPLETE") \/ finish(t, "POISONED") \/ wake_all(t)

\* When the cell is complete nothing can change any more.
Done == is_completed /\ (\A t \in Threads : pc[t] = "idle") /\ UNCHANGED vars

Next == (\E t \in Threads : Enter(t) \/ Inside(t) \/ leave_wait(t)) \/ Done

Spec == Init /\ [][Next]_vars

\* The scheduler runs every thread that can run, and closures end.
FairSpec == Spec /\ \A t \in Threads : WF_vars(Inside(t))
-----------------------------------------------------------------------------
ControlPoints == {"idle", "load", "loop", "wait", "asleep", "running", "wake_all"}

\* The variables have their types.
TypeOK ==
  /\ word \in Word
  /\ pc \in [Threads -> ControlPoints]
  /\ seen \in [Threads -> Word]
  /\ op \in [Threads -> {"call", "wait"}]
  /\ ignore \in [Threads -> BOOLEAN]

\* The word is RUNNING exactly while one thread runs a closure: two closures
\* never run side by side, and none runs on a completed cell.
OneRunner ==
  /\ (word.state = "RUNNING") <=> (\E t \in Threads : pc[t] = "running")
  /\ \A t, u \in Threads : pc[t] = "running" /\ pc[u] = "running" => t = u

\* "COMPLETE => return" on a value loaded earlier: what a thread has seen to
\* be complete is complete now, so the callers may use the initialized data.
CompleteIsFinal ==
  \A t \in Threads : seen[t].state = "COMPLETE" => word = W("COMPLETE", FALSE)

\* A thread asleep is owed a wake-up by the QUEUED bit, or by the guard of a
\* run that has ended: no waiter of an earlier state is forgotten when the
\* state changes under the bit.
WaiterIsOwed ==
  Sleepers("asleep") # {} => word.queued \/ \E t \in Threads : pc[t] = "wake_all"

\* Once::state, reached by get_mut and drop of the cells when nobody is inside
\* a call, never finds a queued or running word: its unreachable!() holds.
ExclusiveStateIsClean ==
  (\A t \in Threads : pc[t] = "idle") => ~word.queued /\ word.state # "RUNNING"

\* Why that is so: the bit belongs to a thread that is in the loop, awake or
\* asleep, and that cannot leave before the word changes.
QueuedHasOwner ==
  word.queued =>
    /\ word.state # "COMPLETE"
    /\ \E t \in Threads :
         /\ pc[t] \in {"wait", "asleep", "load", "loop"}
         /\ op[t] = "call" => word.state = "RUNNING"
         /\ word.state = "POISONED" => ignore[t]
         /\ pc[t] = "loop" => ~Leaving(t)

\* The inductive strengthening of the invariants above.
IInv == TypeOK /\ OneRunner /\ CompleteIsFinal /\ WaiterIsOwed /\ QueuedHasOwner

Failed == \E t \in Threads : pc[t] = "running" /\ word'.state = "POISONED"

InCall(t) == pc[t] # "idle" /\ op[t] = "call"

\* Every call of call_once and call_once_force returns, unless closures fail
\* again and again; and once the cell is complete every thread inside a call
\* or a wait returns.
CallsReturn ==
  \A t \in Threads :
    /\ (<>[][~Failed]_vars) => (InCall(t) ~> pc[t] = "idle")
    /\ (word.state = "COMPLETE" /\ pc[t] # "idle") ~> pc[t] = "idle"

Phase ==
  [s \in States |-> CASE s = "INCOMPLETE" -> "incomplete" [] s = "POISONED" -> "poisoned"
                      [] s = "RUNNING" -> "running" [] s = "COMPLETE" -> "complete"]

Runner == IF \E t \in Threads : pc[t] = "running"
          THEN CHOOSE t \in Threads : pc[t] = "running"
          ELSE NoThread

Abstract == INSTANCE AbstractOnce WITH phase <- Phase[word.state], runner <- Runner

\* The futex once implements the abstract one.
ImplementsOnce == Abstract!Spec
=============================================================================
