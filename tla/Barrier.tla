------------------------------- MODULE Barrier -------------------------------
(***************************************************************************)
(* std::sync::Barrier, library/std/src/sync/barrier.rs, over the contract  *)
(* of the mutex and the futex condition variable.                          *)
(*                                                                         *)
(* generation_id wraps; only equality with a local copy is ever tested.    *)
(* Its modulus is a constant (2^64 in the code).  With num_threads threads *)
(* two generations do; with more, a waiter that does not run for a whole   *)
(* turn of the counter would miss its release.                             *)
(***************************************************************************)
EXTENDS FutexCondvar, Naturals

CONSTANTS num_threads,    \* Barrier::new(num_threads)
          Modulus         \* the number of values of generation_id

ASSUME BarrierAssumption == num_threads \in Nat /\ Modulus \in Nat \ {0}

VARIABLES count, generation_id,   \* BarrierState, which the mutex protects
          local_gen               \* local_gen[t]: the local variable of wait

vars == <<pc, owner, current, count, generation_id, local_gen>>

data == <<count, generation_id, local_gen>>

Init ==
  /\ CondvarInit
  /\ pc = [t \in Threads |-> "idle"]
  /\ count = 0
  /\ generation_id = 0
  /\ local_gen = [t \in Threads |-> 0]

wait(t) == lock(t, "idle", "arrive") /\ UNCHANGED data

\* Mutant: the leader does not start a new generation.
Mut_arrive_gen(t) ==
  /\ local_gen' = [local_gen EXCEPT ![t] = generation_id]
  /\ IF count + 1 < num_threads
     THEN count' = count + 1 /\ Goto(t, "arrive", "test")
     ELSE count' = 0 /\ Goto(t, "arrive", "add")
  /\ UNCHANGED <<owner, current, generation_id>>

\* Arrival, with the mutex held: wait, or be the leader and reset the state.
arrive(t) ==
  /\ local_gen' = [local_gen EXCEPT ![t] = generation_id]
  /\ IF count + 1 < num_threads
     THEN /\ count' = count + 1
          /\ Goto(t, "arrive", "test")
          /\ UNCHANGED generation_id
     ELSE /\ count' = 0
          /\ generation_id' = (generation_id + 1) % Modulus
          /\ Goto(t, "arrive", "add")
  /\ UNCHANGED <<owner, current>>

\* Mutant: a waiter that is woken does not look at the generation.
Mut_wait_generation(t) ==
  /\ \/ local_gen[t] = generation_id /\ wait_load(t, "test")
     \/ wait_unlock(t)
     \/ wait_sleep(t)
     \/ wait_lock(t, "done")
  /\ UNCHANGED data

\* cvar.wait_while(lock, |state| local_gen == state.generation_id)
wait_generation(t) ==
  /\ \/ local_gen[t] = generation_id /\ wait_load(t, "test")
     \/ wait_unlock(t)
     \/ wait_sleep(t)
     \/ wait_lock(t, "test")
  /\ UNCHANGED data

next_generation(t) ==
  /\ local_gen[t] # generation_id
  /\ Goto(t, "test", "done")
  /\ UNCHANGED <<owner, current, data>>

\* Mutant: one waiter is notified where all have to be.
Mut_notify(t) ==
  /\ notify_add(t, "add", "wake") \/ notify_one(t, "wake", "done")
  /\ UNCHANGED data

\* The leader notifies the others with the mutex still held.
notify(t) ==
  /\ notify_add(t, "add", "wake") \/ notify_all(t, "wake", "done")
  /\ UNCHANGED data

\* wait returns and drops the guard.
leave(t) ==
  /\ unlock(t, "done", "idle")
  /\ local_gen' = [local_gen EXCEPT ![t] = 0]
  /\ UNCHANGED <<count, generation_id>>
-----------------------------------------------------------------------------
Inside(t) == arrive(t) \/ wait_generation(t) \/ next_generation(t) \/ notify(t) \/ leave(t)

SpuriousWakeup(t) == wait_leave(t) /\ UNCHANGED data

Next == \E t \in Threads : wait(t) \/ Inside(t) \/ SpuriousWakeup(t)

Spec == Init /\ [][Next]_vars

\* The scheduler runs every thread that can run, and every thread comes back
\* to the barrier.  The mutex is not fair.
FairSpec == Spec /\ \A t \in Threads : WF_vars(Inside(t)) /\ WF_vars(wait(t))
-----------------------------------------------------------------------------
Blocked(t) == pc[t] \in WaitPoints \cup {"test"}

\* The threads that wait in the current round, and those that may leave.
Arrived == {t \in Threads : Blocked(t) /\ local_gen[t] = generation_id}

Released ==
  {t \in Threads : Blocked(t) /\ local_gen[t] # generation_id}
     \cup {t \in Threads : pc[t] \in {"add", "wake", "done"}}

\* A released thread asleep is owed a wake-up by the leader, which still holds
\* the mutex: nobody of a finished round sleeps on in the next one.
ReleasedAreWoken ==
  \A t \in Released :
    pc[t] = "cv_asleep" => \E u \in Threads : pc[u] \in {"add", "wake"} /\ owner = u

\* Waiters that wake up for no reason again and again could keep the unfair
\* mutex from a thread for ever; liveness is up to that.
Settled == <>[][\A t \in Threads : ~SpuriousWakeup(t)]_vars

\* If num_threads threads keep coming, everybody passes again and again.
EveryRoundEnds == Settled => \A t \in Threads : []<>(pc[t] = "done")

Abstract == INSTANCE AbstractBarrier WITH arrived <- Arrived, released <- Released

\* Nobody leaves before num_threads threads have arrived in its round, though
\* the threads of two rounds are inside wait at the same time.
ImplementsBarrier == Abstract!Spec
=============================================================================
