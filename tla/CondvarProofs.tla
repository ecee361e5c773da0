---------------------------- MODULE CondvarProofs ----------------------------
(***************************************************************************)
(* Proofs about the two programs over the futex condition variable, for    *)
(* any finite set of threads.                                              *)
(*                                                                         *)
(* Barrier, any num_threads and any modulus of the generation: the threads *)
(* of a finished round are woken, and the barrier refines AbstractBarrier  *)
(* as long as no waiter stays inside wait for a full turn of the           *)
(* generation counter.  With no more threads than num_threads that cannot  *)
(* happen.                                                                 *)
(*                                                                         *)
(* CondvarQueue, any bound on the items: the condition of wait_while holds *)
(* when it returns, and no notification is missed.  That somebody is awake *)
(* for one item is not inductive: whoever takes it may be the one who was  *)
(* awake.  The invariant counts: there are no more items than threads on   *)
(* their way to them, and a waiter whose copy of the counter is still      *)
(* current was there before all of the notifications that have only        *)
(* started.                                                                *)
(***************************************************************************)
EXTENDS Barrier, CondvarQueue, FiniteSetTheorems, TLAPS

(***************************************************************************)
(* Barrier                                                                 *)
(***************************************************************************)
Points == WaitPoints \cup {"idle", "arrive", "test", "add", "wake", "done"}

TypeOK ==
  /\ pc \in [Threads -> Points]
  /\ owner \in Threads \cup {NoThread}
  /\ current \subseteq Threads
  /\ count \in Nat
  /\ generation_id \in 0 .. Modulus - 1
  /\ local_gen \in [Threads -> 0 .. Modulus - 1]

\* The control points at which a thread holds the mutex.
Held == {"arrive", "test", "add", "wake", "done", "cv_unlock"}

MutexInv == \A t \in Threads : pc[t] \in Held <=> owner = t

\* A waiter whose copy of the notification counter is current waits for the
\* current round, unless the leader is just about to increment the counter; one
\* that sleeps on an old copy is about to be woken by the leader.
WaitInv ==
  \A t \in Threads :
    /\ t \in current /\ pc[t] \in {"cv_unlock", "cv_wait", "cv_asleep"} =>
         local_gen[t] = generation_id \/ \E u \in Threads : pc[u] = "add"
    /\ t \notin current /\ pc[t] = "cv_asleep" => \E u \in Threads : pc[u] = "wake"

IInv == TypeOK /\ MutexInv /\ WaitInv

\* The counter tells how many threads wait in the current round.
CountInv == count = Cardinality(Arrived)

\* The generation that a leader starts is not that of a thread that is still
\* inside wait.
TurnMissesNobody ==
  \A t \in Threads : arrive(t) /\ pc'[t] = "add" =>
    \A u \in Threads : Blocked(u) => local_gen[u] # generation_id'

NoFullTurn == [][TurnMissesNobody]_vars
-----------------------------------------------------------------------------
LEMMA Generations ==
  /\ 0 \in 0 .. Modulus - 1
  /\ \A g \in 0 .. Modulus - 1 : (g + 1) % Modulus \in 0 .. Modulus - 1
  /\ Modulus > 1 => \A g \in 0 .. Modulus - 1 : (g + 1) % Modulus # g
BY BarrierAssumption

LEMMA WaitStep ==
  ASSUME IInv, [Next]_vars
  PROVE  IInv'
<1> USE NoThreadAssumption, Generations DEF IInv, TypeOK, Points, WaitPoints, MutexInv, Held, WaitInv, Goto,
        lock, unlock, Mutex!Acquire, Mutex!Release, data
<1>1. ASSUME NEW t \in Threads, wait(t) PROVE IInv'
  BY <1>1 DEF wait
<1>2. ASSUME NEW t \in Threads, arrive(t) PROVE IInv'
  <2>1. TypeOK' /\ MutexInv'
    BY <1>2, BarrierAssumption DEF arrive
  <2>2. WaitInv'
    BY <1>2 DEF arrive
  <2> QED
    BY <2>1, <2>2
<1>3. ASSUME NEW t \in Threads, UNCHANGED data, local_gen[t] = generation_id, wait_load(t, "test") PROVE IInv'
  BY <1>3 DEF wait_load
<1>4. ASSUME NEW t \in Threads, UNCHANGED data, wait_unlock(t) PROVE IInv'
  BY <1>4 DEF wait_unlock
<1>5. ASSUME NEW t \in Threads, UNCHANGED data, wait_sleep(t) PROVE IInv'
  BY <1>5 DEF wait_sleep, futex_wait
<1>6. ASSUME NEW t \in Threads, UNCHANGED data, wait_lock(t, "test") PROVE IInv'
  BY <1>6 DEF wait_lock
<1>7. ASSUME NEW t \in Threads, next_generation(t) PROVE IInv'
  BY <1>7 DEF next_generation
<1>8. ASSUME NEW t \in Threads, UNCHANGED data, notify_add(t, "add", "wake") PROVE IInv'
  BY <1>8 DEF notify_add
<1>9. ASSUME NEW t \in Threads, UNCHANGED data, notify_all(t, "wake", "done") PROVE IInv'
  BY <1>9 DEF notify_all, futex_wake_all
<1>10. ASSUME NEW t \in Threads, leave(t) PROVE IInv'
  BY <1>10 DEF leave
<1>11. ASSUME NEW t \in Threads, SpuriousWakeup(t) PROVE IInv'
  BY <1>11 DEF SpuriousWakeup, wait_leave, futex_interrupted, futex_spurious
<1>12. CASE UNCHANGED vars
  BY <1>12 DEF vars
<1> QED
  BY <1>1, <1>2, <1>3, <1>4, <1>5, <1>6, <1>7, <1>8, <1>9, <1>10, <1>11, <1>12 DEF Next, Inside, wait_generation, notify

LEMMA WaitInvariant == Spec => []IInv
<1>1. Init => IInv
  BY NoThreadAssumption, Generations
     DEF Init, CondvarInit, Mutex!Init, IInv, TypeOK, Points, WaitPoints, MutexInv, Held, WaitInv
<1>2. IInv /\ [Next]_vars => IInv'
  BY WaitStep
<1> QED
  BY <1>1, <1>2, PTL DEF Spec

\* Nobody of a finished round sleeps on in the next one: a released thread is
\* asleep only while the leader, with the mutex, is about to wake everybody.
THEOREM BarrierWakesReleased == Spec => []ReleasedAreWoken
<1>1. IInv => ReleasedAreWoken
  BY DEF IInv, TypeOK, MutexInv, Held, WaitInv, ReleasedAreWoken, Released, Blocked
<1> QED
  BY <1>1, WaitInvariant, PTL
-----------------------------------------------------------------------------
(***************************************************************************)
(* The refinement.  A thread arrives or leaves; every other step moves it  *)
(* inside wait, where it stays with those that have arrived or with those  *)
(* that are released.                                                      *)
(***************************************************************************)
LEMMA ArrivedFinite == IsFiniteSet(Arrived) /\ Cardinality(Arrived) \in Nat
<1>1. Arrived \in SUBSET Threads
  BY DEF Arrived
<1> QED
  BY <1>1, ThreadsAssumption, FS_Subset, FS_CardinalityType

Stays == Arrived' = Arrived /\ Released' = Released

LEMMA StayStep ==
  ASSUME IInv, [Next]_vars
  PROVE  \/ \E t \in Threads : arrive(t) \/ leave(t)
         \/ Stays /\ count' = count
<1> USE DEF IInv, TypeOK, Points, WaitPoints, Goto, lock, unlock, data, Stays, Arrived, Released, Blocked
<1>1. ASSUME NEW t \in Threads, wait(t) PROVE Stays /\ count' = count
  BY <1>1 DEF wait
<1>2. ASSUME NEW t \in Threads, UNCHANGED data, local_gen[t] = generation_id, wait_load(t, "test") PROVE Stays /\ count' = count
  BY <1>2 DEF wait_load
<1>3. ASSUME NEW t \in Threads, UNCHANGED data, wait_unlock(t) PROVE Stays /\ count' = count
  BY <1>3 DEF wait_unlock
<1>4. ASSUME NEW t \in Threads, UNCHANGED data, wait_sleep(t) PROVE Stays /\ count' = count
  BY <1>4 DEF wait_sleep, futex_wait
<1>5. ASSUME NEW t \in Threads, UNCHANGED data, wait_lock(t, "test") PROVE Stays /\ count' = count
  BY <1>5 DEF wait_lock
<1>6. ASSUME NEW t \in Threads, next_generation(t) PROVE Stays /\ count' = count
  BY <1>6 DEF next_generation
<1>7. ASSUME NEW t \in Threads, UNCHANGED data, notify_add(t, "add", "wake") PROVE Stays /\ count' = count
  BY <1>7 DEF notify_add
<1>8. ASSUME NEW t \in Threads, UNCHANGED data, notify_all(t, "wake", "done") PROVE Stays /\ count' = count
  BY <1>8 DEF notify_all, futex_wake_all
<1>9. ASSUME NEW t \in Threads, SpuriousWakeup(t) PROVE Stays /\ count' = count
  BY <1>9 DEF SpuriousWakeup, wait_leave, futex_interrupted, futex_spurious
<1>10. CASE UNCHANGED vars
  BY <1>10 DEF vars
<1> QED
  BY <1>1, <1>2, <1>3, <1>4, <1>5, <1>6, <1>7, <1>8, <1>9, <1>10 DEF Next, Inside, wait_generation, notify

LEMMA LeaveStep ==
  ASSUME IInv, NEW t \in Threads, leave(t)
  PROVE  Abstract!Leave(t) /\ count' = count /\ Arrived' = Arrived
<1> USE DEF IInv, TypeOK, leave, unlock, Goto, Blocked, WaitPoints
<1>1. Arrived' = Arrived
  BY DEF Arrived
<1>2. t \in Released /\ Released' = Released \ {t}
  BY DEF Released
<1> QED
  BY <1>1, <1>2 DEF Abstract!Leave

\* The abstract module reaches Cardinality through its own EXTENDS.
LEMMA SameCardinality == \A S : Abstract!Cardinality(S) = Cardinality(S)
BY DEF Abstract!Cardinality, Cardinality

LEMMA ArriveStep ==
  ASSUME IInv, CountInv, NEW t \in Threads, arrive(t), TurnMissesNobody
  PROVE  Abstract!Arrive(t) /\ CountInv'
<1> USE BarrierAssumption DEF IInv, TypeOK, Goto, Blocked, WaitPoints
<1>1. t \notin Arrived /\ t \notin Released
  BY DEF arrive, Arrived, Released
<1>2. CASE count + 1 < num_threads
  <2>1. Arrived' = Arrived \cup {t}
    BY <1>2 DEF arrive, Arrived
  <2>2. Released' = Released
    BY <1>2 DEF arrive, Released
  <2>3. count' = count + 1
    BY <1>2 DEF arrive
  <2>4. Cardinality(Arrived') = Cardinality(Arrived) + 1
    BY <1>1, <2>1, ArrivedFinite, FS_AddElement
  <2>5. Cardinality(Arrived) = count
    BY DEF CountInv
  <2>6. CountInv'
    BY <2>3, <2>4, <2>5 DEF CountInv
  <2>7. Cardinality(Arrived) + 1 < num_threads
    BY <1>2, <2>5
  <2>8. Abstract!Arrive(t)
    BY ONLY <1>1, <2>1, <2>2, <2>7, SameCardinality DEF Abstract!Arrive
  <2> QED
    BY <2>6, <2>8
<1>3. CASE ~(count + 1 < num_threads)
  <2>1. count' = 0 /\ pc' = [pc EXCEPT ![t] = "add"] /\ pc[t] = "arrive"
    BY <1>3 DEF arrive
  <2>2. local_gen' = [local_gen EXCEPT ![t] = generation_id]
    BY DEF arrive
  <2>3. \A u \in Threads : Blocked(u) => local_gen[u] # generation_id'
    BY <2>1 DEF TurnMissesNobody
  <2>4. Arrived' = {}
    BY <2>1, <2>2, <2>3 DEF Arrived
  <2>5. Released' = Released \cup Arrived \cup {t}
    BY <2>1, <2>2, <2>3 DEF Arrived, Released
  <2>6. Cardinality(Arrived') = 0
    BY <2>4, FS_EmptySet
  <2>7. CountInv'
    BY <2>1, <2>6 DEF CountInv
  <2>8. ~(Cardinality(Arrived) + 1 < num_threads)
    BY <1>3 DEF CountInv
  <2>9. Abstract!Arrive(t)
    BY ONLY <1>1, <2>4, <2>5, <2>8, SameCardinality DEF Abstract!Arrive
  <2> QED
    BY <2>7, <2>9
<1> QED
  BY <1>2, <1>3

LEMMA RefinementStep ==
  ASSUME IInv, CountInv, [Next]_vars, [TurnMissesNobody]_vars
  PROVE  CountInv' /\ [Abstract!Next]_<<Arrived, Released>>
<1>1. ASSUME NEW t \in Threads, arrive(t) PROVE CountInv' /\ Abstract!Arrive(t)
  <2>1. pc' # pc
    BY <1>1 DEF IInv, TypeOK, arrive, Goto
  <2>2. TurnMissesNobody
    BY <2>1 DEF vars
  <2> QED
    BY <1>1, <2>2, ArriveStep
<1>2. ASSUME NEW t \in Threads, leave(t) PROVE CountInv' /\ Abstract!Leave(t)
  BY <1>2, LeaveStep DEF CountInv
<1>3. CASE Stays /\ count' = count
  BY <1>3 DEF Stays, CountInv
<1> QED
  BY <1>1, <1>2, <1>3, StayStep DEF Abstract!Next, Stays

LEMMA CountInit == Init => CountInv /\ Abstract!Init
<1> SUFFICES ASSUME Init PROVE CountInv /\ Abstract!Init
  OBVIOUS
<1>1. Arrived = {} /\ Released = {}
  BY DEF Init, Arrived, Released, Blocked, WaitPoints
<1> QED
  BY <1>1, FS_EmptySet DEF Init, CountInv, Abstract!Init

\* Nobody leaves before num_threads threads have arrived in its round, and all
\* of them may leave then, for any number of threads that use the barrier: up
\* to a waiter that does not run while the generation counter makes a full turn.
THEOREM BarrierRefinesRounds == Spec /\ NoFullTurn => ImplementsBarrier
<1>1. Init => CountInv /\ Abstract!Init
  BY CountInit
<1>2. IInv /\ CountInv /\ [Next]_vars /\ [TurnMissesNobody]_vars
        => CountInv' /\ [Abstract!Next]_<<Arrived, Released>>
  BY RefinementStep
<1> QED
  BY <1>1, <1>2, WaitInvariant, PTL DEF Spec, NoFullTurn, ImplementsBarrier, Abstract!Spec

\* With num_threads threads or fewer a leader meets everybody else in its own
\* round, and two generations are enough.
LEMMA LeaderMeetsAll ==
  ASSUME Cardinality(Threads) <= num_threads, Modulus > 1, IInv, CountInv, [Next]_vars
  PROVE  [TurnMissesNobody]_vars
<1> SUFFICES ASSUME NEW t \in Threads, arrive(t), pc'[t] = "add", NEW u \in Threads, Blocked(u)
             PROVE  local_gen[u] # generation_id'
  BY DEF TurnMissesNobody
<1>1. ~(count + 1 < num_threads) /\ generation_id' = (generation_id + 1) % Modulus
  BY DEF IInv, TypeOK, arrive, Goto
<1>2. t \notin Arrived /\ Arrived \cup {t} \subseteq Threads
  BY DEF arrive, Goto, Arrived, Blocked, WaitPoints
<1>3. Cardinality(Arrived \cup {t}) = count + 1
  BY <1>2, ArrivedFinite, FS_AddElement DEF CountInv
<1>4. Cardinality(Threads) \in Nat
  BY ThreadsAssumption, FS_CardinalityType
<1>5. Cardinality(Arrived \cup {t}) = Cardinality(Threads)
  <2>1. Cardinality(Arrived \cup {t}) <= Cardinality(Threads)
    BY <1>2, ThreadsAssumption, FS_Subset
  <2> QED
    BY <1>1, <1>3, <1>4, <2>1, BarrierAssumption DEF IInv, TypeOK
<1>6. Arrived \cup {t} = Threads
  BY <1>2, <1>5, ThreadsAssumption, FS_Subset
<1>7. u # t
  BY DEF arrive, Goto, Blocked, WaitPoints
<1>8. local_gen[u] = generation_id
  BY <1>6, <1>7 DEF Arrived
<1> QED
  BY <1>1, <1>8, Generations DEF IInv, TypeOK

\* The barrier as it is meant to be used, by num_threads threads.
THEOREM BarrierRefines ==
  ASSUME Cardinality(Threads) <= num_threads, Modulus > 1
  PROVE  Spec => ImplementsBarrier
<1>1. Init => CountInv
  BY CountInit
<1>2. IInv /\ CountInv /\ [Next]_vars => CountInv' /\ [TurnMissesNobody]_vars
  BY LeaderMeetsAll, RefinementStep
<1>3. Spec => NoFullTurn
  BY <1>1, <1>2, WaitInvariant, PTL DEF Spec, NoFullTurn
<1> QED
  BY <1>3, BarrierRefinesRounds, PTL

-----------------------------------------------------------------------------
(***************************************************************************)
(* CondvarQueue                                                            *)
(***************************************************************************)
QueuePoints == WaitPoints \cup
  {"idle", "put", "add", "wake", "add_held", "wake_held", "put_unlock", "test", "take"}

QueueTypeOK ==
  /\ pc \in [Threads -> QueuePoints]
  /\ owner \in Threads \cup {NoThread}
  /\ current \subseteq Threads
  /\ items \in Nat

\* The control points at which a thread holds the mutex.
QueueHeld == {"put", "add_held", "wake_held", "put_unlock", "test", "take", "cv_unlock"}

QueueMutexInv == \A t \in Threads : pc[t] \in QueueHeld <=> owner = t

\* A waiter that no fetch_add has reached since it loaded the counter.
Untouched(t) == t \in current /\ pc[t] \in {"cv_unlock", "cv_wait", "cv_asleep"}

\* Threads that are awake for an item, without and with those whose fetch_add
\* is done and whose futex_wake is still to come.
Coming == {t \in Threads : Looking(t) \/ pc[t] \in {"add", "add_held"}}

Waking == {t \in Threads : pc[t] \in {"wake", "wake_held"}}

ItemsInv ==
  /\ (\E t \in Threads : Untouched(t)) => items <= Cardinality(Coming)
  /\ (\E t \in Threads : pc[t] = "cv_asleep") => items <= Cardinality(Coming \cup Waking)

QueueInv == QueueTypeOK /\ QueueMutexInv /\ ConditionHolds /\ ItemsInv
-----------------------------------------------------------------------------
LEMMA Counting ==
  ASSUME NEW S \in SUBSET Threads, NEW T \in SUBSET Threads
  PROVE  /\ Cardinality(S) \in Nat /\ Cardinality(T) \in Nat
         /\ S \subseteq T => Cardinality(S) <= Cardinality(T)
         /\ \A x : S \ {x} \subseteq T => Cardinality(S) <= Cardinality(T) + 1
         /\ \A y : S \subseteq T /\ y \in T \ S => Cardinality(S) + 1 <= Cardinality(T)
         /\ \A x, y : S \ {x} \subseteq T /\ y \in T \ S => Cardinality(S) <= Cardinality(T)
<1>1. IsFiniteSet(S) /\ IsFiniteSet(T)
  BY ThreadsAssumption, FS_Subset
<1>2. Cardinality(S) \in Nat /\ Cardinality(T) \in Nat
  BY <1>1, FS_CardinalityType
<1>3. ASSUME NEW A, A \subseteq T PROVE IsFiniteSet(A) /\ Cardinality(A) \in Nat /\ Cardinality(A) <= Cardinality(T)
  BY <1>1, <1>3, FS_Subset, FS_CardinalityType
<1>4. S \subseteq T => Cardinality(S) <= Cardinality(T)
  BY <1>3
<1>5. ASSUME NEW x, S \ {x} \subseteq T PROVE Cardinality(S) <= Cardinality(T) + 1
  <2>1. Cardinality(S) <= Cardinality(S \ {x}) + 1
    BY <1>1, <1>2, FS_RemoveElement
  <2>2. Cardinality(S \ {x}) \in Nat /\ Cardinality(S \ {x}) <= Cardinality(T)
    BY <1>3, <1>5
  <2> QED
    BY <1>2, <2>1, <2>2
<1>6. ASSUME NEW y, S \subseteq T, y \in T \ S PROVE Cardinality(S) + 1 <= Cardinality(T)
  <2>1. S \cup {y} \subseteq T
    BY <1>6
  <2>2. Cardinality(S \cup {y}) <= Cardinality(T)
    BY <1>3, <2>1
  <2>3. Cardinality(S \cup {y}) = Cardinality(S) + 1
    BY <1>1, <1>6, FS_AddElement
  <2> QED
    BY <2>2, <2>3
<1>7. ASSUME NEW x, NEW y, S \ {x} \subseteq T, y \in T \ S PROVE Cardinality(S) <= Cardinality(T)
  <2>1. (S \ {x}) \cup {y} \subseteq T /\ y \notin S \ {x}
    BY <1>7
  <2>2. Cardinality((S \ {x}) \cup {y}) = Cardinality(S \ {x}) + 1
    BY <1>1, <2>1, FS_RemoveElement, FS_AddElement
  <2>3. Cardinality(S) <= Cardinality(S \ {x}) + 1
    BY <1>1, <1>2, FS_RemoveElement
  <2>4. Cardinality(S \ {x}) \in Nat
    BY <1>1, FS_RemoveElement, FS_CardinalityType
  <2> QED
    BY <1>2, <1>3, <2>1, <2>2, <2>3, <2>4
<1> QED
  BY <1>2, <1>4, <1>5, <1>6, <1>7

\* Steps that take nobody away from the items.
LEMMA CountKept ==
  ASSUME QueueTypeOK, QueueTypeOK', ItemsInv, items' <= items,
         Coming \subseteq Coming', Coming \cup Waking \subseteq (Coming \cup Waking)',
         \A u \in Threads : Untouched(u)' => Untouched(u),
         \A u \in Threads : pc'[u] = "cv_asleep" => pc[u] = "cv_asleep" \/ Untouched(u)
  PROVE  ItemsInv'
<1>1. Coming \in SUBSET Threads /\ Waking \in SUBSET Threads
  BY DEF Coming, Waking
<1>2. Coming' \in SUBSET Threads /\ Waking' \in SUBSET Threads
  BY DEF Coming, Waking
<1>3. Cardinality(Coming) <= Cardinality(Coming')
  BY <1>1, <1>2, Counting
<1>4. Cardinality(Coming) <= Cardinality(Coming \cup Waking)
  BY <1>1, <1>2, Counting
<1>5. Cardinality(Coming \cup Waking) <= Cardinality((Coming \cup Waking)')
  BY <1>1, <1>2, Counting
<1>6. /\ Cardinality(Coming) \in Nat /\ Cardinality(Coming') \in Nat
      /\ Cardinality(Coming \cup Waking) \in Nat /\ Cardinality((Coming \cup Waking)') \in Nat
  BY <1>1, <1>2, Counting
<1> QED
  BY <1>3, <1>4, <1>5, <1>6 DEF ItemsInv, QueueTypeOK

\* Nobody is needed where there is no item.
LEMMA NoItems ==
  ASSUME items' = 0
  PROVE  ItemsInv'
<1>1. Coming' \in SUBSET Threads /\ (Coming \cup Waking)' \in SUBSET Threads
  BY DEF Coming, Waking
<1> QED
  BY <1>1, Counting DEF ItemsInv

LEMMA QueueStep ==
  ASSUME QueueInv, [QueueNext]_queue_vars
  PROVE  QueueInv'
<1> USE NoThreadAssumption DEF QueueInv, QueueTypeOK, QueuePoints, WaitPoints, QueueMutexInv, QueueHeld, ConditionHolds,
        Goto, lock, unlock, Mutex!Acquire, Mutex!Release
<1>0. Coming \in SUBSET Threads /\ Waking \in SUBSET Threads /\ Coming' \in SUBSET Threads /\ Waking' \in SUBSET Threads
  BY DEF Coming, Waking
<1>1. ASSUME NEW t \in Threads, put_lock(t) PROVE QueueInv'
  <2>1. QueueTypeOK' /\ QueueMutexInv' /\ ConditionHolds'
    BY <1>1 DEF put_lock
  <2>2. ItemsInv'
    BY <1>1, <2>1, CountKept DEF put_lock, Coming, Waking, Looking, Untouched
  <2> QED
    BY <2>1, <2>2
<1>2. ASSUME NEW t \in Threads, put(t) PROVE QueueInv'
  <2>1. QueueTypeOK' /\ QueueMutexInv' /\ ConditionHolds'
    BY <1>2 DEF put
  <2>2. ItemsInv'
    <3>1. Coming \subseteq Coming' /\ t \in Coming' \ Coming
      BY <1>2 DEF put, Coming, Looking
    <3>2. Coming \cup Waking \subseteq (Coming \cup Waking)' /\ t \in (Coming \cup Waking)' \ (Coming \cup Waking)
      BY <1>2 DEF put, Coming, Waking, Looking
    <3>3. /\ Cardinality(Coming) + 1 <= Cardinality(Coming')
          /\ Cardinality(Coming \cup Waking) + 1 <= Cardinality((Coming \cup Waking)')
          /\ Cardinality(Coming) \in Nat /\ Cardinality(Coming') \in Nat
          /\ Cardinality(Coming \cup Waking) \in Nat /\ Cardinality((Coming \cup Waking)') \in Nat
      BY <1>0, <3>1, <3>2, Counting
    <3>4. (\E u \in Threads : Untouched(u)') => \E u \in Threads : Untouched(u)
      BY <1>2 DEF put, Untouched
    <3>5. (\E u \in Threads : pc'[u] = "cv_asleep") => \E u \in Threads : pc[u] = "cv_asleep"
      BY <1>2 DEF put
    <3> QED
      BY <1>2, <3>3, <3>4, <3>5 DEF put, ItemsInv
  <2> QED
    BY <2>1, <2>2
<1>3. ASSUME NEW t \in Threads, UNCHANGED items, notify_add(t, "add", "wake") \/ notify_add(t, "add_held", "wake_held") PROVE QueueInv'
  <2>1. QueueTypeOK' /\ QueueMutexInv' /\ ConditionHolds'
    BY <1>3 DEF notify_add
  <2>2. ItemsInv'
    <3>1. ~\E u \in Threads : Untouched(u)'
      BY <1>3 DEF notify_add, Untouched
    <3>2. Coming \cup Waking \subseteq (Coming \cup Waking)'
      BY <1>3 DEF notify_add, Coming, Waking, Looking
    <3>3. /\ Cardinality(Coming \cup Waking) <= Cardinality((Coming \cup Waking)')
          /\ Cardinality(Coming \cup Waking) \in Nat /\ Cardinality((Coming \cup Waking)') \in Nat
      BY <1>0, <3>2, Counting
    <3>4. (\E u \in Threads : pc'[u] = "cv_asleep") => \E u \in Threads : pc[u] = "cv_asleep"
      BY <1>3 DEF notify_add
    <3> QED
      BY <1>3, <3>1, <3>3, <3>4 DEF ItemsInv
  <2> QED
    BY <2>1, <2>2
<1>4. ASSUME NEW t \in Threads, UNCHANGED items, notify_one(t, "wake", "idle") \/ notify_one(t, "wake_held", "put_unlock") PROVE QueueInv'
  <2>1. QueueTypeOK' /\ QueueMutexInv' /\ ConditionHolds'
    BY <1>4 DEF notify_one, futex_wake, Sleepers
  <2>2. ItemsInv'
    <3>1. Coming \subseteq Coming' /\ \A u \in Threads : Untouched(u)' => Untouched(u)
      BY <1>4 DEF notify_one, futex_wake, Sleepers, Coming, Looking, Untouched
    <3>2. Cardinality(Coming) <= Cardinality(Coming') /\ Cardinality(Coming) \in Nat /\ Cardinality(Coming') \in Nat
      BY <1>0, <3>1, Counting
    <3>3. ASSUME NEW u \in Threads, pc'[u] = "cv_asleep"
          PROVE  items <= Cardinality((Coming \cup Waking)')
      <4>1. pc[u] = "cv_asleep"
        BY <1>4, <3>3 DEF notify_one, futex_wake, Sleepers
      <4>2. PICK v \in Threads : pc[v] = "cv_asleep" /\ pc'[v] = "cv_lock"
        BY <1>4, <4>1 DEF notify_one, futex_wake, Sleepers
      <4>3. (Coming \cup Waking) \ {t} \subseteq (Coming \cup Waking)'
        BY <1>4 DEF notify_one, futex_wake, Sleepers, Coming, Waking, Looking
      <4>4. v \in (Coming \cup Waking)' \ (Coming \cup Waking)
        BY <4>2 DEF Coming, Waking, Looking
      <4>5. /\ Cardinality(Coming \cup Waking) <= Cardinality((Coming \cup Waking)')
            /\ Cardinality(Coming \cup Waking) \in Nat /\ Cardinality((Coming \cup Waking)') \in Nat
        BY <1>0, <4>3, <4>4, Counting
      <4> QED
        BY <4>1, <4>5 DEF ItemsInv
    <3> QED
      BY <1>4, <3>1, <3>2, <3>3 DEF ItemsInv
  <2> QED
    BY <2>1, <2>2
<1>5. ASSUME NEW t \in Threads, UNCHANGED items, notify_all(t, "wake", "idle") \/ notify_all(t, "wake_held", "put_unlock") PROVE QueueInv'
  <2>1. QueueTypeOK' /\ QueueMutexInv' /\ ConditionHolds'
    BY <1>5 DEF notify_all, futex_wake_all
  <2>2. ItemsInv'
    <3>1. Coming \subseteq Coming' /\ \A u \in Threads : Untouched(u)' => Untouched(u)
      BY <1>5 DEF notify_all, futex_wake_all, Coming, Looking, Untouched
    <3>2. Cardinality(Coming) <= Cardinality(Coming') /\ Cardinality(Coming) \in Nat /\ Cardinality(Coming') \in Nat
      BY <1>0, <3>1, Counting
    <3>3. \A u \in Threads : pc'[u] # "cv_asleep"
      BY <1>5 DEF notify_all, futex_wake_all
    <3> QED
      BY <1>5, <3>1, <3>2, <3>3 DEF ItemsInv
  <2> QED
    BY <2>1, <2>2
<1>6. ASSUME NEW t \in Threads, UNCHANGED items, unlock(t, "put_unlock", "idle") PROVE QueueInv'
  <2>1. QueueTypeOK' /\ QueueMutexInv' /\ ConditionHolds'
    BY <1>6 DEF unlock
  <2>2. ItemsInv'
    BY <1>6, <2>1, CountKept DEF unlock, Coming, Waking, Looking, Untouched
  <2> QED
    BY <2>1, <2>2
<1>7. ASSUME NEW t \in Threads, take_lock(t) PROVE QueueInv'
  <2>1. QueueTypeOK' /\ QueueMutexInv' /\ ConditionHolds'
    BY <1>7 DEF take_lock
  <2>2. ItemsInv'
    BY <1>7, <2>1, CountKept DEF take_lock, Coming, Waking, Looking, Untouched
  <2> QED
    BY <2>1, <2>2
<1>8. ASSUME NEW t \in Threads, UNCHANGED items, items = 0, wait_load(t, "test") PROVE QueueInv'
  <2>1. QueueTypeOK' /\ QueueMutexInv' /\ ConditionHolds'
    BY <1>8 DEF wait_load
  <2>2. ItemsInv'
    BY <1>8, NoItems DEF wait_load
  <2> QED
    BY <2>1, <2>2
<1>9. ASSUME NEW t \in Threads, UNCHANGED items, wait_unlock(t) PROVE QueueInv'
  <2>1. QueueTypeOK' /\ QueueMutexInv' /\ ConditionHolds'
    BY <1>9 DEF wait_unlock
  <2>2. ItemsInv'
    BY <1>9, <2>1, CountKept DEF wait_unlock, Coming, Waking, Looking, Untouched
  <2> QED
    BY <2>1, <2>2
<1>10. ASSUME NEW t \in Threads, UNCHANGED items, wait_sleep(t) PROVE QueueInv'
  <2>1. QueueTypeOK' /\ QueueMutexInv' /\ ConditionHolds'
    BY <1>10 DEF wait_sleep, futex_wait
  <2>2. ItemsInv'
    BY <1>10, <2>1, CountKept DEF wait_sleep, futex_wait, Coming, Waking, Looking, Untouched
  <2> QED
    BY <2>1, <2>2
<1>11. ASSUME NEW t \in Threads, UNCHANGED items, wait_lock(t, "test") PROVE QueueInv'
  <2>1. QueueTypeOK' /\ QueueMutexInv' /\ ConditionHolds'
    BY <1>11 DEF wait_lock
  <2>2. ItemsInv'
    BY <1>11, <2>1, CountKept DEF wait_lock, Coming, Waking, Looking, Untouched
  <2> QED
    BY <2>1, <2>2
<1>12. ASSUME NEW t \in Threads, condition_false(t) PROVE QueueInv'
  <2>1. QueueTypeOK' /\ QueueMutexInv' /\ ConditionHolds'
    BY <1>12 DEF condition_false
  <2>2. ItemsInv'
    BY <1>12, <2>1, CountKept DEF condition_false, Coming, Waking, Looking, Untouched
  <2> QED
    BY <2>1, <2>2
<1>13. ASSUME NEW t \in Threads, take(t) PROVE QueueInv'
  <2>1. QueueTypeOK' /\ QueueMutexInv' /\ ConditionHolds'
    BY <1>13 DEF take
  <2>2. ItemsInv'
    <3>1. /\ Coming \ {t} \subseteq Coming'
          /\ (Coming \cup Waking) \ {t} \subseteq (Coming \cup Waking)'
      BY <1>13 DEF take, Coming, Waking, Looking
    <3>2. /\ Cardinality(Coming) <= Cardinality(Coming') + 1
          /\ Cardinality(Coming \cup Waking) <= Cardinality((Coming \cup Waking)') + 1
          /\ Cardinality(Coming) \in Nat /\ Cardinality(Coming') \in Nat
          /\ Cardinality(Coming \cup Waking) \in Nat /\ Cardinality((Coming \cup Waking)') \in Nat
      BY <1>0, <3>1, Counting
    <3>3. (\E u \in Threads : Untouched(u)') => \E u \in Threads : Untouched(u)
      BY <1>13 DEF take, Untouched
    <3>4. (\E u \in Threads : pc'[u] = "cv_asleep") => \E u \in Threads : pc[u] = "cv_asleep"
      BY <1>13 DEF take
    <3> QED
      BY <1>13, <3>2, <3>3, <3>4 DEF take, ItemsInv
  <2> QED
    BY <2>1, <2>2
<1>14. ASSUME NEW t \in Threads, timed_out(t) PROVE QueueInv'
  <2>1. QueueTypeOK' /\ QueueMutexInv' /\ ConditionHolds'
    BY <1>14 DEF timed_out
  <2>2. ItemsInv'
    BY <1>14, NoItems DEF timed_out
  <2> QED
    BY <2>1, <2>2
<1>15. ASSUME NEW t \in Threads, Leave(t) PROVE QueueInv'
  <2>1. QueueTypeOK' /\ QueueMutexInv' /\ ConditionHolds'
    BY <1>15 DEF Leave, wait_leave, futex_interrupted, futex_spurious
  <2>2. ItemsInv'
    BY <1>15, <2>1, CountKept DEF Leave, wait_leave, futex_interrupted, futex_spurious, Coming, Waking, Looking, Untouched
  <2> QED
    BY <2>1, <2>2
<1>16. CASE UNCHANGED queue_vars
  BY <1>16, CountKept DEF queue_vars, Coming, Waking, Looking, Untouched
<1> QED
  BY <1>1, <1>2, <1>3, <1>4, <1>5, <1>6, <1>7, <1>8, <1>9, <1>10, <1>11, <1>12, <1>13, <1>14, <1>15, <1>16 DEF QueueNext, QueueInside, put_notify, wait_while

LEMMA QueueInvariant == QueueSpec => []QueueInv
<1>1. QueueInit => QueueInv
  <2> SUFFICES ASSUME QueueInit PROVE QueueInv
    OBVIOUS
  <2>1. QueueTypeOK /\ QueueMutexInv /\ ConditionHolds
    BY NoThreadAssumption
       DEF QueueInit, CondvarInit, Mutex!Init, QueueTypeOK, QueuePoints, WaitPoints, QueueMutexInv, QueueHeld, ConditionHolds
  <2>2. ItemsInv
    BY DEF QueueInit, CondvarInit, ItemsInv, Untouched
  <2> QED
    BY <2>1, <2>2 DEF QueueInv
<1>2. QueueInv /\ [QueueNext]_queue_vars => QueueInv'
  BY QueueStep
<1> QED
  BY <1>1, <1>2, PTL DEF QueueSpec

\* wait_while returns only with its condition false, however many threads get
\* the mutex between the notification and the waiter.
THEOREM QueueConditionHolds == QueueSpec => []ConditionHolds
BY QueueInvariant, PTL DEF QueueInv

\* A notification that falls between the load of the counter and the futex_wait,
\* or that meets a thread which does not take the item, is not lost.
THEOREM QueueNoMissedNotification == QueueSpec => []NoMissedNotification
<1>1. QueueInv => NoMissedNotification
  <2> SUFFICES ASSUME QueueInv, items > 0, Sleepers("cv_asleep") # {}
               PROVE  \E t \in Threads : Looking(t) \/ Notifying(t)
    BY DEF NoMissedNotification
  <2>1. items <= Cardinality(Coming \cup Waking) /\ items \in Nat
    BY DEF QueueInv, QueueTypeOK, ItemsInv, Sleepers
  <2>2. Coming \cup Waking # {}
    BY <2>1, FS_EmptySet
  <2> QED
    BY <2>2 DEF Coming, Waking, Notifying
<1> QED
  BY <1>1, QueueInvariant, PTL
=============================================================================
