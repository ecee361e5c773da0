----------------------------- MODULE FutexProofs -----------------------------
(***************************************************************************)
(* Proofs about three primitives that live in one futex word each, for any *)
(* set of threads.                                                         *)
(*                                                                         *)
(* FutexOnce: one runner, a completed cell stays completed, no waiter is   *)
(* forgotten, exclusive access finds a clean word, and the refinement of   *)
(* AbstractOnce.                                                           *)
(*                                                                         *)
(* FutexParker, any width of the state: no wake-up is lost, and the        *)
(* refinement of AbstractParker.  The inductive invariant is that the      *)
(* state has one of its three values and is PARKED only while the owner is *)
(* inside park, that the owner inside park finds it PARKED or NOTIFIED,    *)
(* and that nobody else is inside park (or a futex_wake could go to the    *)
(* wrong thread).                                                          *)
(*                                                                         *)
(* FutexMutex: type correctness, mutual exclusion, the absence of lost     *)
(* wake-ups, and the refinement of AbstractMutex.                          *)
(***************************************************************************)
EXTENDS FutexOnce, FutexParker, FutexMutex, TLAPS

(***************************************************************************)
(* FutexOnce                                                               *)
(***************************************************************************)
\* The word, the control points and the locals keep their types.
LEMMA OnceTypeCorrect == Spec => []TypeOK
<1> USE DEF TypeOK, Word, W, States, ControlPoints
<1>1. Init => TypeOK
  BY DEF Init
<1>2. TypeOK /\ [Next]_vars => TypeOK'
  <2> SUFFICES ASSUME TypeOK, [Next]_vars PROVE TypeOK'
    OBVIOUS
  <2>1. ASSUME NEW t \in Threads, NEW o \in {"call", "wait"}, NEW i \in BOOLEAN, enter(t, o, i) PROVE TypeOK'
    BY <2>1 DEF enter, is_completed, Goto
  <2>2. ASSUME NEW t \in Threads, load(t) PROVE TypeOK'
    BY <2>2 DEF load, Goto
  <2>3. ASSUME NEW t \in Threads, return_or_panic(t) PROVE TypeOK'
    BY <2>3 DEF return_or_panic, Return, Goto
  <2>4. ASSUME NEW t \in Threads, start_running(t) PROVE TypeOK'
    <3>1. seen[t] \in Word /\ W("RUNNING", seen[t].queued) \in Word
      OBVIOUS
    <3>2. W("INCOMPLETE", FALSE) \in Word
      OBVIOUS
    <3>3. CASE Run(t, seen[t].queued)
      <4> HIDE DEF Word, W, States
      <4> QED BY <3>1, <3>2, <3>3 DEF Run, Goto
    <3>4. CASE Reload(t)
      <4> HIDE DEF Word, W, States
      <4> QED BY <3>4 DEF Reload
    <3> QED
      BY <2>4, <3>3, <3>4 DEF start_running
  <2>5. ASSUME NEW t \in Threads, queue(t) PROVE TypeOK'
    <3>1. W(word.state, TRUE) \in Word
      OBVIOUS
    <3> HIDE DEF Word, W, States
    <3> QED
      BY <2>5, <3>1 DEF queue, Reload, Goto
  <2>6. ASSUME NEW t \in Threads, wait(t) PROVE TypeOK'
    BY <2>6 DEF wait, futex_wait, Goto
  <2>7. ASSUME NEW t \in Threads, leave_wait(t) PROVE TypeOK'
    BY <2>7 DEF leave_wait, futex_interrupted, futex_spurious, Goto
  <2>8. ASSUME NEW t \in Threads, NEW s \in {"COMPLETE", "POISONED"}, finish(t, s) PROVE TypeOK'
    BY <2>8 DEF finish, Goto
  <2>9. ASSUME NEW t \in Threads, wake_all(t) PROVE TypeOK'
    BY <2>9 DEF wake_all, futex_wake_all
  <2>10. CASE UNCHANGED vars
    BY <2>10 DEF vars
  <2> QED
    BY <2>1, <2>2, <2>3, <2>4, <2>5, <2>6, <2>7, <2>8, <2>9, <2>10
       DEF Next, Enter, call_once, call_once_force, wait_once, wait_force,
           Inside, Done
<1> QED
  BY <1>1, <1>2, PTL DEF Spec

-----------------------------------------------------------------------------
(***************************************************************************)
(* The word tells whether a closure runs: a thread starts to run one only  *)
(* by an exchange from INCOMPLETE or POISONED, when nobody runs one.       *)
(***************************************************************************)
THEOREM OnceOneRunner == Spec => []OneRunner
<1> USE DEF OneRunner
<1>1. Init => OneRunner
  BY DEF Init, W
<1>2. TypeOK /\ TypeOK' /\ OneRunner /\ [Next]_vars => OneRunner'
  <2> SUFFICES ASSUME TypeOK, TypeOK', OneRunner, [Next]_vars PROVE OneRunner'
    OBVIOUS
  <2> USE DEF TypeOK, Word, W
  <2>1. ASSUME NEW t \in Threads, NEW o \in {"call", "wait"}, NEW i \in BOOLEAN, enter(t, o, i) PROVE OneRunner'
    BY <2>1 DEF enter, is_completed, Goto
  <2>2. ASSUME NEW t \in Threads, load(t) PROVE OneRunner'
    BY <2>2 DEF load, Goto
  <2>3. ASSUME NEW t \in Threads, return_or_panic(t) PROVE OneRunner'
    BY <2>3 DEF return_or_panic, Return, Goto
  <2>4. ASSUME NEW t \in Threads, start_running(t) PROVE OneRunner'
    BY <2>4 DEF start_running, Run, Reload, Goto, Runnable
  <2>5. ASSUME NEW t \in Threads, queue(t) PROVE OneRunner'
    <3>1. CASE UNCHANGED <<word, seen>> /\ Goto(t, "loop", "wait") /\ seen[t].queued
      BY <3>1 DEF Goto
    <3>2. CASE /\ word' = W(word.state, TRUE)
               /\ seen' = [seen EXCEPT ![t] = W(word.state, TRUE)]
               /\ Goto(t, "loop", "wait")
      BY <3>2 DEF Goto
    <3>3. CASE Reload(t)
      BY <3>3 DEF Reload
    <3> QED
      BY <2>5, <3>1, <3>2, <3>3 DEF queue
  <2>6. ASSUME NEW t \in Threads, wait(t) PROVE OneRunner'
    BY <2>6 DEF wait, futex_wait, Goto
  <2>7. ASSUME NEW t \in Threads, leave_wait(t) PROVE OneRunner'
    BY <2>7 DEF leave_wait, futex_interrupted, futex_spurious, Goto
  <2>8. ASSUME NEW t \in Threads, NEW s \in {"COMPLETE", "POISONED"}, finish(t, s) PROVE OneRunner'
    BY <2>8 DEF finish, Goto
  <2>9. ASSUME NEW t \in Threads, wake_all(t) PROVE OneRunner'
    BY <2>9 DEF wake_all, futex_wake_all
  <2>10. CASE UNCHANGED vars
    BY <2>10 DEF vars
  <2> QED
    BY <2>1, <2>2, <2>3, <2>4, <2>5, <2>6, <2>7, <2>8, <2>9, <2>10
       DEF Next, Enter, call_once, call_once_force, wait_once, wait_force,
           Inside, Done
<1> QED
  BY <1>1, <1>2, OnceTypeCorrect, PTL DEF Spec

-----------------------------------------------------------------------------
(***************************************************************************)
(* Only finish leaves the state COMPLETE, and it needs a runner, which a   *)
(* completed cell has not: what was once seen to be complete stays so.     *)
(***************************************************************************)
THEOREM OnceCompleteIsFinal == Spec => []CompleteIsFinal
<1> DEFINE Clean == word.state = "COMPLETE" => word = W("COMPLETE", FALSE)
           J == CompleteIsFinal /\ Clean
<1> USE DEF CompleteIsFinal
<1>1. Init => J
  BY DEF Init, W
<1>2. TypeOK /\ TypeOK' /\ OneRunner /\ J /\ [Next]_vars => J'
  <2> SUFFICES ASSUME TypeOK, TypeOK', OneRunner, J, [Next]_vars PROVE J'
    OBVIOUS
  <2> USE DEF TypeOK, Word, W, OneRunner
  <2>1. ASSUME NEW t \in Threads, NEW o \in {"call", "wait"}, NEW i \in BOOLEAN, enter(t, o, i) PROVE J'
    BY <2>1 DEF enter, is_completed, Goto
  <2>2. ASSUME NEW t \in Threads, load(t) PROVE J'
    BY <2>2 DEF load, Goto
  <2>3. ASSUME NEW t \in Threads, return_or_panic(t) PROVE J'
    BY <2>3 DEF return_or_panic, Return, Goto
  <2>4. ASSUME NEW t \in Threads, start_running(t) PROVE J'
    BY <2>4 DEF start_running, Run, Reload, Goto, Runnable
  <2>5. ASSUME NEW t \in Threads, queue(t) PROVE J'
    <3>1. CASE UNCHANGED <<word, seen>> /\ Goto(t, "loop", "wait") /\ seen[t].queued
      BY <3>1 DEF Goto
    <3>2. CASE /\ word = seen[t]
               /\ word' = W(word.state, TRUE)
               /\ seen' = [seen EXCEPT ![t] = W(word.state, TRUE)]
      <4>1. word.state # "COMPLETE"
        BY <2>5, <3>2 DEF queue, MustQueue, Runnable
      <4>2. \A u \in Threads : seen[u].state # "COMPLETE"
        BY <4>1
      <4> QED
        BY <3>2, <4>1, <4>2
    <3>3. CASE Reload(t)
      BY <3>3 DEF Reload
    <3> QED
      BY <2>5, <3>1, <3>2, <3>3 DEF queue
  <2>6. ASSUME NEW t \in Threads, wait(t) PROVE J'
    BY <2>6 DEF wait, futex_wait, Goto
  <2>7. ASSUME NEW t \in Threads, leave_wait(t) PROVE J'
    BY <2>7 DEF leave_wait, futex_interrupted, futex_spurious, Goto
  <2>8. ASSUME NEW t \in Threads, NEW s \in {"COMPLETE", "POISONED"}, finish(t, s) PROVE J'
    <3>1. word.state = "RUNNING"
      <4>1. pc[t] = "running"
        BY <2>8 DEF finish, Goto
      <4> QED
        BY <4>1
    <3>2. \A u \in Threads : seen[u].state # "COMPLETE"
      BY <3>1
    <3>3. word' = W(s, FALSE) /\ seen' = seen
      BY <2>8 DEF finish
    <3> QED
      BY <3>2, <3>3
  <2>9. ASSUME NEW t \in Threads, wake_all(t) PROVE J'
    BY <2>9 DEF wake_all, futex_wake_all
  <2>10. CASE UNCHANGED vars
    BY <2>10 DEF vars
  <2> QED
    BY <2>1, <2>2, <2>3, <2>4, <2>5, <2>6, <2>7, <2>8, <2>9, <2>10
       DEF Next, Enter, call_once, call_once_force, wait_once, wait_force,
           Inside, Done
<1>3. J => CompleteIsFinal
  OBVIOUS
<1> QED
  BY <1>1, <1>2, <1>3, OnceTypeCorrect, OnceOneRunner, PTL DEF Spec

-----------------------------------------------------------------------------
(***************************************************************************)
(* A sleeper went to sleep with the QUEUED bit on.  An exchange by call    *)
(* keeps the bit, and finish takes it away only to go on to wake_all.      *)
(***************************************************************************)
THEOREM OnceWaiterIsOwed == Spec => []WaiterIsOwed
<1> DEFINE Marked == \A t \in Threads : pc[t] \in {"wait", "asleep"} => seen[t].queued
           J == WaiterIsOwed /\ Marked
<1> USE DEF WaiterIsOwed, Sleepers
<1>1. Init => J
  BY DEF Init
<1>2. TypeOK /\ TypeOK' /\ J /\ [Next]_vars => J'
  <2> SUFFICES ASSUME TypeOK, TypeOK', J, [Next]_vars PROVE J'
    OBVIOUS
  <2> USE DEF TypeOK, Word, W
  <2>1. ASSUME NEW t \in Threads, NEW o \in {"call", "wait"}, NEW i \in BOOLEAN, enter(t, o, i) PROVE J'
    BY <2>1 DEF enter, is_completed, Goto
  <2>2. ASSUME NEW t \in Threads, load(t) PROVE J'
    BY <2>2 DEF load, Goto
  <2>3. ASSUME NEW t \in Threads, return_or_panic(t) PROVE J'
    BY <2>3 DEF return_or_panic, Return, Goto
  <2>4. ASSUME NEW t \in Threads, start_running(t) PROVE J'
    BY <2>4 DEF start_running, Run, Reload, Goto, Runnable
  <2>5. ASSUME NEW t \in Threads, queue(t) PROVE J'
    <3>1. CASE UNCHANGED <<word, seen>> /\ Goto(t, "loop", "wait") /\ seen[t].queued
      BY <3>1 DEF Goto
    <3>2. CASE /\ word' = W(word.state, TRUE)
               /\ seen' = [seen EXCEPT ![t] = W(word.state, TRUE)]
               /\ Goto(t, "loop", "wait")
      BY <3>2 DEF Goto
    <3>3. CASE Reload(t)
      BY <3>3 DEF Reload
    <3> QED
      BY <2>5, <3>1, <3>2, <3>3 DEF queue
  <2>6. ASSUME NEW t \in Threads, wait(t) PROVE J'
    BY <2>6 DEF wait, futex_wait, Goto
  <2>7. ASSUME NEW t \in Threads, leave_wait(t) PROVE J'
    BY <2>7 DEF leave_wait, futex_interrupted, futex_spurious, Goto
  <2>8. ASSUME NEW t \in Threads, NEW s \in {"COMPLETE", "POISONED"}, finish(t, s) PROVE J'
    BY <2>8 DEF finish, Goto
  <2>9. ASSUME NEW t \in Threads, wake_all(t) PROVE J'
    BY <2>9 DEF wake_all, futex_wake_all
  <2>10. CASE UNCHANGED vars
    BY <2>10 DEF vars
  <2> QED
    BY <2>1, <2>2, <2>3, <2>4, <2>5, <2>6, <2>7, <2>8, <2>9, <2>10
       DEF Next, Enter, call_once, call_once_force, wait_once, wait_force,
           Inside, Done
<1>3. J => WaiterIsOwed
  OBVIOUS
<1> QED
  BY <1>1, <1>2, <1>3, OnceTypeCorrect, PTL DEF Spec

-----------------------------------------------------------------------------
(***************************************************************************)
(* The owner of the QUEUED bit.  Every step but its own keeps it the owner *)
(* as long as the word does; its own steps go round the loop, where the    *)
(* word it loads makes it wait again.                                      *)
(***************************************************************************)
Owns(t) ==
  /\ pc[t] \in {"wait", "asleep", "load", "loop"}
  /\ op[t] = "call" => word.state = "RUNNING"
  /\ word.state = "POISONED" => ignore[t]
  /\ pc[t] = "loop" => ~Leaving(t)

\* The QUEUED bit always has an owner inside the loop of call or wait.
THEOREM OnceQueuedHasOwner == Spec => []QueuedHasOwner
<1>0. QueuedHasOwner <=>
        (word.queued => word.state # "COMPLETE" /\ \E t \in Threads : Owns(t))
  BY DEF QueuedHasOwner, Owns
<1>1. Init => QueuedHasOwner
  BY DEF Init, QueuedHasOwner, W
<1>2. TypeOK /\ TypeOK' /\ OneRunner /\ QueuedHasOwner /\ [Next]_vars => QueuedHasOwner'
  <2> SUFFICES ASSUME TypeOK, TypeOK', OneRunner, QueuedHasOwner, [Next]_vars,
                      word.queued'
               PROVE  word.state' # "COMPLETE" /\ \E u \in Threads : Owns(u)'
    BY DEF QueuedHasOwner, Owns
  <2> DEFINE Goal == word.state' # "COMPLETE" /\ \E u \in Threads : Owns(u)'
  <2> USE DEF TypeOK, Word, W
  <2>1. ASSUME NEW t \in Threads, NEW o \in {"call", "wait"}, NEW i \in BOOLEAN, enter(t, o, i)
        PROVE  Goal
    <3>1. PICK u \in Threads : Owns(u) /\ word.state # "COMPLETE"
      BY <1>0, <2>1 DEF enter
    <3> QED
      BY <2>1, <3>1 DEF enter, Goto, Owns, Leaving
  <2>2. ASSUME NEW t \in Threads, load(t) PROVE Goal
    <3>1. PICK u \in Threads : Owns(u) /\ word.state # "COMPLETE"
      BY <1>0, <2>2 DEF load
    <3>2. CASE u = t
      BY <2>2, <3>1, <3>2 DEF load, Goto, Owns, Leaving
    <3>3. CASE u # t
      BY <2>2, <3>1, <3>3 DEF load, Goto, Owns, Leaving
    <3> QED
      BY <3>2, <3>3
  <2>3. ASSUME NEW t \in Threads, return_or_panic(t) PROVE Goal
    <3>1. PICK u \in Threads : Owns(u) /\ word.state # "COMPLETE"
      BY <1>0, <2>3 DEF return_or_panic
    <3>2. u # t
      BY <2>3, <3>1 DEF return_or_panic, Return, Goto, Owns
    <3> QED
      BY <2>3, <3>1, <3>2 DEF return_or_panic, Return, Goto, Owns, Leaving
  <2>4. ASSUME NEW t \in Threads, start_running(t) PROVE Goal
    <3>1. CASE Run(t, seen[t].queued)
      <4>1. word.queued /\ word.state # "RUNNING" /\ op[t] = "call"
        BY <2>4, <3>1 DEF start_running, Run, Runnable
      <4>2. PICK u \in Threads : Owns(u) /\ word.state # "COMPLETE"
        BY <1>0, <4>1
      <4>3. u # t
        BY <4>1, <4>2 DEF Owns
      <4>4. word.state' = "RUNNING" /\ pc'[u] = pc[u] /\ seen'[u] = seen[u]
            /\ op' = op /\ ignore'[u] = ignore[u]
        BY <3>1, <4>3 DEF Run, Goto
      <4> QED
        BY <4>2, <4>4 DEF Owns, Leaving
    <3>2. CASE Reload(t)
      <4>1. PICK u \in Threads : Owns(u) /\ word.state # "COMPLETE"
        BY <1>0, <3>2 DEF Reload
      <4> QED
        BY <3>2, <4>1 DEF Reload, Owns, Leaving
    <3> QED
      BY <2>4, <3>1, <3>2 DEF start_running
  <2>5. ASSUME NEW t \in Threads, queue(t) PROVE Goal
    <3>1. CASE Goto(t, "loop", "wait") /\ seen[t].queued /\ UNCHANGED <<word, seen, op, ignore>>
      <4>1. PICK u \in Threads : Owns(u) /\ word.state # "COMPLETE"
        BY <1>0, <3>1
      <4> QED
        BY <3>1, <4>1 DEF Goto, Owns, Leaving
    <3>2. CASE /\ word = seen[t]
               /\ word' = W(word.state, TRUE)
               /\ Goto(t, "loop", "wait")
               /\ UNCHANGED <<op, ignore>>
      <4>1. word.state # "COMPLETE" /\ (op[t] = "call" => word.state = "RUNNING")
            /\ (word.state = "POISONED" => ignore[t])
        BY <2>5, <3>2 DEF queue, MustQueue, Runnable
      <4>2. Owns(t)'
        BY <3>2, <4>1 DEF Goto, Owns
      <4> QED
        BY <3>2, <4>1, <4>2
    <3>3. CASE Reload(t)
      <4>1. PICK u \in Threads : Owns(u) /\ word.state # "COMPLETE"
        BY <1>0, <3>3 DEF Reload
      <4> QED
        BY <3>3, <4>1 DEF Reload, Owns, Leaving
    <3> QED
      BY <2>5, <3>1, <3>2, <3>3 DEF queue
  <2>6. ASSUME NEW t \in Threads, wait(t) PROVE Goal
    <3>1. PICK u \in Threads : Owns(u) /\ word.state # "COMPLETE"
      BY <1>0, <2>6 DEF wait
    <3> QED
      BY <2>6, <3>1 DEF wait, futex_wait, Goto, Owns, Leaving
  <2>7. ASSUME NEW t \in Threads, leave_wait(t) PROVE Goal
    <3>1. PICK u \in Threads : Owns(u) /\ word.state # "COMPLETE"
      BY <1>0, <2>7 DEF leave_wait
    <3> QED
      BY <2>7, <3>1 DEF leave_wait, futex_interrupted, futex_spurious, Goto, Owns, Leaving
  <2>8. ASSUME NEW t \in Threads, NEW s \in {"COMPLETE", "POISONED"}, finish(t, s) PROVE Goal
    BY <2>8 DEF finish
  <2>9. ASSUME NEW t \in Threads, wake_all(t) PROVE Goal
    <3>1. PICK u \in Threads : Owns(u) /\ word.state # "COMPLETE"
      BY <1>0, <2>9 DEF wake_all
    <3> QED
      BY <2>9, <3>1 DEF wake_all, futex_wake_all, Owns, Leaving
  <2>10. CASE UNCHANGED vars
    BY <1>0, <2>10 DEF vars, Owns, Leaving
  <2> QED
    BY <2>1, <2>2, <2>3, <2>4, <2>5, <2>6, <2>7, <2>8, <2>9, <2>10
       DEF Next, Enter, call_once, call_once_force, wait_once, wait_force,
           Inside, Done
<1> QED
  BY <1>1, <1>2, OnceTypeCorrect, OnceOneRunner, PTL DEF Spec

\* get_mut, into_inner and drop of a cell never meet a queued or a running
\* word, so that the unreachable!() of Once::state is not reached.
THEOREM OnceExclusiveStateIsClean == Spec => []ExclusiveStateIsClean
<1>1. OneRunner /\ QueuedHasOwner => ExclusiveStateIsClean
  BY DEF OneRunner, QueuedHasOwner, ExclusiveStateIsClean
<1> QED
  BY <1>1, OnceOneRunner, OnceQueuedHasOwner, PTL

-----------------------------------------------------------------------------
(***************************************************************************)
(* The refinement.  OneRunner makes the runner of the abstract once the    *)
(* one thread inside its closure.                                          *)
(***************************************************************************)
LEMMA RunnerIs ==
  ASSUME OneRunner, NEW t \in Threads, pc[t] = "running"
  PROVE  Runner = t
BY DEF Runner, OneRunner

LEMMA RunnerIsNone ==
  ASSUME \A t \in Threads : pc[t] # "running"
  PROVE  Runner = NoThread
BY DEF Runner

\* The abstract state does not change while the state and the runner do not.
LEMMA AbstractUnchanged ==
  ASSUME OneRunner, OneRunner', word'.state = word.state,
         \A t \in Threads : pc[t] = "running" <=> pc'[t] = "running"
  PROVE  UNCHANGED <<Phase[word.state], Runner>>
<1>1. UNCHANGED Phase[word.state]
  BY DEF Phase
<1>2. CASE \E t \in Threads : pc[t] = "running"
  <2>1. PICK t \in Threads : pc[t] = "running"
    BY <1>2
  <2>2. Runner = t
    BY <2>1, RunnerIs
  <2>3. Runner' = t
    BY <2>1 DEF Runner, OneRunner
  <2> QED
    BY <1>1, <2>2, <2>3
<1>3. CASE \A t \in Threads : pc[t] # "running"
  BY <1>1, <1>3 DEF Runner
<1> QED
  BY <1>2, <1>3

LEMMA PhaseOf ==
  /\ Phase["INCOMPLETE"] = "incomplete" /\ Phase["POISONED"] = "poisoned"
  /\ Phase["RUNNING"] = "running" /\ Phase["COMPLETE"] = "complete"
BY DEF Phase, States

\* The futex once implements the abstract one: the cells that are built on
\* a Once may rely on a single run at a time and on a final completion.
THEOREM OnceRefines == Spec => ImplementsOnce
<1> DEFINE Safe == TypeOK /\ OneRunner
           same == UNCHANGED <<Phase[word.state], Runner>>
<1>1. Init => Abstract!Init
  BY RunnerIsNone, PhaseOf DEF Init, W, Abstract!Init
<1>2. Safe /\ Safe' /\ [Next]_vars => [Abstract!Next]_<<Phase[word.state], Runner>>
  <2> SUFFICES ASSUME Safe, Safe', [Next]_vars
               PROVE  Abstract!Next \/ same
    OBVIOUS
  <2> USE DEF TypeOK
  <2>1. ASSUME NEW t \in Threads, NEW o \in {"call", "wait"}, NEW i \in BOOLEAN, enter(t, o, i)
        PROVE  same
    BY <2>1, AbstractUnchanged DEF enter, Goto
  <2>2. ASSUME NEW t \in Threads, load(t) PROVE same
    BY <2>2, AbstractUnchanged DEF load, Goto
  <2>3. ASSUME NEW t \in Threads, return_or_panic(t) PROVE same
    BY <2>3, AbstractUnchanged DEF return_or_panic, Return, Goto
  <2>4. ASSUME NEW t \in Threads, Reload(t) PROVE same
    BY <2>4, AbstractUnchanged DEF Reload
  <2>5. ASSUME NEW t \in Threads, Runnable(t), Run(t, seen[t].queued) PROVE Abstract!Next
    <3>1. word.state \in {"INCOMPLETE", "POISONED"} /\ word'.state = "RUNNING"
      BY <2>5 DEF Run, Runnable, W
    <3>2. Phase[word.state] \in {"incomplete", "poisoned"} /\ Phase'[word'.state] = "running"
      BY <3>1, PhaseOf DEF Phase
    <3>3. Runner' = t
      BY <2>5 DEF Run, Goto, Runner, OneRunner
    <3> QED
      BY <3>2, <3>3 DEF Abstract!Next, Abstract!Start
  <2>6. ASSUME NEW t \in Threads, queue(t) PROVE same
    BY <2>6, <2>4, AbstractUnchanged DEF queue, W, Goto
  <2>7. ASSUME NEW t \in Threads, wait(t) PROVE same
    BY <2>7, AbstractUnchanged DEF wait, futex_wait, Goto
  <2>8. ASSUME NEW t \in Threads, leave_wait(t) PROVE same
    BY <2>8, AbstractUnchanged DEF leave_wait, futex_interrupted, futex_spurious, Goto
  <2>9. ASSUME NEW t \in Threads, NEW s \in {"COMPLETE", "POISONED"}, finish(t, s)
        PROVE  Abstract!Next
    <3>1. Phase'[word'.state] \in {"complete", "poisoned"}
      BY <2>9, PhaseOf DEF finish, W, Phase
    <3>2. Runner = t
      BY <2>9, RunnerIs DEF finish, Goto
    <3>3. \A u \in Threads : pc'[u] # "running"
      BY <2>9 DEF finish, Goto, OneRunner
    <3>4. Runner' = NoThread
      BY <3>3 DEF Runner
    <3> QED
      BY <3>1, <3>2, <3>4 DEF Abstract!Next, Abstract!Finish
  <2>10. ASSUME NEW t \in Threads, wake_all(t) PROVE same
    BY <2>10, AbstractUnchanged DEF wake_all, futex_wake_all
  <2>11. ASSUME UNCHANGED vars PROVE same
    BY <2>11, AbstractUnchanged DEF vars
  <2>12. ASSUME NEW t \in Threads, start_running(t) PROVE Abstract!Next \/ same
    BY <2>12, <2>4, <2>5 DEF start_running
  <2> QED
    BY <2>1, <2>2, <2>3, <2>6, <2>7, <2>8, <2>9, <2>10, <2>11, <2>12
       DEF Next, Enter, call_once, call_once_force, wait_once, wait_force, Inside, Done
<1>3. Spec => []Safe
  BY OnceTypeCorrect, OnceOneRunner, PTL
<1> QED
  BY <1>1, <1>2, <1>3, PTL DEF Spec, ImplementsOnce, Abstract!Spec

-----------------------------------------------------------------------------
(***************************************************************************)
(* FutexParker                                                             *)
(***************************************************************************)
\* The wrapping subtraction of park, on the values it meets.
LEMMA Subtraction ==
  /\ (EMPTY + MAX) % (MAX + 1) = PARKED
  /\ (NOTIFIED + MAX) % (MAX + 1) = EMPTY
  /\ PARKED # EMPTY /\ PARKED # NOTIFIED /\ EMPTY # NOTIFIED
BY MaxAssumption DEF EMPTY, NOTIFIED, PARKED

\* Nobody but the owner of the Parker is ever inside park.
OnlyOwnerParks == \A t \in Threads : pc[t] \in {"wait", "asleep", "woken"} => t = Owner

ParkerInv == ParkerTypeOK /\ ParkedOnlyInPark /\ OnlyOwnerParks

LEMMA ParkerInvStep ==
  ASSUME ParkerInv, [ParkerNext]_parker_vars
  PROVE  ParkerInv'
<1> USE OwnerAssumption, Subtraction DEF ParkerInv, ParkerTypeOK, ParkerPoints, ParkedOnlyInPark, Parked,
               OnlyOwnerParks, Goto
<1>1. ASSUME NEW timeout \in BOOLEAN, park(timeout) PROVE ParkerInv'
  BY <1>1 DEF park
<1>2. CASE park_wait
  BY <1>2 DEF park_wait, futex_wait
<1>3. CASE park_leave
  BY <1>3 DEF park_leave, futex_interrupted, futex_spurious
<1>4. CASE park_woken
  BY <1>4 DEF park_woken
<1>5. CASE park_timeout_woken
  BY <1>5 DEF park_timeout_woken
<1>6. ASSUME NEW t \in Threads, unpark(t) PROVE ParkerInv'
  BY <1>6 DEF unpark
<1>7. ASSUME NEW t \in Threads, wake(t) PROVE ParkerInv'
  BY <1>7 DEF wake, futex_wake, Sleepers
<1>8. CASE UNCHANGED parker_vars
  BY <1>8 DEF parker_vars
<1> QED
  BY <1>1, <1>2, <1>3, <1>4, <1>5, <1>6, <1>7, <1>8 DEF ParkerNext, InsidePark

LEMMA ParkerInvHolds == ParkerSpec => []ParkerInv
<1>1. ParkerInit => ParkerInv
  BY OwnerAssumption, Subtraction
     DEF ParkerInit, ParkerInv, ParkerTypeOK, ParkerPoints, ParkedOnlyInPark, Parked, OnlyOwnerParks
<1>2. ParkerInv /\ [ParkerNext]_parker_vars => ParkerInv'
  BY ParkerInvStep
<1> QED
  BY <1>1, <1>2, PTL DEF ParkerSpec

\* park is entered only on EMPTY or NOTIFIED, "which means that self.state !=
\* PARKED", and the owner inside park never misses a token by finding EMPTY.
THEOREM ParkerStates == ParkerSpec => [](ParkerTypeOK /\ ParkedOnlyInPark)
BY ParkerInvHolds, PTL DEF ParkerInv

\* No wake-up of the owner is lost between the swap of unpark and the
\* futex_wait of park.
THEOREM ParkerNoLostWakeup == ParkerSpec => []NoLostWakeup
<1> USE OwnerAssumption, Subtraction DEF NoLostWakeup, Goto
<1>1. ParkerInit => NoLostWakeup
  BY DEF ParkerInit
<1>2. ParkerInv /\ NoLostWakeup /\ [ParkerNext]_parker_vars => NoLostWakeup'
  <2> SUFFICES ASSUME ParkerInv, NoLostWakeup, [ParkerNext]_parker_vars PROVE NoLostWakeup'
    OBVIOUS
  <2> USE DEF ParkerInv, ParkerTypeOK
  <2>1. ASSUME NEW timeout \in BOOLEAN, park(timeout) PROVE NoLostWakeup'
    BY <2>1 DEF park
  <2>2. CASE park_wait
    BY <2>2 DEF park_wait, futex_wait
  <2>3. CASE park_leave
    BY <2>3 DEF park_leave, futex_interrupted, futex_spurious
  <2>4. CASE park_woken
    BY <2>4 DEF park_woken
  <2>5. CASE park_timeout_woken
    BY <2>5 DEF park_timeout_woken
  <2>6. ASSUME NEW t \in Threads, unpark(t) PROVE NoLostWakeup'
    BY <2>6 DEF unpark
  <2>7. ASSUME NEW t \in Threads, wake(t) PROVE NoLostWakeup'
    <3>1. Sleepers("asleep") \subseteq {Owner}
      BY DEF Sleepers, OnlyOwnerParks
    <3> QED
      BY <2>7, <3>1 DEF wake, futex_wake, Sleepers
  <2>8. CASE UNCHANGED parker_vars
    BY <2>8 DEF parker_vars
  <2> QED
    BY <2>1, <2>2, <2>3, <2>4, <2>5, <2>6, <2>7, <2>8 DEF ParkerNext, InsidePark
<1> QED
  BY <1>1, <1>2, ParkerInvHolds, PTL DEF ParkerSpec

\* The parker implements the token of std::thread::park.
THEOREM ParkerRefines == ParkerSpec => ImplementsParker
<1> USE OwnerAssumption, Subtraction DEF Goto
<1>1. ParkerInit => AbstractPark!Init
  BY DEF ParkerInit, AbstractPark!Init, Mode, Parked
<1>2. ParkerInv /\ [ParkerNext]_parker_vars => [AbstractPark!Next]_<<state = NOTIFIED, Mode>>
  <2> SUFFICES ASSUME ParkerInv, [ParkerNext]_parker_vars
               PROVE  [AbstractPark!Next]_<<state = NOTIFIED, Mode>>
    OBVIOUS
  <2> USE DEF ParkerInv, ParkerTypeOK, ParkedOnlyInPark, Mode, Parked
  <2>1. ASSUME NEW timeout \in BOOLEAN, park(timeout) PROVE AbstractPark!Block \/ AbstractPark!Consume
    BY <2>1 DEF park, AbstractPark!Block, AbstractPark!Consume
  <2>2. ASSUME park_wait PROVE UNCHANGED <<state = NOTIFIED, Mode>>
    BY <2>2 DEF park_wait, futex_wait
  <2>3. ASSUME park_leave PROVE UNCHANGED <<state = NOTIFIED, Mode>>
    BY <2>3 DEF park_leave, futex_interrupted, futex_spurious
  <2>4. ASSUME park_woken PROVE AbstractPark!Consume \/ UNCHANGED <<state = NOTIFIED, Mode>>
    BY <2>4 DEF park_woken, AbstractPark!Consume
  <2>5. ASSUME park_timeout_woken PROVE AbstractPark!Consume \/ AbstractPark!Expire
    BY <2>5 DEF park_timeout_woken, AbstractPark!Consume, AbstractPark!Expire
  <2>6. ASSUME NEW t \in Threads, unpark(t) PROVE AbstractPark!Unpark
    BY <2>6 DEF unpark, AbstractPark!Unpark
  <2>7. ASSUME NEW t \in Threads, wake(t) PROVE UNCHANGED <<state = NOTIFIED, Mode>>
    BY <2>7 DEF wake, futex_wake, Sleepers
  <2>8. ASSUME UNCHANGED parker_vars PROVE UNCHANGED <<state = NOTIFIED, Mode>>
    BY <2>8 DEF parker_vars
  <2> QED
    BY <2>1, <2>2, <2>3, <2>4, <2>5, <2>6, <2>7, <2>8 DEF ParkerNext, InsidePark, AbstractPark!Next
<1> QED
  BY <1>1, <1>2, ParkerInvHolds, PTL DEF ParkerSpec, ImplementsParker, AbstractPark!Spec
-----------------------------------------------------------------------------
(***************************************************************************)
(* FutexMutex                                                              *)
(***************************************************************************)
USE DEF UNLOCKED, LOCKED, CONTENDED

\* The futex word, the control points and the loaded values keep their types.
LEMMA MutexTypeCorrect == MutexSpec => []MutexTypeOK
<1> USE DEF MutexTypeOK, MutexWord, MutexPoints
<1>1. MutexInit => MutexTypeOK
  BY DEF MutexInit
<1>2. MutexTypeOK /\ [MutexNext]_mutex_vars => MutexTypeOK'
  <2> SUFFICES ASSUME MutexTypeOK, [MutexNext]_mutex_vars PROVE MutexTypeOK'
    OBVIOUS
  <2>1. ASSUME NEW t \in Threads, try_lock(t) PROVE MutexTypeOK'
    BY <2>1 DEF try_lock, Goto
  <2>2. ASSUME NEW t \in Threads, lock(t) PROVE MutexTypeOK'
    BY <2>2 DEF lock, Goto
  <2>3. ASSUME NEW t \in Threads, spin_first(t) PROVE MutexTypeOK'
    BY <2>3 DEF spin_first, Goto
  <2>4. ASSUME NEW t \in Threads, retry_lock(t) PROVE MutexTypeOK'
    BY <2>4 DEF retry_lock, Goto
  <2>5. ASSUME NEW t \in Threads, mark_contended(t) PROVE MutexTypeOK'
    BY <2>5 DEF mark_contended, Goto
  <2>6. ASSUME NEW t \in Threads, mutex_wait(t) PROVE MutexTypeOK'
    BY <2>6 DEF mutex_wait, futex_wait, Goto
  <2>7. ASSUME NEW t \in Threads, mutex_leave_wait(t) PROVE MutexTypeOK'
    BY <2>7 DEF mutex_leave_wait, futex_interrupted, futex_spurious, Goto
  <2>8. ASSUME NEW t \in Threads, spin(t) PROVE MutexTypeOK'
    BY <2>8 DEF spin, Goto
  <2>9. ASSUME NEW t \in Threads, unlock(t) PROVE MutexTypeOK'
    BY <2>9 DEF unlock, Goto
  <2>10. ASSUME NEW t \in Threads, mutex_wake(t) PROVE MutexTypeOK'
    BY <2>10 DEF mutex_wake, futex_wake, Sleepers
  <2>11. CASE UNCHANGED mutex_vars
    BY <2>11 DEF mutex_vars
  <2> QED
    BY <2>1, <2>2, <2>3, <2>4, <2>5, <2>6, <2>7, <2>8, <2>9, <2>10, <2>11
       DEF MutexNext, InsideMutex
<1> QED
  BY <1>1, <1>2, PTL DEF MutexSpec

-----------------------------------------------------------------------------
(***************************************************************************)
(* Mutual exclusion needs WordTellsOwner: the compare_exchange and the     *)
(* swap that take the lock see UNLOCKED, hence nobody else holds it.       *)
(***************************************************************************)
LEMMA MutexSafetyInductive ==
  ASSUME MutexTypeOK, MutexTypeOK', MutualExclusion, WordTellsOwner, [MutexNext]_mutex_vars
  PROVE  MutualExclusion' /\ WordTellsOwner'
<1> USE DEF MutexTypeOK, MutualExclusion, WordTellsOwner, MutexWord
<1> DEFINE Safe == MutualExclusion' /\ WordTellsOwner'
<1>1. ASSUME NEW t \in Threads, try_lock(t) PROVE Safe
  BY <1>1 DEF try_lock, Goto
<1>2. ASSUME NEW t \in Threads, lock(t) PROVE Safe
  BY <1>2 DEF lock, Goto
<1>3. ASSUME NEW t \in Threads, spin_first(t) PROVE Safe
  BY <1>3 DEF spin_first, Goto
<1>4. ASSUME NEW t \in Threads, retry_lock(t) PROVE Safe
  BY <1>4 DEF retry_lock, Goto
<1>5. ASSUME NEW t \in Threads, mark_contended(t) PROVE Safe
  BY <1>5 DEF mark_contended, Goto
<1>6. ASSUME NEW t \in Threads, mutex_wait(t) PROVE Safe
  BY <1>6 DEF mutex_wait, futex_wait, Goto
<1>7. ASSUME NEW t \in Threads, mutex_leave_wait(t) PROVE Safe
  BY <1>7 DEF mutex_leave_wait, futex_interrupted, futex_spurious, Goto
<1>8. ASSUME NEW t \in Threads, spin(t) PROVE Safe
  BY <1>8 DEF spin, Goto
<1>9. ASSUME NEW t \in Threads, unlock(t) PROVE Safe
  BY <1>9 DEF unlock, Goto
<1>10. ASSUME NEW t \in Threads, mutex_wake(t) PROVE Safe
  BY <1>10 DEF mutex_wake, futex_wake, Sleepers
<1>11. CASE UNCHANGED mutex_vars
  BY <1>11 DEF mutex_vars
<1> QED
  BY <1>1, <1>2, <1>3, <1>4, <1>5, <1>6, <1>7, <1>8, <1>9, <1>10, <1>11
     DEF MutexNext, InsideMutex

\* At most one thread is between a successful lock or try_lock and unlock.
THEOREM MutexExcludes == MutexSpec => [](MutualExclusion /\ WordTellsOwner)
<1>1. MutexInit => MutualExclusion /\ WordTellsOwner
  BY DEF MutexInit, MutualExclusion, WordTellsOwner
<1>2. MutexTypeOK /\ MutexTypeOK' /\ MutualExclusion /\ WordTellsOwner /\ [MutexNext]_mutex_vars
        => (MutualExclusion /\ WordTellsOwner)'
  BY MutexSafetyInductive
<1> QED
  BY <1>1, <1>2, MutexTypeCorrect, PTL DEF MutexSpec

-----------------------------------------------------------------------------
(***************************************************************************)
(* No lost wake-up.  Only unlock takes the CONTENDED mark away, and it     *)
(* becomes responsible for a wake-up; a responsible thread stops being one *)
(* only with the word CONTENDED, or by handing the duty to the thread that *)
(* it wakes.                                                               *)
(***************************************************************************)
THEOREM MutexNoLostWakeup == MutexSpec => []SleeperIsOwed
<1> USE DEF SleeperIsOwed, Responsible, Sleepers
<1>1. MutexInit => SleeperIsOwed
  BY DEF MutexInit
<1>2. MutexTypeOK /\ SleeperIsOwed /\ [MutexNext]_mutex_vars => SleeperIsOwed'
  <2> SUFFICES ASSUME MutexTypeOK, SleeperIsOwed, [MutexNext]_mutex_vars PROVE SleeperIsOwed'
    OBVIOUS
  <2> USE DEF MutexTypeOK, MutexWord
  <2>1. ASSUME NEW t \in Threads, try_lock(t) PROVE SleeperIsOwed'
    BY <2>1 DEF try_lock, Goto
  <2>2. ASSUME NEW t \in Threads, lock(t) PROVE SleeperIsOwed'
    BY <2>2 DEF lock, Goto
  <2>3. ASSUME NEW t \in Threads, spin_first(t) PROVE SleeperIsOwed'
    BY <2>3 DEF spin_first, Goto
  <2>4. ASSUME NEW t \in Threads, retry_lock(t) PROVE SleeperIsOwed'
    BY <2>4 DEF retry_lock, Goto
  <2>5. ASSUME NEW t \in Threads, mark_contended(t) PROVE SleeperIsOwed'
    BY <2>5 DEF mark_contended, Goto
  <2>6. ASSUME NEW t \in Threads, mutex_wait(t) PROVE SleeperIsOwed'
    BY <2>6 DEF mutex_wait, futex_wait, Goto
  <2>7. ASSUME NEW t \in Threads, mutex_leave_wait(t) PROVE SleeperIsOwed'
    BY <2>7 DEF mutex_leave_wait, futex_interrupted, futex_spurious, Goto
  <2>8. ASSUME NEW t \in Threads, spin(t) PROVE SleeperIsOwed'
    BY <2>8 DEF spin, Goto
  <2>9. ASSUME NEW t \in Threads, unlock(t) PROVE SleeperIsOwed'
    BY <2>9 DEF unlock, Goto
  <2>10. ASSUME NEW t \in Threads, mutex_wake(t) PROVE SleeperIsOwed'
    BY <2>10 DEF mutex_wake, futex_wake
  <2>11. CASE UNCHANGED mutex_vars
    BY <2>11 DEF mutex_vars
  <2> QED
    BY <2>1, <2>2, <2>3, <2>4, <2>5, <2>6, <2>7, <2>8, <2>9, <2>10, <2>11
       DEF MutexNext, InsideMutex
<1> QED
  BY <1>1, <1>2, MutexTypeCorrect, PTL DEF MutexSpec

-----------------------------------------------------------------------------
(***************************************************************************)
(* Refinement: a step of the mutex is an acquisition, a release, or        *)
(* invisible to the callers.                                               *)
(***************************************************************************)
LEMMA LockOwnerIs ==
  ASSUME MutualExclusion, NEW t \in Threads, pc[t] = "locked"
  PROVE  LockOwner = t
BY DEF LockOwner, MutualExclusion

LEMMA LockOwnerIsNone ==
  ASSUME \A t \in Threads : pc[t] # "locked"
  PROVE  LockOwner = NoOwner
BY DEF LockOwner

\* A step that leaves the set of holders as it is leaves the owner as it is.
LEMMA LockOwnerUnchanged ==
  ASSUME MutualExclusion, MutualExclusion',
         \A t \in Threads : pc[t] = "locked" <=> pc'[t] = "locked"
  PROVE  LockOwner' = LockOwner
BY DEF LockOwner, MutualExclusion

\* Every behaviour of the futex mutex is one of the abstract mutex.
THEOREM MutexRefines == MutexSpec => ImplementsMutex
<1> DEFINE Safe == MutexTypeOK /\ MutualExclusion /\ WordTellsOwner
<1>1. MutexInit => AbstractLock!Init
  BY LockOwnerIsNone DEF MutexInit, AbstractLock!Init
<1>2. Safe /\ Safe' /\ [MutexNext]_mutex_vars => [AbstractLock!Next]_LockOwner
  <2> SUFFICES ASSUME Safe, Safe', [MutexNext]_mutex_vars
               PROVE  AbstractLock!Next \/ LockOwner' = LockOwner
    OBVIOUS
  <2> USE DEF MutexTypeOK
  <2>a. ASSUME NEW t \in Threads, futex = UNLOCKED, pc'[t] = "locked"
        PROVE  AbstractLock!Next
    <3>1. LockOwner = NoOwner
      BY <2>a, LockOwnerIsNone DEF WordTellsOwner
    <3>2. LockOwner' = t
      BY <2>a DEF LockOwner, MutualExclusion
    <3> QED
      BY <3>1, <3>2 DEF AbstractLock!Next, AbstractLock!Acquire
  <2>1. ASSUME NEW t \in Threads, try_lock(t)
        PROVE  AbstractLock!Next \/ LockOwner' = LockOwner
    BY <2>1, <2>a DEF try_lock, Goto
  <2>2. ASSUME NEW t \in Threads, lock(t)
        PROVE  AbstractLock!Next \/ LockOwner' = LockOwner
    BY <2>2, <2>a, LockOwnerUnchanged DEF lock, Goto
  <2>3. ASSUME NEW t \in Threads, spin_first(t)
        PROVE  AbstractLock!Next \/ LockOwner' = LockOwner
    BY <2>3, LockOwnerUnchanged DEF spin_first, Goto
  <2>4. ASSUME NEW t \in Threads, retry_lock(t)
        PROVE  AbstractLock!Next \/ LockOwner' = LockOwner
    BY <2>4, <2>a, LockOwnerUnchanged DEF retry_lock, Goto
  <2>5. ASSUME NEW t \in Threads, mark_contended(t)
        PROVE  AbstractLock!Next \/ LockOwner' = LockOwner
    BY <2>5, <2>a, LockOwnerUnchanged DEF mark_contended, Goto
  <2>6. ASSUME NEW t \in Threads, mutex_wait(t)
        PROVE  AbstractLock!Next \/ LockOwner' = LockOwner
    BY <2>6, LockOwnerUnchanged DEF mutex_wait, futex_wait, Goto
  <2>7. ASSUME NEW t \in Threads, mutex_leave_wait(t)
        PROVE  AbstractLock!Next \/ LockOwner' = LockOwner
    BY <2>7, LockOwnerUnchanged DEF mutex_leave_wait, futex_interrupted, futex_spurious, Goto
  <2>8. ASSUME NEW t \in Threads, spin(t)
        PROVE  AbstractLock!Next \/ LockOwner' = LockOwner
    BY <2>8, LockOwnerUnchanged DEF spin, Goto
  <2>9. ASSUME NEW t \in Threads, unlock(t)
        PROVE  AbstractLock!Next \/ LockOwner' = LockOwner
    <3>1. LockOwner = t
      BY <2>9, LockOwnerIs DEF unlock, Goto
    <3>2. \A u \in Threads : pc'[u] # "locked"
      BY <2>9 DEF unlock, Goto, WordTellsOwner
    <3>3. LockOwner' = NoOwner
      BY <3>2 DEF LockOwner
    <3> QED
      BY <3>1, <3>3 DEF AbstractLock!Next, AbstractLock!Release
  <2>10. ASSUME NEW t \in Threads, mutex_wake(t)
         PROVE  AbstractLock!Next \/ LockOwner' = LockOwner
    BY <2>10, LockOwnerUnchanged DEF mutex_wake, futex_wake, Sleepers
  <2>11. CASE UNCHANGED mutex_vars
    BY <2>11 DEF mutex_vars, LockOwner
  <2> QED
    BY <2>1, <2>2, <2>3, <2>4, <2>5, <2>6, <2>7, <2>8, <2>9, <2>10, <2>11
       DEF MutexNext, InsideMutex
<1>3. MutexSpec => []Safe
  BY MutexTypeCorrect, MutexExcludes, PTL
<1> QED
  BY <1>1, <1>2, <1>3, PTL DEF MutexSpec, ImplementsMutex, AbstractLock!Spec
=============================================================================
