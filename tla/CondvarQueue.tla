---------------------------- MODULE CondvarQueue ----------------------------
(***************************************************************************)
(* The condition variable at work: consumers wait_while there is nothing,  *)
(* or wait_timeout_while (library/std/src/sync/nonpoison/condvar.rs), and  *)
(* producers add an item and notify, with the mutex held or after it is    *)
(* unlocked, as the documentation of Condvar shows.  The program itself is *)
(* that of the documentation; the loops are the code's.                    *)
(***************************************************************************)
EXTENDS FutexCondvar, Naturals

CONSTANTS Producers,      \* the threads that notify
          Timed,          \* the consumers that call wait_timeout_while
          MaxItems        \* bound on the items that nobody has taken

ASSUME RolesAssumption == Producers \subseteq Threads /\ Timed \subseteq Threads \ Producers
ASSUME MaxItemsAssumption == MaxItems \in Nat \ {0}

VARIABLE items            \* the data that the mutex protects

queue_vars == <<pc, owner, current, items>>

Consumers == Threads \ Producers

QueueInit ==
  /\ CondvarInit
  /\ pc = [t \in Threads |-> "idle"]
  /\ items = 0

(***************************************************************************)
(* A producer                                                              *)
(***************************************************************************)
put_lock(t) ==
  /\ t \in Producers
  /\ items < MaxItems
  /\ lock(t, "idle", "put")
  /\ UNCHANGED items

\* Add an item; notify after the guard is dropped, or before.
put(t) ==
  /\ items' = items + 1
  /\ \/ unlock(t, "put", "add")
     \/ Goto(t, "put", "add_held") /\ UNCHANGED <<owner, current>>

put_notify(t) ==
  /\ \/ notify_add(t, "add", "wake")
     \/ notify_one(t, "wake", "idle") \/ notify_all(t, "wake", "idle")
     \/ notify_add(t, "add_held", "wake_held")
     \/ notify_one(t, "wake_held", "put_unlock") \/ notify_all(t, "wake_held", "put_unlock")
     \/ unlock(t, "put_unlock", "idle")
  /\ UNCHANGED items

(***************************************************************************)
(* A consumer                                                              *)
(***************************************************************************)
take_lock(t) ==
  /\ t \in Consumers
  /\ lock(t, "idle", "test")
  /\ UNCHANGED items

\* Mutant: the condition is tested once, not in a loop.
Mut_wait_while(t) ==
  \/ /\ items = 0
     /\ wait_load(t, "test")
     /\ UNCHANGED items
  \/ /\ wait_unlock(t) \/ wait_sleep(t) \/ wait_lock(t, "take")
     /\ UNCHANGED items

\* while condition(&mut *guard) { guard = self.wait(guard) }
wait_while(t) ==
  \/ /\ items = 0
     /\ wait_load(t, "test")
     /\ UNCHANGED items
  \/ /\ wait_unlock(t) \/ wait_sleep(t) \/ wait_lock(t, "test")
     /\ UNCHANGED items

\* The condition is false: the guard is returned.
condition_false(t) ==
  /\ items > 0
  /\ Goto(t, "test", "take")
  /\ UNCHANGED <<owner, current, items>>

\* wait_timeout_while finds that its time has passed, and returns.
timed_out(t) ==
  /\ t \in Timed
  /\ items = 0
  /\ unlock(t, "test", "idle")
  /\ UNCHANGED items

take(t) ==
  /\ items' = items - 1
  /\ unlock(t, "take", "idle")
-----------------------------------------------------------------------------
QueueInside(t) == put(t) \/ put_notify(t) \/ wait_while(t) \/ condition_false(t) \/ take(t)

Leave(t) == wait_leave(t) /\ UNCHANGED items

QueueNext ==
  \E t \in Threads :
    put_lock(t) \/ take_lock(t) \/ QueueInside(t) \/ timed_out(t) \/ Leave(t)

QueueSpec == QueueInit /\ [][QueueNext]_queue_vars

\* The scheduler runs every thread that can run.  The mutex is not fair: a
\* thread that asks for it again and again may find it taken each time.
FairQueueSpec == QueueSpec /\ \A t \in Threads : WF_queue_vars(QueueInside(t))
-----------------------------------------------------------------------------
\* A consumer leaves wait_while only when its condition is false, though others
\* may take the item between the notification and the lock.
ConditionHolds == \A t \in Threads : pc[t] = "take" => items > 0

\* A consumer that is awake and will look at the items.
Looking(t) ==
  \/ pc[t] \in {"cv_lock", "test", "take"}
  \/ pc[t] = "cv_wait" /\ t \notin current

Notifying(t) == pc[t] \in {"put", "add", "wake", "add_held", "wake_held"}

\* No missed notification: nobody sleeps beside an item while nobody is about
\* to notify or to look, wherever between the load of the counter, the unlock
\* and the futex_wait the notification falls.
NoMissedNotification ==
  (items > 0 /\ Sleepers("cv_asleep") # {})
     => \E t \in Threads : Looking(t) \/ Notifying(t)

Waiting(t) == pc[t] \in WaitPoints \cup {"test"}

\* Items do not lie there for ever while consumers wait for them.
ItemsAreTaken ==
  (<>[](items > 0 /\ \E t \in Threads : Waiting(t)))
     => []<><<\E t \in Threads : take(t)>>_queue_vars
=============================================================================
