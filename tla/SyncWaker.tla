------------------------------ MODULE SyncWaker ------------------------------
(***************************************************************************)
(* SyncWaker of library/std/src/sync/mpmc/waker.rs: a Waker behind a mutex *)
(* and a flag that lets notify do without the mutex.  The mutex is kept    *)
(* implicit: it is held by a thread that has selected and has yet to       *)
(* unpark (Locked); the other critical sections make one visible step.     *)
(***************************************************************************)
EXTENDS Mpmc

VARIABLE is_empty         \* is_empty[w]: the flag of that name

wakers == <<selectors, woken, is_empty>>

SyncWakerInit == MpmcInit /\ is_empty = [w \in {"senders", "receivers"} |-> TRUE]

Locked(w) == \E u \in Threads : pc[u] \in {"unpark", "unpark_all"} /\ peer(u) = w

store_is_empty(w) == is_empty' = [is_empty EXCEPT ![w] = (selectors'[w] = << >>)]

\* Context::with, whose context is always found reset, and the new entry.
register(t, from, to) ==
  /\ Goto(t, from, to)
  /\ ~Locked(own(t))
  /\ push(t)
  /\ store_is_empty(own(t))
  /\ UNCHANGED <<woken, context>>

unregister(t, to) ==
  /\ Goto(t, "unregister", to)
  /\ ~Locked(own(t))
  /\ remove(t)
  /\ store_is_empty(own(t))
  /\ Decided(t, "Waiting")
  /\ UNCHANGED <<woken, token>>

\* notify, its look at the flag without the lock.
notify_load(t, to) ==
  /\ Goto(t, "notify", IF is_empty[peer(t)] THEN to ELSE "try_select")
  /\ UNCHANGED <<context, wakers>>

\* Under the lock one thread is selected.  The flag is stored after the unpark.
notify_select(t, to) ==
  /\ ~Locked(peer(t))
  /\ LET i == Selectable(t, peer(t))
     IN  IF i = 0
         THEN Goto(t, "try_select", to) /\ UNCHANGED <<select, selectors, woken>>
         ELSE Goto(t, "try_select", "unpark") /\ select_entry(t, i)
  /\ UNCHANGED <<is_empty, token>>

disconnect_select(t) ==
  /\ ~Locked(peer(t))
  /\ Goto(t, "disconnect", "unpark_all")
  /\ select_all(t, {peer(t)})
  /\ UNCHANGED <<selectors, is_empty, token>>

\* The selected threads are unparked, the flag stored, the lock released.
unpark(t, from, to) ==
  /\ Goto(t, from, to)
  /\ unpark_woken(t)
  /\ UNCHANGED <<select, selectors>>
  /\ store_is_empty(peer(t))

\* After a registration the thread looks at the channel again, and aborts the
\* operation if it is ready after all.
abort(t) ==
  /\ Goto(t, "abort", "wait")
  /\ Decided(t, Abort(t))
  /\ UNCHANGED <<token, wakers>>

\* wait_until and what follows it, up to the next attempt at "again".
wait_until(t, again) ==
  \/ (abort(t) \/ wait_load(t, again) \/ park(t)) /\ UNCHANGED wakers
  \/ unregister(t, again)

\* SyncWaker::notify at the end of a call.
notify_one(t) ==
  notify_load(t, "idle") \/ notify_select(t, "idle") \/ unpark(t, "unpark", "idle")
=============================================================================
