--------------------------- MODULE AbstractMutex ---------------------------
(***************************************************************************)
(* What sys::Mutex promises its callers: at most one owner, the lock is    *)
(* given only when it is free, and only the owner gives it back.           *)
(* FutexMutex implements it; the primitives built on a mutex (Condvar and  *)
(* what uses it) are modelled over this contract.                          *)
(***************************************************************************)
CONSTANTS Threads, NoThread

VARIABLE owner

Init == owner = NoThread

Acquire(t) == owner = NoThread /\ owner' = t

Release(t) == owner = t /\ owner' = NoThread

Next == \E t \in Threads : Acquire(t) \/ Release(t)

Spec == Init /\ [][Next]_owner
=============================================================================
