---------------------------- MODULE AbstractOnce ----------------------------
(***************************************************************************)
(* What sys::Once promises: one thread at a time runs an initializer, a    *)
(* failed run poisons the cell and may be tried again, and a run that      *)
(* succeeded is the last one.  FutexOnce implements it; the cells built on *)
(* a Once (OnceLock, LazyLock) are modelled over this contract.            *)
(***************************************************************************)
CONSTANTS Threads, NoThread

VARIABLES phase,          \* "incomplete", "running", "poisoned", "complete"
          runner          \* the thread that runs the initializer

Init == phase = "incomplete" /\ runner = NoThread

Start(t) ==
  /\ phase \in {"incomplete", "poisoned"}
  /\ phase' = "running"
  /\ runner' = t

Finish(t) ==
  /\ runner = t
  /\ phase' \in {"complete", "poisoned"}
  /\ runner' = NoThread

Next == \E t \in Threads : Start(t) \/ Finish(t)

Spec == Init /\ [][Next]_<<phase, runner>>
=============================================================================
