-------------------------------- MODULE Mpmc --------------------------------
(***************************************************************************)
(* What the three flavours of std::sync::mpmc share: the handles and their *)
(* counter (library/std/src/sync/mpmc/counter.rs), the context of a        *)
(* blocked thread (context.rs) and the queue of blocked threads of each    *)
(* side (Waker in waker.rs), over the token of thread::park                *)
(* (AbstractParker).                                                       *)
(*                                                                         *)
(* Every thread owns one handle.  Senders wait in the queue "senders",     *)
(* receivers in "receivers", and each side wakes the other.  observers     *)
(* stays empty: nothing in std watches a channel.  A call with a deadline  *)
(* may time out at any moment, one without never does; as no fairness is   *)
(* assumed of timeouts, the behaviours of both are those of a call that    *)
(* may.                                                                    *)
(***************************************************************************)
EXTENDS Naturals, Sequences, SequencesExt, FiniteSets

CONSTANTS Senders, Receivers,   \* the threads, by the kind of their handle
          None                  \* no message, a null pointer

ASSUME SidesAssumption ==
  /\ IsFiniteSet(Senders) /\ IsFiniteSet(Receivers) /\ Senders \cap Receivers = {}
  /\ Senders # {} /\ Receivers # {}
ASSUME NoneAssumption == None \notin Senders \cup Receivers

VARIABLES pc,             \* pc[t]: the next step of thread t
          handles,        \* Counter: the handles left of each side
          destroy,        \* Counter: the flag of that name
          freed,          \* is the box with the channel freed?
          select,         \* select[t]: Context::select
          token,          \* token[t]: the parker of t
          selectors,      \* Waker: the threads in each queue
          woken           \* woken[t]: selected by t and not yet unparked

counter == <<handles, destroy, freed>>
context == <<select, token>>

Threads == Senders \cup Receivers

own(t) == IF t \in Senders THEN "senders" ELSE "receivers"

peer(t) == IF t \in Senders THEN "receivers" ELSE "senders"

Goto(t, from, to) == pc[t] = from /\ pc' = [pc EXCEPT ![t] = to]

MpmcInit ==
  /\ pc = [t \in Threads |-> "idle"]
  /\ handles = [senders |-> Cardinality(Senders), receivers |-> Cardinality(Receivers)]
  /\ destroy = FALSE
  /\ freed = FALSE
  /\ select = [t \in Threads |-> "Waiting"]
  /\ token = [t \in Threads |-> FALSE]
  /\ selectors = [w \in {"senders", "receivers"} |-> << >>]
  /\ woken = [t \in Threads |-> {}]
-----------------------------------------------------------------------------
(***************************************************************************)
(* Waker                                                                   *)
(***************************************************************************)
push(t) == selectors' = [selectors EXCEPT ![own(t)] = Append(@, t)]

remove(t) == selectors' = [selectors EXCEPT ![own(t)] = RemoveFirst(@, t)]

\* The entry that try_select picks: the first one of another thread whose
\* operation is not decided yet (0 if there is none).
Selectable(t, w) == SelectInSeq(selectors[w], LAMBDA u : u # t /\ select[u] = "Waiting")

\* try_select, up to the unpark: decide the operation and remove its entry.
select_entry(t, i) ==
  LET u == selectors[peer(t)][i]
  IN  /\ select' = [select EXCEPT ![u] = "Operation"]
      /\ selectors' = [selectors EXCEPT ![peer(t)] = RemoveAt(@, i)]
      /\ woken' = [woken EXCEPT ![t] = {u}]

\* disconnect, up to the unpark: decide all operations, the entries stay.
select_all(t, queues) ==
  LET undecided == {u \in Threads : select[u] = "Waiting" /\ \E w \in queues : u \in ToSet(selectors[w])}
  IN  /\ select' = [u \in Threads |-> IF u \in undecided THEN "Disconnected" ELSE select[u]]
      /\ woken' = [woken EXCEPT ![t] = undecided]

unpark_woken(t) ==
  /\ token' = [u \in Threads |-> token[u] \/ u \in woken[t]]
  /\ woken' = [woken EXCEPT ![t] = {}]
-----------------------------------------------------------------------------
(***************************************************************************)
(* Context                                                                 *)
(***************************************************************************)
Decided(t, sel) == select' = [select EXCEPT ![t] = sel]

\* What try_select(Selected::Aborted) makes of select.
Abort(t) == IF select[t] = "Waiting" THEN "Aborted" ELSE select[t]

\* wait_until returns sel: the entry of a selected operation is gone already,
\* and the context is reset before its next use; otherwise unregister.
Return(t, from, sel, to) ==
  IF sel = "Operation"
  THEN Goto(t, from, to) /\ Decided(t, "Waiting")
  ELSE Goto(t, from, "unregister") /\ Decided(t, sel)

\* wait_until: load select, and park if nothing is decided.
wait_load(t, to) ==
  /\ IF select[t] = "Waiting"
     THEN Goto(t, "wait", "park") /\ UNCHANGED select
     ELSE Return(t, "wait", select[t], to)
  /\ UNCHANGED token

\* park or park_timeout returns with the token.
park(t) ==
  /\ Goto(t, "park", "wait")
  /\ token[t]
  /\ token' = [token EXCEPT ![t] = FALSE]
  /\ UNCHANGED select

\* Mutant: the time is up, and that nobody has selected the operation in the
\* meantime is taken for granted.
Mut_timeout(t, to) == Return(t, "park", "Aborted", to) /\ UNCHANGED token

\* The time is up: try_select(Aborted), unless somebody was faster.
timeout(t, to) == Return(t, "park", Abort(t), to) /\ UNCHANGED token
-----------------------------------------------------------------------------
(***************************************************************************)
(* Counter                                                                 *)
(***************************************************************************)
\* Dropping a handle; the last one of its side disconnects.
release(t) ==
  /\ Goto(t, "idle", IF handles[own(t)] = 1 THEN "disconnect_chan" ELSE "gone")
  /\ handles' = [handles EXCEPT ![own(t)] = @ - 1]
  /\ UNCHANGED <<destroy, freed>>

\* Mutant: the side that disconnects first frees the channel.
Mut_release_destroy(t) ==
  /\ Goto(t, "destroy", IF destroy THEN "gone" ELSE "free")
  /\ destroy' = TRUE
  /\ UNCHANGED <<handles, freed>>

\* destroy.swap(true): the second side to come here drops the channel.
release_destroy(t) ==
  /\ Goto(t, "destroy", IF destroy THEN "free" ELSE "gone")
  /\ destroy' = TRUE
  /\ UNCHANGED <<handles, freed>>

free_channel(t) ==
  /\ Goto(t, "free", "gone")
  /\ freed' = TRUE
  /\ UNCHANGED <<handles, destroy>>
=============================================================================
