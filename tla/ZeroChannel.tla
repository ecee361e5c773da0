----------------------------- MODULE ZeroChannel -----------------------------
(***************************************************************************)
(* The channel without a buffer, library/std/src/sync/mpmc/zero.rs, over   *)
(* the handles, contexts and wakers of Mpmc.                               *)
(*                                                                         *)
(* One mutex guards both queues and the flag; it is held by a thread that  *)
(* has selected and has yet to unpark, and the other critical sections are *)
(* one step each.  A blocked thread keeps its packet on its stack: msg[t]  *)
(* and ready[t].  A packet on the heap is made by nobody (std has no       *)
(* select over channels).  try_send and try_recv refuse where the others   *)
(* would block.                                                            *)
(***************************************************************************)
EXTENDS Mpmc

CONSTANT MaxSends         \* bound on the messages of one sender

ASSUME MaxSendsAssumption == MaxSends \in Nat

VARIABLES is_disconnected,
          msg,            \* msg[t]: the message in t's hands or in its packet
          ready,          \* ready[t]: Packet::ready of t's packet
          partner,        \* partner[t]: the owner of the packet in t's token
          left            \* left[t]: how many messages t may still send

vars == <<pc, counter, context, selectors, woken, is_disconnected, msg, ready, partner, left>>

Init ==
  /\ MpmcInit
  /\ is_disconnected = FALSE
  /\ msg = [t \in Threads |-> None]
  /\ ready = [t \in Threads |-> FALSE]
  /\ partner = [t \in Threads |-> None]
  /\ left = [t \in Senders |-> MaxSends]

Locked == \E u \in Threads : pc[u] \in {"unpark", "unpark_all"}

call(t) ==
  /\ Goto(t, "idle", "start")
  /\ \/ t \in Receivers /\ UNCHANGED <<msg, left>>
     \/ /\ t \in Senders /\ left[t] > 0
        /\ left' = [left EXCEPT ![t] = @ - 1]
        /\ msg' = [msg EXCEPT ![t] = <<t, left[t]>>]
  /\ UNCHANGED <<counter, context, selectors, woken, is_disconnected, ready, partner>>

\* There is a waiting partner: take its entry, and its packet.
pair_up(t) ==
  /\ ~Locked
  /\ LET i == Selectable(t, peer(t))
     IN  /\ i # 0
         /\ select_entry(t, i)
         /\ partner' = [partner EXCEPT ![t] = selectors[peer(t)][i]]
  /\ Goto(t, "start", "unpark")
  /\ UNCHANGED <<counter, token, is_disconnected, msg, ready, left>>

\* There is none: block, unless the channel is closed or the call is a try.
block(t) ==
  /\ ~Locked /\ Selectable(t, peer(t)) = 0
  /\ \/ ~is_disconnected /\ Goto(t, "start", "wait") /\ push(t)
     \/ Goto(t, "start", "refused") /\ UNCHANGED selectors
  /\ UNCHANGED <<counter, context, woken, is_disconnected, msg, ready, partner, left>>

unpark(t) ==
  /\ Goto(t, "unpark", IF t \in Senders THEN "write" ELSE "read")
  /\ unpark_woken(t)
  /\ UNCHANGED <<counter, select, selectors, is_disconnected, msg, ready, partner, left>>

\* write and read: the message goes into, or comes out of, the packet.
write(t) ==
  /\ Goto(t, "write", "signal")
  /\ msg' = [msg EXCEPT ![partner[t]] = msg[t], ![t] = None]
  /\ UNCHANGED <<counter, context, selectors, woken, is_disconnected, ready, partner, left>>

read(t) ==
  /\ Goto(t, "read", "signal")
  /\ msg' = [msg EXCEPT ![t] = msg[partner[t]], ![partner[t]] = None]
  /\ UNCHANGED <<counter, context, selectors, woken, is_disconnected, ready, partner, left>>

\* packet.ready.store(true), the last access to the packet.
signal(t) ==
  /\ Goto(t, "signal", "done")
  /\ ready' = [ready EXCEPT ![partner[t]] = TRUE]
  /\ partner' = [partner EXCEPT ![t] = None]
  /\ UNCHANGED <<counter, context, selectors, woken, is_disconnected, msg, left>>

wait_until(t) ==
  /\ wait_load(t, "wait_ready") \/ park(t)
  /\ UNCHANGED <<counter, selectors, woken, is_disconnected, msg, ready, partner, left>>

expire(t) ==
  /\ timeout(t, "wait_ready")
  /\ UNCHANGED <<counter, selectors, woken, is_disconnected, msg, ready, partner, left>>

\* Mutant: the packet of a selected operation is left without waiting.
Mut_wait_ready(t) ==
  /\ Goto(t, "wait_ready", "done")
  /\ UNCHANGED <<counter, context, selectors, woken, is_disconnected, msg, ready, partner, left>>

wait_ready(t) ==
  /\ ready[t]
  /\ Goto(t, "wait_ready", "done")
  /\ ready' = [ready EXCEPT ![t] = FALSE]
  /\ UNCHANGED <<counter, context, selectors, woken, is_disconnected, msg, partner, left>>

\* Aborted or disconnected: a sender takes its message back.
unregister(t) ==
  /\ ~Locked
  /\ Goto(t, "unregister", "refused")
  /\ remove(t)
  /\ Decided(t, "Waiting")
  /\ UNCHANGED <<counter, token, woken, is_disconnected, msg, ready, partner, left>>

return(t) ==
  /\ Goto(t, "done", "idle") \/ Goto(t, "refused", "idle")
  /\ msg' = [msg EXCEPT ![t] = None]
  /\ UNCHANGED <<counter, context, selectors, woken, is_disconnected, ready, partner, left>>

drop_handle(t) ==
  /\ release(t)
  /\ UNCHANGED <<context, selectors, woken, is_disconnected, msg, ready, partner, left>>

\* Mutant: the flag is set, and nobody is woken.
Mut_disconnect(t) ==
  /\ ~Locked
  /\ Goto(t, "disconnect_chan", IF is_disconnected THEN "destroy" ELSE "unpark_all")
  /\ is_disconnected' = TRUE
  /\ UNCHANGED <<counter, select, woken, token, selectors, msg, ready, partner, left>>

disconnect(t) ==
  /\ ~Locked
  /\ is_disconnected' = TRUE
  /\ \/ /\ ~is_disconnected
        /\ Goto(t, "disconnect_chan", "unpark_all")
        /\ select_all(t, {"senders", "receivers"})
     \/ /\ is_disconnected
        /\ Goto(t, "disconnect_chan", "destroy")
        /\ UNCHANGED <<select, woken>>
  /\ UNCHANGED <<counter, token, selectors, msg, ready, partner, left>>

disconnect_unpark(t) ==
  /\ Goto(t, "unpark_all", "destroy")
  /\ unpark_woken(t)
  /\ UNCHANGED <<counter, select, selectors, is_disconnected, msg, ready, partner, left>>

destroy_channel(t) ==
  /\ release_destroy(t) \/ free_channel(t)
  /\ UNCHANGED <<context, selectors, woken, is_disconnected, msg, ready, partner, left>>
-----------------------------------------------------------------------------
Step(t) ==
  \/ call(t) \/ pair_up(t) \/ block(t) \/ unpark(t) \/ write(t) \/ read(t) \/ signal(t)
  \/ wait_until(t) \/ wait_ready(t) \/ unregister(t) \/ return(t)
  \/ drop_handle(t) \/ disconnect(t) \/ disconnect_unpark(t) \/ destroy_channel(t)

Done == freed /\ UNCHANGED vars

Next == (\E t \in Threads : Step(t) \/ expire(t)) \/ Done

Spec == Init /\ [][Next]_vars

\* The scheduler runs every thread that can run; no time limit is counted on.
\* Every owner of a handle drops it some day.
FairSpec ==
  Spec /\ \A t \in Threads : WF_vars(Step(t)) /\ SF_vars(drop_handle(t))
-----------------------------------------------------------------------------
\* A thread that has been paired up with another uses a packet on the other's
\* stack: until it has signalled, the other is still inside its call, and can
\* neither time out nor be disconnected.
PacketOutlivesUse ==
  \A t \in Threads :
    partner[t] # None =>
      /\ pc[partner[t]] = "wait_ready" \/ select[partner[t]] = "Operation"
      /\ ~ready[partner[t]]
      /\ \A u \in Threads \ {t} : partner[u] # partner[t]

\* Every call returns and the channel is freed in the end: a sender and a
\* receiver that both wait find each other, or hear of the disconnection.
ChannelIsFreed == <>freed

\* Has somebody paired up with t?
Taken(t) == \E u \in Threads : partner[u] = t

Met(t) == partner[t] # None \/ Taken(t) \/ ready[t] \/ pc[t] = "done"

\* The message that receiver r is bound to get: it may not have left the
\* sender's hands yet.
Bound(r) ==
  IF pc[r] = "read" \/ (pc[r] = "unpark" /\ partner[r] # None) THEN msg[partner[r]]
  ELSE IF \E s \in Senders : partner[s] = r /\ pc[s] \in {"unpark", "write"}
  THEN msg[CHOOSE s \in Senders : partner[s] = r /\ pc[s] \in {"unpark", "write"}]
  ELSE msg[r]

\* How the call of t stands, and what sender s has to offer.
Situation(t) ==
  IF Met(t) THEN "met"
  ELSE IF pc[t] \in {"start", "wait", "park"} /\ select[t] = "Waiting" THEN "calling"
  ELSE IF pc[t] \in {"wait", "park", "unregister", "refused"} THEN "refused"
  ELSE "idle"

Offer(s) == IF Met(s) THEN None ELSE msg[s]

Abstract == INSTANCE AbstractRendezvous WITH
  Messages <- Senders \X (1 .. MaxSends),
  state <- [t \in Threads |-> Situation(t)],
  offer <- [s \in Senders |-> Offer(s)],
  got <- [r \in Receivers |-> Bound(r)]

\* A message changes hands exactly when the two calls succeed: the sender that
\* times out or is disconnected has its message back and nobody else has it,
\* however the timeout races the partner that selects it.
ImplementsRendezvous == Abstract!Spec
=============================================================================
