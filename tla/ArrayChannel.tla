---------------------------- MODULE ArrayChannel ----------------------------
(***************************************************************************)
(* The bounded channel, library/std/src/sync/mpmc/array.rs, over the       *)
(* handles, contexts and wakers of Mpmc and SyncWaker.                     *)
(*                                                                         *)
(* Positions and stamps are the code's numbers: a lap and an index in it,  *)
(* with room for the mark bit between the two.  The mark bit of the tail   *)
(* is kept apart from the rest of the word, and both are read and written  *)
(* in one step.  A sender's n-th message from the end is <<t, n>>.         *)
(* try_send and try_recv are calls that time out at the first refusal.     *)
(***************************************************************************)
EXTENDS SyncWaker

CONSTANTS cap,            \* the capacity
          mark_bit,       \* (cap + 1).next_power_of_two()
          MaxSends        \* bound on the messages of one sender

ASSUME CapacityAssumption ==
  /\ cap \in Nat \ {0} /\ mark_bit \in Nat /\ MaxSends \in Nat
  /\ \E e \in 0 .. cap + 1 : mark_bit = 2 ^ e /\ cap < mark_bit /\ mark_bit <= 2 * cap
ASSUME NoMessageAssumption == None \notin Senders \X (1 .. MaxSends)

VARIABLES head, tail, mark,     \* the two positions; the mark bit of the tail
          stamp, slot,          \* the buffer
          pos,                  \* pos[t]: the local tail, head or token of t
          msg,                  \* msg[t]: the message in t's hands
          left                  \* left[t]: how many messages t may still send

chan == <<head, tail, mark, stamp, slot>>

vars == <<pc, counter, context, wakers, chan, pos, msg, left>>

one_lap == 2 * mark_bit

index(p) == p % mark_bit

advance(p) == IF index(p) + 1 < cap THEN p + 1 ELSE (p - index(p)) + one_lap

Init ==
  /\ SyncWakerInit
  /\ head = 0 /\ tail = 0 /\ mark = FALSE
  /\ stamp = [i \in 0 .. cap - 1 |-> i]
  /\ slot = [i \in 0 .. cap - 1 |-> None]
  /\ pos = [t \in Threads |-> 0]
  /\ msg = [t \in Threads |-> None]
  /\ left = [t \in Senders |-> MaxSends]

Local(t, p) == pos' = [pos EXCEPT ![t] = p]

MoveTo(t, p, m) == Local(t, p) /\ msg' = [msg EXCEPT ![t] = m]
-----------------------------------------------------------------------------
(***************************************************************************)
(* send, send_timeout, try_send                                            *)
(***************************************************************************)
send(t) ==
  /\ t \in Senders /\ left[t] > 0
  /\ Goto(t, "idle", "load_tail")
  /\ left' = [left EXCEPT ![t] = @ - 1]
  /\ MoveTo(t, 0, <<t, left[t]>>)
  /\ UNCHANGED <<counter, context, wakers, chan>>

\* start_send: load the tail; a marked one ends the call with an error.
LoadTail(t, from) ==
  /\ Goto(t, from, IF mark THEN "closed" ELSE "load_stamp")
  /\ Local(t, IF mark THEN 0 ELSE tail)
  /\ UNCHANGED <<counter, context, wakers, chan, msg, left>>

load_tail(t) == LoadTail(t, "load_tail")

inspect_stamp(t) ==
  /\ t \in Senders
  /\ LET s == stamp[index(pos[t])]
     IN  Goto(t, "load_stamp", IF s = pos[t] THEN "move_tail"
                               ELSE IF s + one_lap = pos[t] + 1 THEN "load_head"
                               ELSE "load_tail")
  /\ UNCHANGED <<counter, context, wakers, chan, pos, msg, left>>

move_tail(t) ==
  \/ /\ tail = pos[t] /\ ~mark
     /\ Goto(t, "move_tail", "write")
     /\ tail' = advance(tail)
     /\ UNCHANGED <<counter, context, wakers, head, mark, stamp, slot, pos, msg, left>>
  \/ (tail # pos[t] \/ mark) /\ LoadTail(t, "move_tail")

\* The slot holds a message of the last lap: the channel is full if the head
\* is one lap behind as well.
check_full(t) ==
  /\ t \in Senders
  /\ Goto(t, "load_head", IF head + one_lap = pos[t] THEN "refused" ELSE "load_tail")
  /\ Local(t, 0)
  /\ UNCHANGED <<counter, context, wakers, chan, msg, left>>

\* write: first the message ...
write_msg(t) ==
  /\ Goto(t, "write", "publish")
  /\ slot' = [slot EXCEPT ![index(pos[t])] = msg[t]]
  /\ msg' = [msg EXCEPT ![t] = None]
  /\ UNCHANGED <<counter, context, wakers, head, tail, mark, stamp, pos, left>>

\* ... and then, as in read, the stamp that hands the slot over.
publish(t) ==
  /\ Goto(t, "publish", "notify")
  /\ stamp' = [stamp EXCEPT ![index(pos[t])] =
                 IF t \in Senders THEN pos[t] + 1 ELSE pos[t] + one_lap]
  /\ MoveTo(t, 0, None)
  /\ UNCHANGED <<counter, context, wakers, head, tail, mark, slot, left>>
-----------------------------------------------------------------------------
(***************************************************************************)
(* recv, recv_timeout, try_recv                                            *)
(***************************************************************************)
LoadHead(t, from) ==
  /\ Goto(t, from, "load_stamp")
  /\ Local(t, head)
  /\ UNCHANGED <<counter, context, wakers, chan, msg, left>>

recv(t) == t \in Receivers /\ LoadHead(t, "idle")

load_head(t) == t \in Receivers /\ LoadHead(t, "load_head")

inspect_stamp_recv(t) ==
  /\ t \in Receivers
  /\ LET s == stamp[index(pos[t])]
     IN  Goto(t, "load_stamp", IF s = pos[t] + 1 THEN "move_head"
                               ELSE IF s = pos[t] THEN "check_empty"
                               ELSE "load_head")
  /\ UNCHANGED <<counter, context, wakers, chan, pos, msg, left>>

\* Mutant: the compare_exchange is a store.
Mut_move_head(t) ==
  /\ Goto(t, "move_head", "read")
  /\ head' = advance(pos[t])
  /\ UNCHANGED <<counter, context, wakers, tail, mark, stamp, slot, pos, msg, left>>

move_head(t) ==
  \/ /\ head = pos[t]
     /\ Goto(t, "move_head", "read")
     /\ head' = advance(head)
     /\ UNCHANGED <<counter, context, wakers, tail, mark, stamp, slot, pos, msg, left>>
  \/ head # pos[t] /\ LoadHead(t, "move_head")

\* Mutant: a disconnected channel is not asked for what is left in it.
Mut_check_empty(t) ==
  /\ Goto(t, "check_empty", IF mark THEN "closed"
                            ELSE IF tail # pos[t] THEN "load_head" ELSE "refused")
  /\ Local(t, 0)
  /\ UNCHANGED <<counter, context, wakers, chan, msg, left>>

\* The slot is free: the channel is empty if the tail is here as well.
check_empty(t) ==
  /\ Goto(t, "check_empty", IF tail # pos[t] THEN "load_head"
                            ELSE IF mark THEN "closed" ELSE "refused")
  /\ Local(t, 0)
  /\ UNCHANGED <<counter, context, wakers, chan, msg, left>>

read_msg(t) ==
  /\ Goto(t, "read", "publish")
  /\ MoveTo(t, pos[t], slot[index(pos[t])])
  /\ slot' = [slot EXCEPT ![index(pos[t])] = None]
  /\ UNCHANGED <<counter, context, wakers, head, tail, mark, stamp, left>>
-----------------------------------------------------------------------------
(***************************************************************************)
(* Blocking, the same for both sides                                       *)
(***************************************************************************)
again(t) == IF t \in Senders THEN "load_tail" ELSE "load_head"

\* The call fails: the channel is closed, or the time is up.
return(t) ==
  /\ Goto(t, "closed", "idle") \/ Goto(t, "refused", "idle")
  /\ msg' = [msg EXCEPT ![t] = None]
  /\ UNCHANGED <<counter, context, wakers, chan, pos, left>>

\* Registered, the thread looks again: is_full and is_empty load two words,
\* is_disconnected the tail once more.
look_again(t) ==
  /\ \/ Goto(t, "recheck", "recheck2") /\ Local(t, IF t \in Senders THEN tail ELSE head)
     \/ /\ Local(t, 0)
        /\ LET blocked == IF t \in Senders THEN head + one_lap = pos[t] ELSE tail = pos[t]
           IN  Goto(t, "recheck2", IF blocked THEN "recheck3" ELSE "abort")
     \/ Goto(t, "recheck3", IF mark THEN "abort" ELSE "wait") /\ UNCHANGED pos
  /\ UNCHANGED <<counter, context, wakers, chan, msg, left>>

\* Mutant: the thread does not look again.
Mut_block(t) ==
  /\ register(t, "refused", "wait") \/ wait_until(t, again(t))
  /\ UNCHANGED <<counter, chan, pos, msg, left>>

block(t) ==
  /\ register(t, "refused", "recheck") \/ wait_until(t, again(t))
  /\ UNCHANGED <<counter, chan, pos, msg, left>>

expire(t) == timeout(t, again(t)) /\ UNCHANGED <<counter, wakers, chan, pos, msg, left>>

notify(t) == notify_one(t) /\ UNCHANGED <<counter, chan, pos, msg, left>>
-----------------------------------------------------------------------------
(***************************************************************************)
(* Dropping a handle                                                       *)
(***************************************************************************)
drop_handle(t) ==
  /\ release(t)
  /\ UNCHANGED <<context, wakers, chan, pos, msg, left>>

AfterDisconnect(t) == IF t \in Senders THEN "destroy" ELSE "discard"

\* disconnect_senders and disconnect_receivers: only the side that sets the
\* mark wakes the other.
disconnect(t) ==
  /\ \/ /\ Goto(t, "disconnect_chan", IF mark THEN AfterDisconnect(t) ELSE "disconnect")
        /\ mark' = TRUE
        /\ Local(t, IF t \in Receivers THEN head ELSE 0)
        /\ UNCHANGED <<context, wakers>>
     \/ /\ disconnect_select(t) \/ unpark(t, "unpark_all", AfterDisconnect(t))
        /\ UNCHANGED <<mark, pos>>
  /\ UNCHANGED <<counter, head, tail, stamp, slot, msg, left>>

\* discard_all_messages, with a local head; it waits for a sender that has
\* claimed a slot before the mark was set.
discard_all_messages(t) ==
  LET i == index(pos[t])
  IN  /\ \/ /\ stamp[i] = pos[t] + 1
            /\ Goto(t, "discard", "discard")
            /\ Local(t, advance(pos[t]))
            /\ slot' = [slot EXCEPT ![i] = None]
         \/ /\ stamp[i] # pos[t] + 1 /\ tail = pos[t]
            /\ Goto(t, "discard", "destroy")
            /\ Local(t, 0)
            /\ UNCHANGED slot
      /\ UNCHANGED <<counter, context, wakers, head, tail, mark, stamp, msg, left>>

destroy_channel(t) ==
  /\ release_destroy(t) \/ free_channel(t)
  /\ UNCHANGED <<context, wakers, chan, pos, msg, left>>
-----------------------------------------------------------------------------
Step(t) ==
  \/ send(t) \/ load_tail(t) \/ inspect_stamp(t) \/ move_tail(t)
  \/ check_full(t) \/ write_msg(t) \/ publish(t)
  \/ recv(t) \/ load_head(t) \/ inspect_stamp_recv(t) \/ move_head(t) \/ check_empty(t) \/ read_msg(t)
  \/ return(t) \/ look_again(t) \/ block(t) \/ notify(t)
  \/ drop_handle(t) \/ disconnect(t) \/ discard_all_messages(t) \/ destroy_channel(t)

Done == freed /\ UNCHANGED vars

Next == (\E t \in Threads : Step(t) \/ expire(t)) \/ Done

Spec == Init /\ [][Next]_vars

\* The scheduler runs every thread that can run; no time limit is counted on.
\* Every owner of a handle drops it some day.
FairSpec ==
  Spec /\ \A t \in Threads : WF_vars(Step(t)) /\ SF_vars(drop_handle(t))
-----------------------------------------------------------------------------
\* Thread t is about to access the message of slot i, without any atomic.
Accesses(t, i) ==
  /\ index(pos[t]) = i
  /\ pc[t] \in {"write", "read"} \/ (pc[t] = "discard" /\ stamp[i] = pos[t] + 1)

\* Between the claim of a position and the stamp a slot belongs to one thread:
\* no data race, no unread message overwritten, no read of an uninitialized
\* or of an already moved message.
SlotIsOwned ==
  \A t \in Threads, i \in 0 .. cap - 1 :
    Accesses(t, i) =>
      /\ slot[i] = None <=> pc[t] = "write"
      /\ \A u \in Threads \ {t} : ~Accesses(u, i)

\* The channel is freed when nobody is left inside, with nothing left in it
\* and nobody registered, as the wakers' destructors assert.
FreedWhenUnused ==
  freed =>
    /\ \A t \in Threads : pc[t] = "gone"
    /\ \A i \in 0 .. cap - 1 : slot[i] = None
    /\ \A w \in {"senders", "receivers"} : selectors[w] = << >> /\ is_empty[w]

\* Every call returns and the channel is freed in the end: no wake-up is lost,
\* whichever of the two loads of is_full or is_empty, the registration, the
\* timeout and the disconnection it falls between.
ChannelIsFreed == <>freed

\* How many messages were sent before position p.
rank(p) == (p \div one_lap) * cap + index(p)

\* The first position whose message is neither received nor discarded.
first ==
  IF handles.receivers > 0 \/ ~mark THEN head
  ELSE IF \E t \in Receivers : pc[t] \in {"disconnect", "unpark_all", "discard"}
  THEN pos[CHOOSE t \in Receivers : pc[t] \in {"disconnect", "unpark_all", "discard"}]
  ELSE IF \E t \in Receivers : pc[t] = "disconnect_chan" THEN head
  ELSE tail

\* The message of position p: still in its sender's hands, or in the slot.
message(p) ==
  IF \E t \in Senders : pc[t] = "write" /\ pos[t] = p
  THEN msg[CHOOSE t \in Senders : pc[t] = "write" /\ pos[t] = p]
  ELSE slot[index(p)]

position(r) == (r \div cap) * one_lap + (r % cap)

Abstract == INSTANCE AbstractChannel WITH
  Messages <- Senders \X (1 .. MaxSends),
  Capacity <- cap,
  queue <- [k \in 1 .. rank(tail) - rank(first) |-> message(position(rank(first) + k - 1))],
  disconnected <- mark,
  abandoned <- handles.receivers = 0,
  got <- [t \in Threads |-> IF t \in Senders THEN None
                            ELSE IF pc[t] = "read" THEN message(pos[t]) ELSE msg[t]],
  verdict <- [t \in Threads |-> IF pc[t] = "closed" THEN "closed"
                                ELSE IF pc[t] # "refused" THEN "none"
                                ELSE IF t \in Senders THEN "full" ELSE "empty"]

\* The channel is a queue: every message is received once and in order, or
\* discarded after the last receiver, and a call is told that the channel is
\* full, empty or closed only if it is at that moment.
ImplementsChannel == Abstract!Spec
=============================================================================
