----------------------------- MODULE ListChannel -----------------------------
(***************************************************************************)
(* The unbounded channel, library/std/src/sync/mpmc/list.rs, over the      *)
(* handles, contexts and wakers of Mpmc and SyncWaker.                     *)
(*                                                                         *)
(* A Position keeps index >> SHIFT and the mark bit of the index as two    *)
(* fields, which are read and written in one step; its block is another    *)
(* word.  Blocks are named by the lap they serve: each lap has one, and a  *)
(* block that is allocated in vain is its thread's own until it is         *)
(* dropped.  Senders never block.  try_recv is a call that times out at    *)
(* once.                                                                   *)
(***************************************************************************)
EXTENDS SyncWaker

CONSTANTS LAP,            \* positions of one lap, the last of them unused
          MaxSends        \* bound on the messages of one sender

ASSUME LapAssumption == LAP \in Nat /\ LAP > 1 /\ MaxSends \in Nat

BLOCK_CAP == LAP - 1

VARIABLES head,           \* its mark: the block is not the last one
          tail,           \* its mark: the channel is disconnected
          live,           \* the blocks that are allocated and not yet freed
          next,           \* next[b]: the next block
          state, slot,    \* the bits and the message of each slot
          loc,            \* loc[t]: the local variables and the token of t
          left            \* left[t]: how many messages t may still send

heap == <<live, next, state, slot>>
chan == <<head, tail, heap>>
vars == <<pc, counter, context, wakers, chan, loc, left>>

Total == MaxSends * Cardinality(Senders)

Blocks == 0 .. (Total \div BLOCK_CAP) + 1

Slots == Blocks \X (0 .. BLOCK_CAP - 1)

offset(p) == p % LAP

lap(p) == p \div LAP

\* The slot of t's token, and whether it is the last one of its block.
here(t) == <<loc[t].block, offset(loc[t].index)>>

AtEnd(t) == offset(loc[t].index) + 1 = BLOCK_CAP

Position == [index |-> 0, mark |-> FALSE, block |-> None]

\* mark and new_mark: of the local head and new_head; i: of Block::destroy.
NoLocals == [index |-> 0, mark |-> FALSE, new_mark |-> FALSE, block |-> None, i |-> 0, msg |-> None]

Init ==
  /\ SyncWakerInit
  /\ head = Position /\ tail = Position
  /\ live = {} /\ next = [b \in Blocks |-> None]
  /\ state = [s \in Slots |-> {}] /\ slot = [s \in Slots |-> None]
  /\ loc = [t \in Threads |-> NoLocals]
  /\ left = [t \in Senders |-> MaxSends]

\* A step that leaves handles, contexts and wakers alone.
Move(t, from, to) == Goto(t, from, to) /\ UNCHANGED <<counter, context, wakers, left>>

Leave(t) == loc' = [loc EXCEPT ![t] = NoLocals]

SetBit(s, bit) == state' = [state EXCEPT ![s] = @ \cup {bit}]
-----------------------------------------------------------------------------
(***************************************************************************)
(* send                                                                    *)
(***************************************************************************)
send(t) ==
  /\ t \in Senders /\ left[t] > 0
  /\ Goto(t, "idle", "load_tail")
  /\ left' = [left EXCEPT ![t] = @ - 1]
  /\ loc' = [loc EXCEPT ![t].msg = <<t, left[t]>>]
  /\ UNCHANGED <<counter, context, wakers, chan>>

\* start_send: load the tail's index, then its block.
LoadTail(t, from) ==
  /\ Move(t, from, IF tail.mark THEN "closed" ELSE "load_tail_block")
  /\ loc' = [loc EXCEPT ![t].index = tail.index]
  /\ UNCHANGED chan

load_tail(t) == LoadTail(t, "load_tail")

load_tail_block(t) ==
  /\ Move(t, "load_tail_block", IF offset(loc[t].index) = BLOCK_CAP THEN "load_tail"
                                ELSE IF tail.block = None THEN "install" ELSE "move_tail")
  /\ loc' = [loc EXCEPT ![t].block = tail.block]
  /\ UNCHANGED chan

\* The first block of all: into the tail, if nobody was faster ...
install(t) ==
  \/ /\ tail.block = None
     /\ Move(t, "install", "init_head")
     /\ tail' = [tail EXCEPT !.block = 0]
     /\ live' = live \cup {0}
     /\ loc' = [loc EXCEPT ![t].block = 0]
     /\ UNCHANGED <<head, next, state, slot>>
  \/ /\ tail.block # None
     /\ Move(t, "install", "load_tail")
     /\ UNCHANGED <<chan, loc>>

\* ... and into the head.
init_head(t) ==
  /\ Move(t, "init_head", "move_tail")
  /\ head' = [head EXCEPT !.block = loc[t].block]
  /\ UNCHANGED <<tail, heap, loc>>

move_tail(t) ==
  \/ /\ tail.index = loc[t].index /\ ~tail.mark
     /\ Move(t, "move_tail", IF AtEnd(t) THEN "set_tail_block" ELSE "write")
     /\ tail' = [tail EXCEPT !.index = @ + 1]
     /\ UNCHANGED <<head, heap, loc>>
  \/ (tail.index # loc[t].index \/ tail.mark) /\ LoadTail(t, "move_tail")

\* Whoever takes the last slot installs the next block, in three steps.
set_tail_block(t) ==
  /\ Move(t, "set_tail_block", "bump_tail")
  /\ tail' = [tail EXCEPT !.block = lap(loc[t].index) + 1]
  /\ live' = live \cup {lap(loc[t].index) + 1}
  /\ UNCHANGED <<head, next, state, slot, loc>>

\* Mutant: the new block is never linked to the old one.
Mut_bump_tail(t) ==
  /\ Move(t, "bump_tail", "write")
  /\ tail' = [tail EXCEPT !.index = @ + 1]
  /\ UNCHANGED <<head, heap, loc>>

bump_tail(t) ==
  /\ Move(t, "bump_tail", "set_next")
  /\ tail' = [tail EXCEPT !.index = @ + 1]
  /\ UNCHANGED <<head, heap, loc>>

set_next(t) ==
  /\ Move(t, "set_next", "write")
  /\ next' = [next EXCEPT ![loc[t].block] = lap(loc[t].index) + 1]
  /\ UNCHANGED <<head, tail, live, state, slot, loc>>

\* write: the message, then the WRITE bit.
write_msg(t) ==
  /\ Move(t, "write", "publish")
  /\ slot' = [slot EXCEPT ![here(t)] = loc[t].msg]
  /\ loc' = [loc EXCEPT ![t].msg = None]
  /\ UNCHANGED <<head, tail, live, next, state>>

publish(t) ==
  /\ Move(t, "publish", "notify")
  /\ SetBit(here(t), "WRITE")
  /\ Leave(t)
  /\ UNCHANGED <<head, tail, live, next, slot>>

notify(t) == notify_one(t) /\ UNCHANGED <<counter, chan, loc, left>>
-----------------------------------------------------------------------------
(***************************************************************************)
(* recv, recv_timeout, try_recv                                            *)
(***************************************************************************)
LoadHead(t, from) ==
  /\ Move(t, from, "load_head_block")
  /\ loc' = [loc EXCEPT ![t].index = head.index, ![t].mark = head.mark]
  /\ UNCHANGED chan

recv(t) == t \in Receivers /\ LoadHead(t, "idle")

load_head(t) == LoadHead(t, "load_head")

\* A block of null is met only while the first message is being sent.
Forward(b) == IF b = None THEN "load_head" ELSE "move_head"

load_head_block(t) ==
  /\ Move(t, "load_head_block",
          IF offset(loc[t].index) = BLOCK_CAP THEN "load_head"
          ELSE IF loc[t].mark THEN Forward(head.block) ELSE "check_empty")
  /\ loc' = [loc EXCEPT ![t].block = head.block, ![t].new_mark = loc[t].mark]
  /\ UNCHANGED chan

\* Without the mark in head, look at the tail: empty, or in another block?
check_empty(t) ==
  /\ \/ /\ tail.index = loc[t].index
        /\ Move(t, "check_empty", IF tail.mark THEN "closed" ELSE "refused")
        /\ Leave(t)
     \/ /\ tail.index # loc[t].index
        /\ Move(t, "check_empty", Forward(loc[t].block))
        /\ loc' = [loc EXCEPT ![t].new_mark = (lap(tail.index) # lap(loc[t].index))]
  /\ UNCHANGED chan

\* Mutant: the mark is set whether or not there is a next block.
Mut_move_head(t) ==
  \/ /\ head.index = loc[t].index
     /\ Move(t, "move_head", IF AtEnd(t) THEN "wait_next" ELSE "read")
     /\ head' = [head EXCEPT !.index = @ + 1, !.mark = TRUE]
     /\ UNCHANGED <<tail, heap, loc>>
  \/ head.index # loc[t].index /\ LoadHead(t, "move_head")

move_head(t) ==
  \/ /\ head.index = loc[t].index /\ head.mark = loc[t].mark
     /\ Move(t, "move_head", IF AtEnd(t) THEN "wait_next" ELSE "read")
     /\ head' = [head EXCEPT !.index = @ + 1, !.mark = loc[t].new_mark]
     /\ UNCHANGED <<tail, heap, loc>>
  \/ (head.index # loc[t].index \/ head.mark # loc[t].mark) /\ LoadHead(t, "move_head")

\* The last slot of the block: wait for the next one and move the head to it.
wait_next(t) ==
  /\ Move(t, "wait_next", "set_head_block")
  /\ next[loc[t].block] # None
  /\ loc' = [loc EXCEPT ![t].new_mark = (next[next[loc[t].block]] # None)]
  /\ UNCHANGED chan

set_head_block(t) ==
  /\ Move(t, "set_head_block", "set_head")
  /\ head' = [head EXCEPT !.block = next[loc[t].block]]
  /\ UNCHANGED <<tail, heap, loc>>

set_head(t) ==
  /\ Move(t, "set_head", "read")
  /\ head' = [head EXCEPT !.index = loc[t].index + 2, !.mark = loc[t].new_mark]
  /\ UNCHANGED <<tail, heap, loc>>

\* read: wait for the WRITE bit and move the message out.
read_msg(t) ==
  /\ Move(t, "read", IF AtEnd(t) THEN "destroy_load" ELSE "mark_read")
  /\ "WRITE" \in state[here(t)]
  /\ loc' = [loc EXCEPT ![t].msg = slot[here(t)]]
  /\ slot' = [slot EXCEPT ![here(t)] = None]
  /\ UNCHANGED <<head, tail, live, next, state>>

\* Set the READ bit; somebody may be waiting for it to destroy the block.
mark_read(t) ==
  /\ pc[t] = "mark_read"
  /\ SetBit(here(t), "READ")
  /\ IF "DESTROY" \in state[here(t)]
     THEN /\ Move(t, "mark_read", "destroy_load")
          /\ loc' = [loc EXCEPT ![t].i = offset(loc[t].index) + 1]
     ELSE Move(t, "mark_read", "idle") /\ Leave(t)
  /\ UNCHANGED <<head, tail, live, next, slot>>

\* Block::destroy: go on past a slot that has been read, ...
NextSlot(t, from) ==
  /\ Move(t, from, "destroy_load")
  /\ loc' = [loc EXCEPT ![t].i = @ + 1]

destroy_load(t) ==
  /\ pc[t] = "destroy_load"
  /\ LET read == "READ" \in state[<<loc[t].block, loc[t].i>>]
     IN  \/ loc[t].i < BLOCK_CAP - 1 /\ read /\ NextSlot(t, "destroy_load")
         \/ loc[t].i < BLOCK_CAP - 1 /\ ~read /\ Move(t, "destroy_load", "destroy_or") /\ UNCHANGED loc
         \/ loc[t].i = BLOCK_CAP - 1 /\ Move(t, "destroy_load", "free_block") /\ UNCHANGED loc
  /\ UNCHANGED chan

\* Mutant: the READ bit is not looked at again when the DESTROY bit is set.
Mut_destroy_or(t) ==
  /\ pc[t] = "destroy_or"
  /\ SetBit(<<loc[t].block, loc[t].i>>, "DESTROY")
  /\ Move(t, "destroy_or", "idle")
  /\ Leave(t)
  /\ UNCHANGED <<head, tail, live, next, slot>>

\* ... and leave the rest to the reader of one that has not.
destroy_or(t) ==
  /\ pc[t] = "destroy_or"
  /\ SetBit(<<loc[t].block, loc[t].i>>, "DESTROY")
  /\ IF "READ" \in state[<<loc[t].block, loc[t].i>>]
     THEN NextSlot(t, "destroy_or")
     ELSE Move(t, "destroy_or", "idle") /\ Leave(t)
  /\ UNCHANGED <<head, tail, live, next, slot>>

free_block(t) ==
  /\ Move(t, "free_block", "idle")
  /\ live' = live \ {loc[t].block}
  /\ Leave(t)
  /\ UNCHANGED <<head, tail, next, state, slot>>

\* The call fails: the channel is closed, or the time is up.
return(t) ==
  /\ Move(t, "closed", "idle") \/ Move(t, "refused", "idle")
  /\ Leave(t)
  /\ UNCHANGED chan

\* Mutant: after the registration only the disconnection is looked for.
Mut_look_again(t) ==
  /\ \/ Move(t, "recheck", "recheck3")
     \/ Move(t, "recheck3", IF tail.mark THEN "abort" ELSE "wait")
  /\ UNCHANGED <<chan, loc>>

\* is_empty loads the head and then the tail, is_disconnected the tail again.
look_again(t) ==
  /\ \/ /\ Move(t, "recheck", "recheck2")
        /\ loc' = [loc EXCEPT ![t].index = head.index]
     \/ /\ Move(t, "recheck2", IF tail.index = loc[t].index THEN "recheck3" ELSE "abort")
        /\ Leave(t)
     \/ Move(t, "recheck3", IF tail.mark THEN "abort" ELSE "wait") /\ UNCHANGED loc
  /\ UNCHANGED chan

block(t) ==
  /\ t \in Receivers
  /\ register(t, "refused", "recheck") \/ wait_until(t, "load_head")
  /\ UNCHANGED <<counter, chan, loc, left>>

expire(t) == timeout(t, "load_head") /\ UNCHANGED <<counter, wakers, chan, loc, left>>
-----------------------------------------------------------------------------
(***************************************************************************)
(* Dropping a handle, and the channel                                      *)
(***************************************************************************)
drop_handle(t) ==
  /\ release(t)
  /\ UNCHANGED <<context, wakers, chan, loc, left>>

\* disconnect_senders wakes the receivers, disconnect_receivers discards the
\* messages: each only if it is the first to set the mark.
disconnect(t) ==
  /\ \/ /\ Goto(t, "disconnect_chan", IF tail.mark THEN "destroy"
                                      ELSE IF t \in Senders THEN "disconnect" ELSE "discard")
        /\ tail' = [tail EXCEPT !.mark = TRUE]
        /\ UNCHANGED <<context, wakers>>
     \/ /\ disconnect_select(t) \/ unpark(t, "unpark_all", "destroy")
        /\ UNCHANGED tail
  /\ UNCHANGED <<counter, head, heap, loc, left>>

\* discard_all_messages: wait until the tail is not at the end of a block,
\* then load the head ...
discard(t) ==
  /\ offset(tail.index) # BLOCK_CAP
  /\ Move(t, "discard", "swap_block")
  /\ loc' = [loc EXCEPT ![t].index = head.index]
  /\ UNCHANGED chan

\* ... and take its block, which a sender may still have to put there.
swap_block(t) ==
  /\ loc[t].index # tail.index => head.block # None
  /\ Move(t, "swap_block", "drain")
  /\ loc' = [loc EXCEPT ![t].block = head.block]
  /\ head' = [head EXCEPT !.block = None]
  /\ UNCHANGED <<tail, heap>>

\* One turn of the loop that discard_all_messages and Channel::drop share: it
\* drops a message, or frees a block and moves on; the first of the two has to
\* wait for a sender that is not done yet.
drain_one(t, from, waits) ==
  /\ loc[t].index # tail.index
  /\ Move(t, from, from)
  /\ \/ /\ offset(loc[t].index) < BLOCK_CAP
        /\ waits => "WRITE" \in state[here(t)]
        /\ slot' = [slot EXCEPT ![here(t)] = None]
        /\ loc' = [loc EXCEPT ![t].index = @ + 1]
        /\ UNCHANGED live
     \/ /\ offset(loc[t].index) = BLOCK_CAP
        /\ waits => next[loc[t].block] # None
        /\ live' = live \ {loc[t].block}
        /\ loc' = [loc EXCEPT ![t].index = @ + 1, ![t].block = next[loc[t].block]]
        /\ UNCHANGED slot
  /\ UNCHANGED <<head, tail, next, state>>

\* The last block is freed, and the head left at the tail.
drain(t) ==
  \/ drain_one(t, "drain", TRUE)
  \/ /\ loc[t].index = tail.index
     /\ Move(t, "drain", "destroy")
     /\ live' = live \ {loc[t].block}
     /\ head' = [head EXCEPT !.index = loc[t].index, !.mark = FALSE]
     /\ Leave(t)
     /\ UNCHANGED <<tail, next, state, slot>>

destroy_channel(t) == release_destroy(t) /\ UNCHANGED <<context, wakers, chan, loc, left>>

\* Channel::drop, by the thread that has the channel for itself.
drop_channel(t) ==
  \/ /\ Move(t, "free", "drop")
     /\ loc' = [loc EXCEPT ![t].index = head.index, ![t].block = head.block]
     /\ UNCHANGED chan
  \/ drain_one(t, "drop", FALSE)
  \/ /\ loc[t].index = tail.index
     /\ Goto(t, "drop", "gone")
     /\ live' = live \ {loc[t].block}
     /\ freed' = TRUE
     /\ Leave(t)
     /\ UNCHANGED <<handles, destroy, context, wakers, head, tail, next, state, slot, left>>
-----------------------------------------------------------------------------
Step(t) ==
  \/ send(t) \/ load_tail(t) \/ load_tail_block(t) \/ install(t) \/ init_head(t) \/ move_tail(t)
  \/ set_tail_block(t) \/ bump_tail(t) \/ set_next(t) \/ write_msg(t) \/ publish(t) \/ notify(t)
  \/ recv(t) \/ load_head(t) \/ load_head_block(t) \/ check_empty(t) \/ move_head(t)
  \/ wait_next(t) \/ set_head_block(t) \/ set_head(t) \/ read_msg(t) \/ mark_read(t)
  \/ destroy_load(t) \/ destroy_or(t) \/ free_block(t)
  \/ return(t) \/ look_again(t) \/ block(t)
  \/ drop_handle(t) \/ disconnect(t) \/ discard(t) \/ swap_block(t) \/ drain(t)
  \/ destroy_channel(t) \/ drop_channel(t)

Done == freed /\ UNCHANGED vars

Next == (\E t \in Threads : Step(t) \/ expire(t)) \/ Done

Spec == Init /\ [][Next]_vars

Symmetry == Permutations(Senders) \cup Permutations(Receivers)
-----------------------------------------------------------------------------
\* The block that the next step of t looks into or frees (None if there is none).
Uses(t) ==
  IF pc[t] \in {"set_next", "write", "publish", "wait_next", "read", "mark_read",
                "destroy_load", "destroy_or", "free_block", "drain", "drop"}
  THEN loc[t].block ELSE None

\* The next step of t moves a message out of its slot.
Unread(t) ==
  \/ pc[t] = "read" /\ "WRITE" \in state[here(t)]
  \/ /\ pc[t] \in {"drain", "drop"} /\ loc[t].index # tail.index /\ offset(loc[t].index) < BLOCK_CAP
     /\ pc[t] = "drain" => "WRITE" \in state[here(t)]

\* A block is freed once, by the last of the readers, the discarding receiver
\* or the drop of the channel, and nobody looks into it afterwards; what is
\* read or dropped is a message; and the channel leaves no block and no
\* message behind.
BlocksAreOwned ==
  /\ \A t \in Threads :
       /\ Uses(t) # None => Uses(t) \in live
       /\ pc[t] = "wait_next" /\ next[loc[t].block] # None => next[loc[t].block] \in live
       /\ Unread(t) => slot[here(t)] # None
  /\ freed => live = {} /\ \A s \in Slots : slot[s] = None

\* The first position whose message is neither received nor discarded.
first ==
  IF \E t \in Receivers : pc[t] \in {"swap_block", "drain"}
  THEN loc[CHOOSE t \in Receivers : pc[t] \in {"swap_block", "drain"}].index
  ELSE IF \E t \in Threads : pc[t] = "drop"
  THEN loc[CHOOSE t \in Threads : pc[t] = "drop"].index
  ELSE IF freed THEN tail.index
  ELSE head.index

\* The message of position p: still in its sender's hands, or in its slot.
Claimed(t, p) ==
  t \in Senders /\ loc[t].index = p /\ pc[t] \in {"set_tail_block", "bump_tail", "set_next", "write"}

message(p) ==
  IF \E t \in Senders : Claimed(t, p)
  THEN loc[CHOOSE t \in Senders : Claimed(t, p)].msg
  ELSE slot[<<lap(p), offset(p)>>]

Queue ==
  LET positions == SelectSeq([k \in 1 .. tail.index - first |-> first + k - 1],
                             LAMBDA p : offset(p) # BLOCK_CAP)
  IN  [k \in DOMAIN positions |-> message(positions[k])]

\* The slots that a sender has claimed and not written yet.
Claims(s) == \E t \in Senders :
  here(t) = s /\ pc[t] \in {"set_tail_block", "bump_tail", "set_next", "write", "publish"}

\* Whoever spins waits for a step that another thread is about to make, and that
\* does not wait for anybody who spins: senders and receivers at the end of a
\* block, readers of a slot without a message, and the receiver that discards.
SpinnersAreOwed ==
  LET Installs(b, points) == \E t \in Senders : AtEnd(t) /\ lap(loc[t].index) = b /\ pc[t] \in points
  IN  /\ offset(tail.index) = BLOCK_CAP => Installs(lap(tail.index), {"set_tail_block", "bump_tail"})
      /\ offset(head.index) = BLOCK_CAP =>
           \E t \in Receivers : pc[t] \in {"wait_next", "set_head_block", "set_head"}
      /\ head.block = None /\ head.index # tail.index /\ handles.receivers > 0 =>
           \E t \in Senders : pc[t] = "init_head"
      /\ \A t \in Receivers :
           /\ pc[t] = "swap_block" /\ loc[t].index # tail.index /\ head.block = None =>
                \E u \in Senders : pc[u] = "init_head"
           /\ \/ pc[t] = "wait_next"
              \/ pc[t] = "drain" /\ loc[t].index # tail.index /\ offset(loc[t].index) = BLOCK_CAP
              => next[loc[t].block] # None \/ Installs(loc[t].block, {"set_tail_block", "bump_tail", "set_next"})
           /\ \/ pc[t] = "read"
              \/ pc[t] = "drain" /\ loc[t].index # tail.index /\ offset(loc[t].index) < BLOCK_CAP
              => "WRITE" \in state[here(t)] \/ Claims(here(t))

\* A message is on its way to a sleeping receiver: t sends one and has yet to
\* look for somebody to wake, or t receives and will look at the channel again.
Delivers(t) ==
  IF t \in Senders
  THEN pc[t] \in {"set_tail_block", "bump_tail", "set_next", "write", "publish", "notify", "try_select"}
  ELSE \/ select[t] # "Waiting"
       \/ pc[t] \in {"load_head", "load_head_block", "check_empty", "move_head", "recheck", "recheck2", "abort"}

\* No receiver sleeps beside a message, or on a closed channel: as long as one
\* does, each message has a thread that delivers it, the disconnection has the
\* thread that announces it, and one that was selected has its waker.
SleepersAreOwed ==
  \A t \in Receivers : pc[t] = "park" /\ ~token[t] =>
    IF select[t] = "Waiting"
    THEN /\ Len(Queue) <= Cardinality({u \in Threads : Delivers(u)})
         /\ tail.mark => \E u \in Senders : pc[u] = "disconnect"
    ELSE \E u \in Senders : t \in woken[u]

Abstract == INSTANCE AbstractChannel WITH
  Messages <- Senders \X (1 .. MaxSends),
  Capacity <- Total + 1,
  queue <- Queue,
  disconnected <- tail.mark,
  abandoned <- handles.receivers = 0,
  got <- [t \in Threads |-> IF t \in Senders THEN None
                            ELSE IF pc[t] \in {"wait_next", "set_head_block", "set_head", "read"}
                            THEN message(loc[t].index) ELSE loc[t].msg],
  verdict <- [t \in Threads |-> IF pc[t] = "closed" THEN "closed"
                                ELSE IF pc[t] = "refused" THEN "empty" ELSE "none"]

\* The channel is an unbounded queue: every message is received once and in
\* order, or dropped when no receiver is left; a receiver is told that the
\* channel is empty or closed only if it is at that moment.
ImplementsChannel == Abstract!Spec
=============================================================================
