------------------------- MODULE ArrayChannelProofs -------------------------
(***************************************************************************)
(* Proofs about ArrayChannel for any finite sets of senders and receivers, *)
(* any capacity and any number of messages: a slot has one owner, the      *)
(* channel is freed when nobody is left inside and nothing left in it, and *)
(* it implements the queue of AbstractChannel.                             *)
(***************************************************************************)
EXTENDS ArrayChannel, MpmcProofs, FiniteSetTheorems

-----------------------------------------------------------------------------
(***************************************************************************)
(* Positions                                                               *)
(***************************************************************************)
Indices == 0 .. cap - 1

Pos == {l * one_lap + i : l \in Nat, i \in Indices}

LEMMA Sizes ==
  /\ cap \in Nat /\ mark_bit \in Nat /\ one_lap \in Nat /\ one_lap = mark_bit + mark_bit
  /\ 0 < cap /\ cap < mark_bit /\ 0 < one_lap /\ cap + 1 < one_lap
BY CapacityAssumption DEF one_lap

\* A number is given by its quotient and its remainder ...
LEMMA Division ==
  ASSUME NEW n \in Nat, NEW a \in Nat, NEW i \in 0 .. n - 1
  PROVE  (a * n + i) \div n = a /\ (a * n + i) % n = i
<1>1. 0 < n /\ i \in Nat /\ i < n
  OBVIOUS
<1>2. (a * n + i) \div n = a
  BY <1>1
<1>3. (a * n + i) % n = i
  BY <1>1
<1> QED
  BY <1>2, <1>3

\* ... which every number has, ...
LEMMA Quotient ==
  ASSUME NEW n \in Nat, 0 < n, NEW x \in Nat
  PROVE  \E a \in Nat, i \in 0 .. n - 1 : x = a * n + i
<1> DEFINE Q(y) == \E a \in Nat, i \in 0 .. n - 1 : y = a * n + i
           N == {y \in Nat : ~Q(y)}
<1>1. SUFFICES ASSUME N # {} PROVE FALSE
  OBVIOUS
<1>2. PICK y \in N : \A z \in N : y <= z
  <2>1. N \in SUBSET Nat
    OBVIOUS
  <2> HIDE DEF N
  <2>2. Min(N) \in N /\ \A z \in N : Min(N) <= z
    BY <1>1, <2>1, MinIsMember
  <2> QED
    BY <2>2
<1>3. y \in Nat /\ ~Q(y)
  OBVIOUS
<1>4. n <= y
  <2>1. ASSUME y < n PROVE FALSE
    <3>1. 0 \in Nat /\ y \in 0 .. n - 1 /\ y = 0 * n + y
      BY <1>3, <2>1
    <3> QED
      BY <1>3, <3>1
  <2> QED
    BY <1>3, <2>1
<1>5. y - n \in Nat /\ y - n < y
  BY <1>3, <1>4
<1>6. Q(y - n)
  <2>1. y - n \in N => y <= y - n
    BY <1>2
  <2> QED
    BY <1>3, <1>5, <2>1
<1>7. PICK a \in Nat, i \in 0 .. n - 1 : y - n = a * n + i
  BY <1>6
<1>8. a + 1 \in Nat /\ y = (a + 1) * n + i
  BY <1>3, <1>7
<1> QED
  BY <1>3, <1>8

\* ... and of two numbers the quotients come first.
LEMMA Quotients ==
  ASSUME NEW n \in Nat, NEW a \in Nat, NEW b \in Nat, NEW i \in 0 .. n - 1, NEW j \in 0 .. n - 1
  PROVE  /\ a < b => a * n + n <= b * n
         /\ a * n + i < b * n + j => a < b \/ (a = b /\ i < j)
<1>0. a * n \in Nat /\ b * n \in Nat
  OBVIOUS
<1>1. ASSUME NEW c \in Nat, NEW d \in Nat, c < d PROVE c * n + n <= d * n
  <2>1. PICK k \in Nat : d = c + 1 + k
    BY <1>1
  <2>2. d * n = c * n + n + k * n
    BY <2>1
  <2>3. k * n \in Nat
    OBVIOUS
  <2> QED
    BY <2>2, <2>3
<1>2. b < a => b * n + j < a * n + i
  BY <1>0, <1>1
<1>3. a = b \/ a < b \/ b < a
  OBVIOUS
<1> QED
  BY <1>0, <1>1, <1>2, <1>3

\* What a position is made of.
LEMMA Parts ==
  ASSUME NEW l \in Nat, NEW i \in Indices
  PROVE  LET p == l * one_lap + i
         IN  /\ p \in Pos /\ p \in Nat /\ index(p) = i /\ p \div one_lap = l
             /\ rank(p) = l * cap + i
             /\ advance(p) = IF i + 1 < cap THEN p + 1 ELSE (l + 1) * one_lap
<1> DEFINE p == l * one_lap + i
<1>1. p \in Pos /\ p \in Nat
  BY Sizes DEF Pos, Indices
<1>2. index(p) = i
  <2>1. p = (l + l) * mark_bit + i
    BY Sizes DEF Indices
  <2>2. l + l \in Nat /\ i \in 0 .. mark_bit - 1
    BY Sizes DEF Indices
  <2> QED
    BY <2>1, <2>2, Sizes, Division DEF index
<1>3. p \div one_lap = l
  <2>1. i \in 0 .. one_lap - 1
    BY Sizes DEF Indices
  <2> QED
    BY <2>1, Sizes, Division
<1>4. rank(p) = l * cap + i
  BY <1>2, <1>3 DEF rank
<1>5. (p - i) + one_lap = (l + 1) * one_lap
  BY Sizes DEF Indices
<1>6. advance(p) = IF i + 1 < cap THEN p + 1 ELSE (l + 1) * one_lap
  BY <1>2, <1>5 DEF advance
<1> QED
  BY <1>1, <1>2, <1>3, <1>4, <1>6

LEMMA PartsOf ==
  ASSUME NEW p \in Pos
  PROVE  \E l \in Nat, i \in Indices : p = l * one_lap + i
BY DEF Pos

\* The next position and the one a lap later.
LEMMA Positions ==
  ASSUME NEW p \in Pos
  PROVE  /\ p \in Nat /\ index(p) \in Indices
         /\ advance(p) \in Pos /\ p < advance(p)
         /\ p + one_lap \in Pos /\ index(p + one_lap) = index(p)
<1>1. PICK l \in Nat, i \in Indices : p = l * one_lap + i
  BY PartsOf
<1>2. p \in Nat /\ index(p) = i /\ advance(p) = IF i + 1 < cap THEN p + 1 ELSE (l + 1) * one_lap
  BY <1>1, Parts
<1>3. p + one_lap = (l + 1) * one_lap + i /\ l + 1 \in Nat
  BY <1>1, Sizes DEF Indices
<1>4. p + one_lap \in Pos /\ index(p + one_lap) = i
  BY <1>3, Parts
<1>5. advance(p) \in Pos /\ p < advance(p)
  <2>1. CASE i + 1 < cap
    <3>1. i + 1 \in Indices /\ p + 1 = l * one_lap + (i + 1)
      BY <1>1, <2>1, Sizes DEF Indices
    <3> QED
      BY <1>2, <2>1, <3>1, Parts
  <2>2. CASE ~(i + 1 < cap)
    <3>1. 0 \in Indices /\ (l + 1) * one_lap = (l + 1) * one_lap + 0
      BY Sizes DEF Indices
    <3>2. (l + 1) * one_lap \in Pos
      BY <1>3, <3>1, Parts
    <3>3. i < one_lap /\ i \in Nat
      BY Sizes DEF Indices
    <3>4. (l + 1) * one_lap = p + one_lap - i
      BY <1>1, <3>3, Sizes
    <3> QED
      BY <1>2, <2>2, <3>2, <3>3, <3>4, Sizes
  <2> QED
    BY <2>1, <2>2
<1> QED
  BY <1>2, <1>4, <1>5

\* There is no position between a position and the next one, and none of the
\* same slot within a lap.
LEMMA Order ==
  ASSUME NEW p \in Pos, NEW q \in Pos, p < q
  PROVE  advance(p) <= q /\ (index(p) = index(q) => p + one_lap <= q)
<1>1. PICK l \in Nat, i \in Indices : p = l * one_lap + i
  BY PartsOf
<1>2. PICK m \in Nat, j \in Indices : q = m * one_lap + j
  BY PartsOf
<1>3. /\ index(p) = i /\ advance(p) = IF i + 1 < cap THEN p + 1 ELSE (l + 1) * one_lap
      /\ index(q) = j /\ p \in Nat /\ q \in Nat
  BY <1>1, <1>2, Parts
<1>4. i \in 0 .. one_lap - 1 /\ j \in 0 .. one_lap - 1
  BY Sizes DEF Indices
<1>5. /\ l < m => l * one_lap + one_lap <= m * one_lap
      /\ l < m \/ (l = m /\ i < j)
  BY <1>1, <1>2, <1>4, Sizes, Quotients
<1>6. l * one_lap \in Nat /\ m * one_lap \in Nat /\ (l + 1) * one_lap = l * one_lap + one_lap
  BY Sizes
<1>7. CASE l < m
  BY <1>1, <1>2, <1>3, <1>4, <1>5, <1>6, <1>7, Sizes DEF Indices
<1>8. CASE l = m /\ i < j
  BY <1>1, <1>2, <1>3, <1>4, <1>6, <1>8, Sizes DEF Indices
<1> QED
  BY <1>5, <1>7, <1>8

LEMMA FirstLap ==
  ASSUME NEW i \in Indices
  PROVE  i \in Pos /\ index(i) = i /\ i < one_lap
<1>1. i = 0 * one_lap + i
  BY Sizes DEF Indices
<1>2. 0 * one_lap + i \in Pos /\ index(0 * one_lap + i) = i
  BY Parts
<1> QED
  BY <1>1, <1>2, Sizes DEF Indices

-----------------------------------------------------------------------------
(***************************************************************************)
(* The inductive invariant                                                 *)
(***************************************************************************)
Messages == Senders \X (1 .. MaxSends)

\* A thread is in the queue of its side, or has just been selected from it.
Asleep == {"recheck", "recheck2", "recheck3", "abort", "wait", "park", "unregister"}

\* The last thread of its side, from its release to the end.
LastPoints == {"disconnect_chan", "disconnect", "unpark_all", "discard", "destroy", "free"}

CommonPoints ==
  {"idle", "load_stamp", "load_head", "publish", "notify", "try_select", "unpark", "closed", "refused",
   "disconnect_chan", "disconnect", "unpark_all", "destroy", "free", "gone"} \cup Asleep

SenderPoints == CommonPoints \cup {"load_tail", "move_tail", "write"}

ReceiverPoints == CommonPoints \cup {"move_head", "check_empty", "read", "discard"}

TypeOK ==
  /\ pc \in [Threads -> SenderPoints \cup ReceiverPoints]
  /\ \A t \in Senders : pc[t] \in SenderPoints
  /\ \A t \in Receivers : pc[t] \in ReceiverPoints
  /\ handles \in [Queues -> Nat]
  /\ destroy \in BOOLEAN /\ freed \in BOOLEAN /\ mark \in BOOLEAN
  /\ select \in [Threads -> {"Waiting", "Operation", "Disconnected", "Aborted"}]
  /\ selectors \in [Queues -> Seq(Threads)]
  /\ is_empty \in [Queues -> BOOLEAN]
  /\ head \in Pos /\ tail \in Pos
  /\ stamp \in [Indices -> Nat]
  /\ slot \in [Indices -> Messages \cup {None}]
  /\ pos \in [Threads -> Pos]
  /\ msg \in [Threads -> Messages \cup {None}]
  /\ left \in [Senders -> 0 .. MaxSends]

\* The threads of side w that hold their handle.
Holders(w) == {t \in Threads : own(t) = w /\ pc[t] \notin LastPoints \cup {"gone"}}

\* The handles are counted, the last one of a side is released by one thread,
\* and a side without handles disconnects the channel.
HandleInv ==
  /\ \A w \in Queues : handles[w] = Cardinality(Holders(w))
  /\ \A t, u \in Threads :
       pc[t] \in LastPoints /\ own(t) = own(u) =>
         pc[u] \in LastPoints \cup {"gone"} /\ (pc[u] \in LastPoints => u = t)
  /\ \A w \in Queues :
       Holders(w) = {} => mark \/ \E t \in Threads : own(t) = w /\ pc[t] = "disconnect_chan"

\* The flag destroy is set by the first side that is done; the second one frees.
DestroyInv ==
  /\ \A t \in Threads : pc[t] \in LastPoints \ {"disconnect_chan"} => mark
  /\ destroy => mark /\ \E v \in Threads : \A u \in Threads : own(u) = own(v) => pc[u] = "gone"
  /\ \A t \in Threads : pc[t] = "free" => destroy /\ \A u \in Threads \ {t} : pc[u] = "gone"
  /\ freed => destroy /\ \A u \in Threads : pc[u] = "gone"

\* The entries of a queue are threads of its side, each once, that are asleep
\* and not selected; the flag tells whether there are any, unless somebody has
\* the lock.
QueueInv ==
  \A w \in Queues :
    /\ \A i \in 1 .. Len(selectors[w]) :
         LET u == selectors[w][i]
         IN  own(u) = w /\ select[u] # "Operation" /\ pc[u] \in Asleep
    /\ Distinct(selectors[w])
    /\ ~Locked(w) => (is_empty[w] <=> selectors[w] = << >>)

\* A context is reset outside of wait_until.
ContextInv ==
  \A t \in Threads :
    /\ pc[t] = "unregister" => select[t] \in {"Aborted", "Disconnected"}
    /\ pc[t] \notin Asleep => select[t] = "Waiting"

\* The slot of q waits for the message of q; it has it.
Free(q) == stamp[index(q)] = q

Full(q) == stamp[index(q)] = q + 1

\* Thread t has moved the tail or the head past its position, and has not
\* handed over the slot yet.
Claimer(t) == pc[t] \in {"write", "read", "publish"}

\* The tail is at most a lap ahead of the head.  A slot is free for a position
\* of the current lap, or full with one that the tail has passed; if the other
\* side has passed it too, somebody is still at it.
RingInv ==
  /\ head <= first /\ first <= tail /\ tail <= head + one_lap
  /\ \A i \in Indices : \E q \in Pos : index(q) = i /\ (Free(q) \/ Full(q))
  /\ \A q \in Pos :
       /\ Free(q) => /\ q < head + one_lap
                     /\ q < tail => \E t \in Senders : Claimer(t) /\ pos[t] = q
       /\ Full(q) => /\ q < tail /\ tail <= q + one_lap
                     /\ q < head => \E t \in Receivers : Claimer(t) /\ pos[t] = q

\* The slot of a claimed position is as its claimer expects it, and nobody
\* else has claimed it.
ClaimInv ==
  /\ \A t \in Senders : Claimer(t) => first <= pos[t] /\ pos[t] < tail /\ Free(pos[t])
  /\ \A t \in Receivers : Claimer(t) => pos[t] < head /\ Full(pos[t])
  /\ \A t, u \in Threads : Claimer(t) /\ Claimer(u) /\ pos[t] = pos[u] => t = u

\* A local copy of a position is never ahead of it, and a stamp that was found
\* to fit is never behind it; who has a message in hand.
LocalInv ==
  /\ \A t \in Senders :
       /\ pc[t] \in {"load_stamp", "move_tail", "load_head"} => pos[t] <= tail
       /\ pc[t] = "move_tail" => pos[t] <= stamp[index(pos[t])]
       /\ pc[t] \in {"load_tail", "load_stamp", "move_tail", "load_head", "write", "refused"} \cup Asleep
            => msg[t] # None
  /\ \A t \in Receivers :
       /\ pc[t] \in {"load_stamp", "move_head", "check_empty"} => pos[t] <= head
       /\ pc[t] = "move_head" => pos[t] + 1 <= stamp[index(pos[t])]
       /\ pc[t] # "publish" => msg[t] = None

\* A free slot has a message only between the write and the stamp, a full one
\* until it is read or discarded.
SlotInv ==
  \A q \in Pos :
    /\ Free(q) => (slot[index(q)] # None <=> \E t \in Senders : pc[t] = "publish" /\ pos[t] = q)
    /\ Full(q) => (slot[index(q)] # None <=>
                     first <= q \/ \E t \in Receivers : pc[t] = "read" /\ pos[t] = q)

IInv ==
  /\ TypeOK /\ HandleInv /\ DestroyInv /\ QueueInv /\ ContextInv
  /\ RingInv /\ ClaimInv /\ LocalInv /\ SlotInv

LEMMA InitInv == Init => IInv
<1> SUFFICES ASSUME Init PROVE IInv
  OBVIOUS
<1> USE DEF Init, SyncWakerInit, MpmcInit
<1>0. 0 \in Pos /\ 0 \in Indices /\ index(0) = 0
  BY Sizes, FirstLap DEF Indices
<1>1. Cardinality(Senders) \in Nat /\ Cardinality(Receivers) \in Nat
  BY SidesAssumption, FS_CardinalityType
<1>2. TypeOK
  <2>1. pc \in [Threads -> SenderPoints \cup ReceiverPoints] /\ \A t \in Threads : pc[t] = "idle"
    BY DEF CommonPoints, SenderPoints
  <2>2. handles \in [Queues -> Nat]
    BY <1>1 DEF Queues
  <2>3. selectors \in [Queues -> Seq(Threads)]
    BY DEF Queues
  <2>4. is_empty \in [Queues -> BOOLEAN]
    BY DEF Queues
  <2>5. stamp \in [Indices -> Nat] /\ slot \in [Indices -> Messages \cup {None}]
    BY DEF Indices
  <2>6. left \in [Senders -> 0 .. MaxSends]
    BY CapacityAssumption
  <2>7. pc \in [Threads -> CommonPoints]
    BY DEF CommonPoints
  <2> QED
    BY <1>0, <2>1, <2>2, <2>3, <2>4, <2>5, <2>6, <2>7 DEF TypeOK, Threads, SenderPoints, ReceiverPoints
<1>3. Holders("senders") = Senders /\ Holders("receivers") = Receivers
  <2>1. \A t \in Threads : pc[t] \notin LastPoints \cup {"gone"}
    BY DEF LastPoints
  <2> QED
    BY <2>1, SidesAssumption DEF Holders, own, Threads
<1>4. HandleInv
  BY <1>3, SidesAssumption DEF HandleInv, Queues, LastPoints
<1>5. DestroyInv
  BY DEF DestroyInv, LastPoints
<1>6. QueueInv
  BY DEF QueueInv, Queues, Distinct
<1>7. ContextInv
  BY DEF ContextInv, Asleep
<1>8. first = 0
  BY DEF first
<1>b. \A i \in Indices : stamp[i] = i /\ slot[i] = None
  BY DEF Indices
<1> HIDE DEF Init, SyncWakerInit, MpmcInit
<1>9. \A q \in Pos : q \in Nat /\ index(q) \in Indices /\ stamp[index(q)] = index(q)
  BY <1>b, Positions
<1>10. ASSUME NEW q \in Pos PROVE ~Full(q) /\ (Free(q) => q < one_lap)
  <2>1. index(q) \in Pos /\ index(index(q)) = index(q) /\ index(q) < one_lap
    BY <1>9, FirstLap
  <2>2. q < index(q) => q + one_lap <= index(q)
    BY <2>1, Order
  <2>3. index(q) <= q
    BY <1>9, <2>1, <2>2, Sizes DEF Indices
  <2>4. stamp[index(q)] = index(q) /\ q \in Nat /\ index(q) \in Nat
    BY <1>9 DEF Indices
  <2> QED
    BY <2>1, <2>3, <2>4, Sizes DEF Free, Full
<1>11. RingInv
  <2>1. ASSUME NEW i \in Indices PROVE i \in Pos /\ index(i) = i /\ Free(i)
    BY <1>b, FirstLap DEF Free
  <2>2. \A i \in Indices : \E q \in Pos : index(q) = i /\ (Free(q) \/ Full(q))
    BY <2>1
  <2>3. \A q \in Pos : ~(q < 0)
    BY <1>9
  <2>4. head = 0 /\ tail = 0 /\ 0 <= 0 /\ 0 <= 0 + one_lap /\ 0 + one_lap = one_lap
    BY Sizes DEF Init
  <2> QED
    BY <1>8, <1>10, <2>2, <2>3, <2>4 DEF RingInv
<1>12. ClaimInv
  BY DEF Init, SyncWakerInit, MpmcInit, ClaimInv, Claimer, Threads
<1>13. LocalInv
  BY DEF Init, SyncWakerInit, MpmcInit, LocalInv, Threads, Asleep
<1>14. SlotInv
  <2>1. \A t \in Senders : pc[t] = "idle"
    BY DEF Init, SyncWakerInit, MpmcInit, Threads
  <2> QED
    BY <1>b, <1>9, <1>10, <2>1 DEF SlotInv
<1> QED
  BY <1>2, <1>4, <1>5, <1>6, <1>7, <1>11, <1>12, <1>13, <1>14 DEF IInv

-----------------------------------------------------------------------------
(***************************************************************************)
(* What a step does to the handles                                         *)
(***************************************************************************)
Inside(t) == pc[t] \notin LastPoints \cup {"gone"}

\* Thread t goes on with its call, ...
GoesOn(t, to) ==
  /\ Inside(t) /\ to \notin LastPoints \cup {"gone"}
  /\ UNCHANGED <<handles, destroy, freed, mark>>

\* ... with the disconnection, ...
Disconnects(t, to) ==
  /\ pc[t] \in LastPoints \ {"destroy", "free"} /\ to \in LastPoints \ {"disconnect_chan", "free"}
  /\ IF pc[t] = "disconnect_chan" THEN mark' = TRUE ELSE mark' = mark
  /\ UNCHANGED <<handles, destroy, freed>>

\* ... or releases its handle or the channel.
Moves(t, to) ==
  /\ pc' = [pc EXCEPT ![t] = to]
  /\ pc[t] # "gone"
  /\ t \in Senders => pc[t] \in SenderPoints /\ to \in SenderPoints
  /\ t \in Receivers => pc[t] \in ReceiverPoints /\ to \in ReceiverPoints
  /\ GoesOn(t, to) \/ Disconnects(t, to) \/ (release(t) /\ UNCHANGED mark)
     \/ (release_destroy(t) /\ UNCHANGED mark) \/ (free_channel(t) /\ UNCHANGED mark)

LEMMA StepMoves ==
  ASSUME TypeOK, NEW t \in Threads, Step(t) \/ expire(t)
  PROVE  \E to : Moves(t, to)
<1>0. /\ t \in Senders => pc[t] \in SenderPoints
      /\ t \in Receivers => pc[t] \in ReceiverPoints
      /\ t \in Senders \/ t \in Receivers
      /\ mark \in BOOLEAN
  BY DEF TypeOK, Threads
<1>s. ~(t \in Senders /\ t \in Receivers)
  BY SidesAssumption
<1> USE DEF Moves, GoesOn, Disconnects, Inside, LastPoints, SenderPoints, ReceiverPoints, CommonPoints, Asleep, Goto,
            counter, chan
<1>1. CASE send(t) \/ load_tail(t) \/ inspect_stamp(t)
  BY <1>0, <1>1, <1>s DEF send, load_tail, LoadTail, inspect_stamp
<1>2. CASE move_tail(t)
  BY <1>0, <1>2 DEF move_tail, LoadTail
<1>3. CASE check_full(t) \/ write_msg(t) \/ publish(t)
  BY <1>0, <1>3, <1>s DEF check_full, write_msg, publish
<1>4. CASE recv(t) \/ load_head(t) \/ inspect_stamp_recv(t)
  BY <1>0, <1>4, <1>s DEF recv, load_head, LoadHead, inspect_stamp_recv
<1>5. CASE move_head(t) \/ check_empty(t) \/ read_msg(t)
  BY <1>0, <1>5, <1>s DEF move_head, LoadHead, check_empty, read_msg
<1>6. CASE return(t) \/ look_again(t)
  BY <1>0, <1>6, <1>s DEF return, look_again
<1>7. CASE block(t)
  BY <1>0, <1>7, <1>s DEF block, register, wait_until, abort, wait_load, Return, park, unregister, again
<1>8. CASE notify(t)
  BY <1>0, <1>8 DEF notify, notify_one, notify_load, notify_select, unpark
<1>9. CASE expire(t)
  BY <1>0, <1>9, <1>s DEF expire, timeout, Return, again
<1>10. CASE drop_handle(t)
  BY <1>0, <1>10 DEF drop_handle, release
<1>11. CASE disconnect(t)
  <2>1. \/ Goto(t, "disconnect_chan", IF mark THEN AfterDisconnect(t) ELSE "disconnect") /\ mark' = TRUE
        \/ Goto(t, "disconnect", "unpark_all") /\ mark' = mark
        \/ Goto(t, "unpark_all", AfterDisconnect(t)) /\ mark' = mark
    BY <1>11 DEF disconnect, disconnect_select, unpark
  <2>2. UNCHANGED <<handles, destroy, freed>>
    BY <1>11 DEF disconnect
  <2> QED
    BY <1>0, <1>s, <2>1, <2>2 DEF AfterDisconnect
<1>12. CASE discard_all_messages(t)
  BY <1>0, <1>12, <1>s DEF discard_all_messages
<1>13. CASE destroy_channel(t)
  BY <1>0, <1>13 DEF destroy_channel, release_destroy, free_channel
<1> QED
  BY <1>1, <1>2, <1>3, <1>4, <1>5, <1>6, <1>7, <1>8, <1>9, <1>10, <1>11, <1>12, <1>13 DEF Step

LEMMA HoldersAre ==
  ASSUME NEW w
  PROVE  /\ IsFiniteSet(Holders(w)) /\ Cardinality(Holders(w)) \in Nat
         /\ Cardinality(Holders(w)) = 0 <=> Holders(w) = {}
<1>1. IsFiniteSet(Threads)
  BY SidesAssumption, FS_Union DEF Threads
<1>2. IsFiniteSet(Holders(w))
  BY <1>1, FS_Subset DEF Holders
<1> QED
  BY <1>2, FS_CardinalityType, FS_EmptySet

LEMMA HandleStep ==
  ASSUME IInv, NEW t \in Threads, NEW to, Moves(t, to)
  PROVE  HandleInv'
<1>0. /\ pc \in [Threads -> SenderPoints \cup ReceiverPoints] /\ handles \in [Queues -> Nat] /\ HandleInv
      /\ pc' = [pc EXCEPT ![t] = to] /\ pc[t] # "gone"
      /\ own(t) \in Queues
  BY Sides DEF IInv, TypeOK, Moves
<1>a. \A u \in Threads : pc'[u] = IF u = t THEN to ELSE pc[u]
  BY <1>0
<1>1. CASE ~release(t)
  <2>1. to \in LastPoints \cup {"gone"} <=> ~Inside(t)
    <3>1. CASE GoesOn(t, to) \/ Disconnects(t, to)
      BY <3>1 DEF GoesOn, Disconnects, Inside, LastPoints
    <3>2. CASE release_destroy(t) \/ free_channel(t)
      <4>1. pc'[t] = to /\ pc'[t] \in {"free", "gone"} /\ pc[t] \in {"destroy", "free"}
        BY <1>0, <1>a, <3>2 DEF release_destroy, free_channel, Goto
      <4> QED
        BY <4>1 DEF Inside, LastPoints
    <3> QED
      BY <1>1, <3>1, <3>2 DEF Moves
  <2>2. to \in LastPoints => pc[t] \in LastPoints
    BY <2>1, <1>0 DEF Inside, LastPoints
  <2>3. \A w \in Queues : Holders(w)' = Holders(w)
    BY <1>a, <2>1 DEF Holders, Inside
  <2>4. handles' = handles
    BY <1>1 DEF Moves, GoesOn, Disconnects, release_destroy, free_channel
  <2>5. \A w \in Queues : handles'[w] = Cardinality(Holders(w)')
    BY <1>0, <2>3, <2>4 DEF HandleInv
  <2>6. ASSUME NEW v \in Threads, NEW u \in Threads, pc'[v] \in LastPoints, own(v) = own(u)
        PROVE  pc'[u] \in LastPoints \cup {"gone"} /\ (pc'[u] \in LastPoints => u = v)
    <3>1. pc[v] \in LastPoints /\ (pc'[u] \in LastPoints => pc[u] \in LastPoints)
      BY <1>a, <2>2, <2>6
    <3>2. pc[u] \in LastPoints \cup {"gone"} /\ (pc[u] \in LastPoints => u = v)
      BY <1>0, <2>6, <3>1 DEF HandleInv
    <3> QED
      BY <1>a, <2>1, <3>1, <3>2 DEF Inside
  <2>7. ASSUME NEW w \in Queues, Holders(w)' = {}
        PROVE  mark' \/ \E u \in Threads : own(u) = w /\ pc'[u] = "disconnect_chan"
    <3>1. mark => mark'
      BY <1>1 DEF Moves, GoesOn, Disconnects
    <3>2. CASE mark
      BY <3>1, <3>2
    <3>3. CASE ~mark
      <4>1. PICK u \in Threads : own(u) = w /\ pc[u] = "disconnect_chan"
        BY <1>0, <2>3, <2>7, <3>3 DEF HandleInv
      <4>2. CASE u = t
        BY <4>1, <4>2, <1>1 DEF Moves, GoesOn, Disconnects, Inside, LastPoints, release_destroy, free_channel, Goto
      <4>3. CASE u # t
        BY <1>a, <4>1, <4>3
      <4> QED
        BY <4>2, <4>3
    <3> QED
      BY <3>2, <3>3
  <2> QED
    BY <2>5, <2>6, <2>7 DEF HandleInv
<1>2. CASE release(t)
  <2> DEFINE w == own(t)
  <2>1. /\ pc[t] = "idle" /\ to = IF handles[w] = 1 THEN "disconnect_chan" ELSE "gone"
        /\ handles' = [handles EXCEPT ![w] = @ - 1]
    <3>1. pc[t] = "idle" /\ pc' = [pc EXCEPT ![t] = IF handles[w] = 1 THEN "disconnect_chan" ELSE "gone"]
      BY <1>2 DEF release, Goto
    <3>2. pc'[t] = IF handles[w] = 1 THEN "disconnect_chan" ELSE "gone"
      BY <1>0, <3>1
    <3> QED
      BY <1>2, <1>a, <3>1, <3>2 DEF release
  <2>m. mark' = mark
    BY <1>2, <2>1 DEF Moves, GoesOn, Disconnects, release_destroy, free_channel, Goto, LastPoints
  <2>2. \A u \in Threads : pc[u] \in LastPoints => own(u) # w
    BY <1>0, <2>1 DEF HandleInv, LastPoints
  <2>3. t \in Holders(w) /\ Holders(w)' = Holders(w) \ {t}
    BY <1>a, <2>1 DEF Holders, LastPoints
  <2>4. \A v \in Queues : v # w => Holders(v)' = Holders(v)
    BY <1>a DEF Holders
  <2>5. Cardinality(Holders(w)) \in Nat /\ Cardinality(Holders(w)') = Cardinality(Holders(w)) - 1
    BY <2>3, HoldersAre, FS_RemoveElement
  <2>6. \A v \in Queues : handles'[v] = Cardinality(Holders(v)')
    <3>1. handles[w] = Cardinality(Holders(w)) /\ handles'[w] = handles[w] - 1
      BY <1>0, <2>1 DEF HandleInv
    <3>2. \A v \in Queues : v # w => handles'[v] = handles[v] /\ handles[v] = Cardinality(Holders(v))
      BY <1>0, <2>1 DEF HandleInv
    <3> QED
      BY <2>4, <2>5, <3>1, <3>2
  <2>e. to = "disconnect_chan" <=> Holders(w)' = {}
    <3>1. Cardinality(Holders(w)') = 0 <=> Holders(w)' = {}
      BY HoldersAre, <2>3, FS_RemoveElement, FS_EmptySet
    <3>2. handles[w] = Cardinality(Holders(w))
      BY <1>0 DEF HandleInv
    <3> QED
      BY <2>1, <2>5, <3>1, <3>2
  <2>7. ASSUME NEW v \in Threads, NEW u \in Threads, pc'[v] \in LastPoints, own(v) = own(u)
        PROVE  pc'[u] \in LastPoints \cup {"gone"} /\ (pc'[u] \in LastPoints => u = v)
    <3>1. CASE v = t
      <4>1. to = "disconnect_chan" /\ Holders(w)' = {}
        BY <1>a, <2>1, <2>7, <2>e, <3>1 DEF LastPoints
      <4>2. pc'[u] \in LastPoints \cup {"gone"}
        BY <2>7, <3>1, <4>1 DEF Holders
      <4> QED
        BY <1>a, <2>2, <2>7, <3>1, <4>2
    <3>2. CASE v # t
      <4>1. pc[v] \in LastPoints /\ own(v) # w
        BY <1>a, <2>2, <2>7, <3>2
      <4> QED
        BY <1>0, <1>a, <2>7, <4>1 DEF HandleInv
    <3> QED
      BY <3>1, <3>2
  <2>8. ASSUME NEW v \in Queues, Holders(v)' = {}
        PROVE  mark' \/ \E u \in Threads : own(u) = v /\ pc'[u] = "disconnect_chan"
    <3>1. CASE v = w
      BY <1>a, <2>8, <2>e, <3>1
    <3>2. CASE v # w
      <4>1. mark \/ \E u \in Threads : own(u) = v /\ pc[u] = "disconnect_chan"
        BY <1>0, <2>4, <2>8, <3>2 DEF HandleInv
      <4> QED
        BY <1>a, <2>m, <3>2, <4>1
    <3> QED
      BY <3>1, <3>2
  <2> QED
    BY <2>6, <2>7, <2>8 DEF HandleInv
<1> QED
  BY <1>1, <1>2

LEMMA DestroyStep ==
  ASSUME IInv, NEW t \in Threads, NEW to, Moves(t, to)
  PROVE  DestroyInv'
<1>0. /\ pc \in [Threads -> SenderPoints \cup ReceiverPoints] /\ HandleInv /\ DestroyInv
      /\ pc' = [pc EXCEPT ![t] = to] /\ pc[t] # "gone"
  BY DEF IInv, TypeOK, Moves
<1>a. \A u \in Threads : pc'[u] = IF u = t THEN to ELSE pc[u]
  BY <1>0
\* The channel is not freed yet, and t is the only one left if it is to be freed.
<1>b. ~freed /\ (\A u \in Threads : pc[u] = "free" => u = t)
  BY <1>0 DEF DestroyInv
<1>c. destroy => \E v \in Threads : own(v) # own(t) /\ \A u \in Threads : own(u) = own(v) => pc[u] = "gone"
  BY <1>0 DEF DestroyInv
<1>1. CASE GoesOn(t, to) \/ Disconnects(t, to) \/ (release(t) /\ UNCHANGED mark)
  <2>1. UNCHANGED <<destroy, freed>> /\ pc[t] # "free" /\ to # "free" /\ (mark => mark')
    <3>1. CASE GoesOn(t, to) \/ Disconnects(t, to)
      BY <3>1 DEF GoesOn, Disconnects, LastPoints, Inside
    <3>2. CASE release(t) /\ UNCHANGED mark
      <4>1. pc'[t] = to /\ pc'[t] \in {"disconnect_chan", "gone"} /\ pc[t] = "idle"
        BY <1>0, <1>a, <3>2 DEF release, Goto
      <4> QED
        BY <3>2, <4>1 DEF release
    <3> QED
      BY <1>1, <3>1, <3>2
  <2>2. to \in LastPoints \ {"disconnect_chan"} => mark'
    <3>1. CASE GoesOn(t, to)
      BY <3>1 DEF GoesOn
    <3>2. CASE Disconnects(t, to)
      BY <1>0, <3>2 DEF Disconnects, DestroyInv, LastPoints
    <3>3. CASE release(t) /\ UNCHANGED mark
      <4>1. pc'[t] = to /\ pc'[t] \in {"disconnect_chan", "gone"}
        BY <1>0, <1>a, <3>3 DEF release, Goto
      <4> QED
        BY <4>1 DEF LastPoints
    <3> QED
      BY <1>1, <3>1, <3>2, <3>3
  <2>3. \A u \in Threads : pc'[u] \in LastPoints \ {"disconnect_chan"} => mark'
    BY <1>0, <1>a, <2>1, <2>2 DEF DestroyInv
  <2>4. \A u \in Threads : pc'[u] # "free"
    BY <1>a, <1>b, <2>1
  <2>5. destroy' => mark' /\ \E v \in Threads : \A u \in Threads : own(u) = own(v) => pc'[u] = "gone"
    BY <1>0, <1>a, <1>c, <2>1 DEF DestroyInv
  <2> QED
    BY <1>b, <2>1, <2>3, <2>4, <2>5 DEF DestroyInv
<1>2. CASE release_destroy(t) /\ UNCHANGED mark
  <2>1. /\ pc[t] = "destroy" /\ to = IF destroy THEN "free" ELSE "gone"
        /\ destroy' = TRUE /\ freed' = freed /\ mark
    <3>1. pc[t] = "destroy" /\ pc'[t] = IF destroy THEN "free" ELSE "gone"
      BY <1>0, <1>2 DEF release_destroy, Goto
    <3> QED
      BY <1>0, <1>2, <1>a, <3>1 DEF release_destroy, DestroyInv, LastPoints
  <2>2. \A u \in Threads : own(u) = own(t) /\ u # t => pc[u] = "gone"
    BY <1>0, <2>1 DEF HandleInv, LastPoints
  <2>3. \A u \in Threads : own(u) = own(t) /\ u # t => pc'[u] = "gone"
    BY <1>a, <2>2
  <2>4. \A u \in Threads : pc'[u] \in LastPoints \ {"disconnect_chan"} => mark'
    BY <1>2, <2>1
  <2>5. CASE destroy
    <3>1. PICK v \in Threads : own(v) # own(t) /\ \A u \in Threads : own(u) = own(v) => pc[u] = "gone"
      BY <1>c, <2>5
    <3>2. \A u \in Threads : own(u) = own(t) \/ own(u) = own(v)
      BY <3>1 DEF own
    <3>3. \A u \in Threads : own(u) = own(v) => pc'[u] = "gone"
      BY <1>a, <3>1
    <3>4. \A u \in Threads \ {t} : pc'[u] = "gone"
      BY <2>3, <3>2, <3>3
    <3> QED
      BY <1>2, <1>b, <2>1, <2>4, <3>3, <3>4 DEF DestroyInv
  <2>6. CASE ~destroy
    <3>1. \A u \in Threads : own(u) = own(t) => pc'[u] = "gone"
      BY <1>a, <2>1, <2>3, <2>6
    <3>2. \A u \in Threads : pc'[u] # "free"
      BY <1>a, <1>b, <2>1, <2>6
    <3> QED
      BY <1>2, <1>b, <2>1, <2>4, <3>1, <3>2 DEF DestroyInv
  <2> QED
    BY <2>5, <2>6
<1>3. CASE free_channel(t) /\ UNCHANGED mark
  <2>1. pc[t] = "free" /\ to = "gone" /\ freed' = TRUE /\ destroy' = destroy
    <3>1. pc[t] = "free" /\ pc'[t] = "gone"
      BY <1>0, <1>3 DEF free_channel, Goto
    <3> QED
      BY <1>3, <1>a, <3>1 DEF free_channel
  <2>2. destroy /\ mark /\ \A u \in Threads : pc'[u] = "gone"
    BY <1>0, <1>a, <2>1 DEF DestroyInv, LastPoints
  <2> QED
    BY <1>3, <2>1, <2>2 DEF DestroyInv, LastPoints
<1> QED
  BY <1>1, <1>2, <1>3 DEF Moves

-----------------------------------------------------------------------------
(***************************************************************************)
(* What a step does to the queues                                          *)
(***************************************************************************)
LockPoints == {"unpark", "unpark_all"}

\* Nobody enters or leaves a queue or takes the lock; a thread that is in a
\* queue stays asleep, unless it has been selected.
Dozes(t, to) ==
  /\ pc' = [pc EXCEPT ![t] = to]
  /\ pc[t] \notin LockPoints /\ to \notin LockPoints
  /\ UNCHANGED <<selectors, is_empty>>
  /\ \E s \in {"Waiting", "Operation", "Disconnected", "Aborted"} : 
       /\ select' = [select EXCEPT ![t] = s]
       /\ pc[t] \in Asleep /\ select[t] # "Operation" => to \in Asleep /\ s # "Operation"
       /\ to = "unregister" => s \in {"Aborted", "Disconnected"}
       /\ to \notin Asleep => s = "Waiting"

\* The steps that do otherwise.
Registers(t) == register(t, "refused", "recheck")

Unregisters(t) == unregister(t, again(t))

Selects(t) == Selectable(t, peer(t)) # 0 /\ notify_select(t, "idle")

Unparks(t) == unpark(t, "unpark", "idle") \/ unpark(t, "unpark_all", AfterDisconnect(t))

LEMMA StepDozes ==
  ASSUME IInv, NEW t \in Threads, Step(t) \/ expire(t)
  PROVE  \/ \E to : Dozes(t, to)
         \/ Registers(t) \/ Unregisters(t) \/ Selects(t) \/ disconnect_select(t) \/ Unparks(t)
<1>0. /\ pc[t] \notin Asleep => select[t] = "Waiting"
      /\ pc[t] = "unregister" => select[t] \in {"Aborted", "Disconnected"}
      /\ select \in [Threads -> {"Waiting", "Operation", "Disconnected", "Aborted"}]
  BY DEF IInv, ContextInv, TypeOK
<1>a. select = [select EXCEPT ![t] = select[t]] /\ select[t] \in {"Waiting", "Operation", "Disconnected", "Aborted"}
  BY <1>0
\* Steps outside of wait_until.
<1>b. ASSUME NEW to, pc' = [pc EXCEPT ![t] = to], UNCHANGED <<select, selectors, is_empty>>,
             pc[t] \notin LockPoints, to \notin LockPoints, to # "unregister", pc[t] \in Asleep <=> to \in Asleep
      PROVE  Dozes(t, to)
  <2>1. /\ select' = [select EXCEPT ![t] = select[t]]
        /\ to \notin Asleep => select[t] = "Waiting"
    BY <1>0, <1>a, <1>b
  <2> QED
    BY <1>a, <1>b, <2>1 DEF Dozes
\* Steps inside.
<1>c. ASSUME pc[t] \in {"wait", "park"}, UNCHANGED <<selectors, is_empty>>, NEW s,
             \/ s = select[t] \/ s = "Aborted",
             Return(t, pc[t], s, again(t)), s # "Waiting", select[t] = "Operation" => s = "Operation"
      PROVE  \E to : Dozes(t, to)
  <2>1. CASE s = "Operation"
    <3>1. pc' = [pc EXCEPT ![t] = again(t)] /\ select' = [select EXCEPT ![t] = "Waiting"] /\ select[t] = "Operation"
      BY <1>c, <2>1 DEF Return, Goto, Decided
    <3>2. again(t) \notin LockPoints \cup Asleep
      BY DEF again, LockPoints, Asleep
    <3> QED
      BY <1>c, <3>1, <3>2 DEF Dozes, LockPoints, Asleep
  <2>2. CASE s # "Operation"
    <3>1. pc' = [pc EXCEPT ![t] = "unregister"] /\ select' = [select EXCEPT ![t] = s]
      BY <1>c, <2>2 DEF Return, Goto, Decided
    <3>2. s \in {"Aborted", "Disconnected"}
      BY <1>a, <1>c, <2>2
    <3> QED
      BY <1>c, <3>1, <3>2 DEF Dozes, LockPoints, Asleep
  <2> QED
    BY <2>1, <2>2
<1>1. CASE \/ send(t) \/ load_tail(t) \/ inspect_stamp(t) \/ move_tail(t)
           \/ check_full(t) \/ write_msg(t) \/ publish(t)
  <2>1. UNCHANGED <<select, selectors, is_empty>>
    BY <1>1 DEF send, load_tail, LoadTail, inspect_stamp, move_tail, check_full, write_msg, publish, context, wakers
  <2>2. \E to : /\ pc' = [pc EXCEPT ![t] = to] /\ pc[t] \notin LockPoints \cup Asleep
                /\ to \notin LockPoints \cup Asleep
    BY <1>1 DEF send, load_tail, LoadTail, inspect_stamp, move_tail, check_full, write_msg, publish, Goto, LockPoints, Asleep
  <2> QED
    BY <1>b, <2>1, <2>2 DEF Asleep
<1>2. CASE recv(t) \/ load_head(t) \/ inspect_stamp_recv(t) \/ move_head(t) \/ check_empty(t) \/ read_msg(t) \/ return(t)
  <2>1. UNCHANGED <<select, selectors, is_empty>>
    BY <1>2 DEF recv, load_head, LoadHead, inspect_stamp_recv, move_head, check_empty, read_msg, return, context, wakers
  <2>2. \E to : /\ pc' = [pc EXCEPT ![t] = to] /\ pc[t] \notin LockPoints \cup Asleep
                /\ to \notin LockPoints \cup Asleep
    BY <1>2 DEF recv, load_head, LoadHead, inspect_stamp_recv, move_head, check_empty, read_msg, return, Goto,
                LockPoints, Asleep
  <2> QED
    BY <1>b, <2>1, <2>2 DEF Asleep
<1>3. CASE drop_handle(t) \/ discard_all_messages(t) \/ destroy_channel(t)
  <2>1. UNCHANGED <<select, selectors, is_empty>>
    BY <1>3 DEF drop_handle, discard_all_messages, destroy_channel, context, wakers
  <2>2. \E to : /\ pc' = [pc EXCEPT ![t] = to] /\ pc[t] \notin LockPoints \cup Asleep
                /\ to \notin LockPoints \cup Asleep
    BY <1>3 DEF drop_handle, release, discard_all_messages, destroy_channel, release_destroy, free_channel, Goto,
                LockPoints, Asleep
  <2> QED
    BY <1>b, <2>1, <2>2 DEF Asleep
<1>4. CASE look_again(t)
  <2>1. UNCHANGED <<select, selectors, is_empty>>
    BY <1>4 DEF look_again, context, wakers
  <2>2. \E to : /\ pc' = [pc EXCEPT ![t] = to] /\ pc[t] \in Asleep \ {"unregister"} /\ to \in Asleep \ {"unregister"}
    BY <1>4 DEF look_again, Goto, Asleep
  <2> QED
    BY <1>b, <2>1, <2>2 DEF Asleep, LockPoints
<1>5. CASE block(t)
  <2>1. CASE abort(t)
    <3>1. /\ pc[t] = "abort" /\ pc' = [pc EXCEPT ![t] = "wait"] /\ UNCHANGED <<selectors, is_empty>>
          /\ select' = [select EXCEPT ![t] = Abort(t)]
      BY <2>1 DEF abort, Goto, Decided, wakers
    <3>2. /\ Abort(t) \in {"Waiting", "Operation", "Disconnected", "Aborted"}
          /\ select[t] # "Operation" => Abort(t) # "Operation"
      BY <1>0 DEF Abort
    <3> QED
      BY <3>1, <3>2 DEF Dozes, LockPoints, Asleep
  <2>2. CASE wait_load(t, again(t)) /\ UNCHANGED wakers
    <3>1. CASE select[t] = "Waiting"
      BY <1>b, <2>2, <3>1 DEF wait_load, Goto, wakers, LockPoints, Asleep
    <3>2. CASE select[t] # "Waiting"
      <4>1. Return(t, "wait", select[t], again(t)) /\ UNCHANGED <<selectors, is_empty>>
        BY <2>2, <3>2 DEF wait_load, wakers
      <4>2. pc[t] = "wait"
        BY <4>1 DEF Return, Goto
      <4> QED
        BY <1>c, <3>2, <4>1, <4>2
    <3> QED
      BY <3>1, <3>2
  <2>3. CASE park(t) /\ UNCHANGED wakers
    <3>1. \E to : /\ pc' = [pc EXCEPT ![t] = to] /\ pc[t] \in Asleep \ LockPoints
                  /\ to \in Asleep \ (LockPoints \cup {"unregister"}) /\ UNCHANGED <<select, selectors, is_empty>>
      BY <2>3 DEF park, Goto, wakers, LockPoints, Asleep
    <3> QED
      BY <1>b, <3>1
  <2> QED
    BY <1>5, <2>1, <2>2, <2>3 DEF block, wait_until, Registers, Unregisters
<1>6. CASE expire(t)
  <2>1. /\ Return(t, "park", Abort(t), again(t)) /\ UNCHANGED <<selectors, is_empty>>
        /\ Abort(t) = select[t] \/ Abort(t) = "Aborted"
        /\ Abort(t) # "Waiting" /\ (select[t] = "Operation" => Abort(t) = "Operation")
    BY <1>6 DEF expire, timeout, wakers, Abort
  <2>2. pc[t] = "park"
    BY <2>1 DEF Return, Goto
  <2> QED
    BY <1>c, <2>1, <2>2
<1>7. CASE notify(t)
  <2>1. CASE notify_load(t, "idle")
    <3>1. \E to : /\ pc' = [pc EXCEPT ![t] = to] /\ pc[t] \notin LockPoints \cup Asleep
                  /\ to \notin LockPoints \cup Asleep /\ UNCHANGED <<select, selectors, is_empty>>
      BY <2>1 DEF notify_load, Goto, context, wakers, LockPoints, Asleep
    <3> QED
      BY <1>b, <3>1 DEF Asleep
  <2>2. CASE notify_select(t, "idle") /\ Selectable(t, peer(t)) = 0
    BY <1>b, <2>2 DEF notify_select, Goto, LockPoints, Asleep
  <2> QED
    BY <1>7, <2>1, <2>2 DEF notify, notify_one, Selects, Unparks
<1>8. CASE disconnect(t)
  <2>1. CASE Goto(t, "disconnect_chan", IF mark THEN AfterDisconnect(t) ELSE "disconnect") /\ UNCHANGED <<context, wakers>>
    <3>1. \E to : /\ pc' = [pc EXCEPT ![t] = to] /\ pc[t] \notin LockPoints \cup Asleep
                  /\ to \notin LockPoints \cup Asleep /\ UNCHANGED <<select, selectors, is_empty>>
      BY <2>1 DEF Goto, context, wakers, AfterDisconnect, LockPoints, Asleep
    <3> QED
      BY <1>b, <3>1 DEF Asleep
  <2> QED
    BY <1>8, <2>1 DEF disconnect, Unparks
<1> QED
  BY <1>1, <1>2, <1>3, <1>4, <1>5, <1>6, <1>7, <1>8 DEF Step

\* Thread u is in queue w.
InQueue(u, w) == \E i \in 1 .. Len(selectors[w]) : selectors[w][i] = u

\* The three parts of QueueInv, for one queue.
QueueOK(w) ==
  /\ \A u \in Threads : InQueue(u, w) => own(u) = w /\ select[u] # "Operation" /\ pc[u] \in Asleep
  /\ Distinct(selectors[w])
  /\ ~Locked(w) => (is_empty[w] <=> selectors[w] = << >>)

LEMMA QueueInvIs ==
  ASSUME selectors \in [Queues -> Seq(Threads)]
  PROVE  QueueInv <=> \A w \in Queues : QueueOK(w)
<1>1. ASSUME NEW w \in Queues, NEW i \in 1 .. Len(selectors[w]) PROVE selectors[w][i] \in Threads
  <2>1. selectors[w] \in Seq(Threads)
    OBVIOUS
  <2> QED
    BY <2>1, ElementOfSeq
<1> QED
  BY <1>1 DEF QueueInv, QueueOK, InQueue

\* A queue that the step leaves alone, and whose entries stay in it.
LEMMA QueueKept ==
  ASSUME NEW w \in Queues, QueueOK(w), selectors'[w] = selectors[w], is_empty'[w] = is_empty[w], 
         Locked(w)' <=> Locked(w),
         \A u \in Threads : InQueue(u, w) => select'[u] # "Operation" /\ pc'[u] \in Asleep
  PROVE  QueueOK(w)'
<1>1. \A u \in Threads : InQueue(u, w)' <=> InQueue(u, w)
  BY DEF InQueue
<1> QED
  BY <1>1 DEF QueueOK

LEMMA QueueStep ==
  ASSUME IInv, NEW t \in Threads, Step(t) \/ expire(t)
  PROVE  selectors' \in [Queues -> Seq(Threads)] /\ is_empty' \in [Queues -> BOOLEAN]
         /\ select' \in [Threads -> {"Waiting", "Operation", "Disconnected", "Aborted"}]
         /\ QueueInv' /\ ContextInv'
<1> DEFINE S == {"Waiting", "Operation", "Disconnected", "Aborted"}
<1>0. /\ selectors \in [Queues -> Seq(Threads)] /\ is_empty \in [Queues -> BOOLEAN]
      /\ select \in [Threads -> S] /\ pc \in [Threads -> SenderPoints \cup ReceiverPoints]
      /\ own(t) \in Queues /\ peer(t) \in Queues /\ own(t) # peer(t)
      /\ \A u \in Threads : peer(u) # own(t) => peer(u) = peer(t)
  BY Sides DEF IInv, TypeOK, own, peer
<1>1. (\A w \in Queues : QueueOK(w)) /\ ContextInv
  BY <1>0, QueueInvIs DEF IInv
<1>k. \A w \in Queues : w # own(t) => w = peer(t)
  BY DEF own, peer, Queues
<1>q. SUFFICES selectors' \in [Queues -> Seq(Threads)] /\ is_empty' \in [Queues -> BOOLEAN]
               /\ select' \in [Threads -> S] /\ (\A w \in Queues : QueueOK(w)') /\ ContextInv'
  <2>1. (selectors \in [Queues -> Seq(Threads)])' => (QueueInv <=> \A w \in Queues : QueueOK(w))'
    BY QueueInvIs, PTL
  <2> QED
    BY <2>1
<1>2. CASE \E to : Dozes(t, to)
  <2>1. PICK to : Dozes(t, to)
    BY <1>2
  <2>2. PICK s \in S : 
          /\ select' = [select EXCEPT ![t] = s]
          /\ pc[t] \in Asleep /\ select[t] # "Operation" => to \in Asleep /\ s # "Operation"
          /\ to = "unregister" => s \in {"Aborted", "Disconnected"}
          /\ to \notin Asleep => s = "Waiting"
    BY <2>1 DEF Dozes
  <2>3. /\ pc' = [pc EXCEPT ![t] = to] /\ pc[t] \notin LockPoints /\ to \notin LockPoints
        /\ selectors' = selectors /\ is_empty' = is_empty
    BY <2>1 DEF Dozes
  <2>4. \A u \in Threads : pc'[u] = IF u = t THEN to ELSE pc[u]
    BY <1>0, <2>3
  <2>5. \A u \in Threads : select'[u] = IF u = t THEN s ELSE select[u]
    BY <1>0, <2>2
  <2>6. select' \in [Threads -> S]
    BY <1>0, <2>2
  <2>7. ContextInv'
    BY <1>1, <2>2, <2>4, <2>5 DEF ContextInv
  <2>8. ASSUME NEW w \in Queues PROVE QueueOK(w)'
    <3>1. Locked(w)' <=> Locked(w)
      BY <2>3, <2>4 DEF Locked, LockPoints
    <3>2. \A u \in Threads : InQueue(u, w) => select'[u] # "Operation" /\ pc'[u] \in Asleep
      BY <1>1, <2>2, <2>4, <2>5 DEF QueueOK
    <3> QED
      BY <1>1, <2>3, <3>1, <3>2, QueueKept
  <2> QED
    BY <1>0, <2>3, <2>6, <2>7, <2>8
\* A queue whose lock the step neither takes nor releases.
<1>l. ASSUME NEW w \in Queues, \A u \in Threads : u # t => pc'[u] = pc[u],
             w # peer(t) \/ (pc[t] \notin LockPoints /\ pc'[t] \notin LockPoints)
      PROVE  Locked(w)' <=> Locked(w)
  BY <1>l DEF Locked, LockPoints
<1>3. CASE Registers(t)
  <2>1. /\ pc[t] = "refused" /\ pc' = [pc EXCEPT ![t] = "recheck"] /\ select' = select
        /\ selectors' = [selectors EXCEPT ![own(t)] = Append(@, t)]
        /\ is_empty' = [is_empty EXCEPT ![own(t)] = (selectors'[own(t)] = << >>)]
    BY <1>3 DEF Registers, register, Goto, push, store_is_empty, context
  <2>2. \A u \in Threads : pc'[u] = IF u = t THEN "recheck" ELSE pc[u]
    BY <1>0, <2>1
  <2>3. ~InQueue(t, own(t))
    BY <1>0, <1>1, <2>1 DEF QueueOK, Asleep
  <2> DEFINE s == selectors[own(t)]
             r == Append(s, t)
  <2>4. s \in Seq(Threads) /\ Distinct(s)
    BY <1>0, <1>1 DEF QueueOK
  <2>5. /\ r \in Seq(Threads) /\ Distinct(r)
        /\ \A j \in 1 .. Len(r) : r[j] = t \/ \E k \in 1 .. Len(s) : r[j] = s[k]
    BY <2>3, <2>4, PushesOne DEF InQueue
  <2>6. selectors'[own(t)] = r /\ \A w \in Queues : w # own(t) => selectors'[w] = selectors[w]
    BY <1>0, <2>1
  <2>7. selectors' \in [Queues -> Seq(Threads)] /\ is_empty' \in [Queues -> BOOLEAN]
    <3>1. selectors' \in [Queues -> Seq(Threads)]
      BY <1>0, <2>1, <2>5
    <3>2. (selectors'[own(t)] = << >>) \in BOOLEAN
      OBVIOUS
    <3> QED
      BY <1>0, <2>1, <3>1, <3>2
  <2>8. is_empty'[own(t)] = (selectors'[own(t)] = << >>)
    BY <1>0, <2>1
  <2>9. ContextInv'
    BY <1>1, <2>1, <2>2 DEF ContextInv, Asleep
  <2>10. QueueOK(own(t))'
    <3>1. ASSUME NEW u \in Threads, InQueue(u, own(t))' PROVE u = t \/ InQueue(u, own(t))
      BY <2>5, <2>6, <3>1 DEF InQueue
    <3>2. ASSUME NEW u \in Threads, InQueue(u, own(t))'
          PROVE  own(u) = own(t) /\ select'[u] # "Operation" /\ pc'[u] \in Asleep
      <4>1. CASE u = t
        BY <1>1, <2>1, <2>2, <4>1 DEF ContextInv, Asleep
      <4>2. CASE InQueue(u, own(t))
        BY <1>0, <1>1, <2>1, <2>2, <4>2 DEF QueueOK, Asleep
      <4> QED
        BY <3>1, <3>2, <4>1, <4>2
    <3> QED
      BY <2>5, <2>6, <2>8, <3>2 DEF QueueOK
  <2>11. ASSUME NEW w \in Queues, w # own(t) PROVE QueueOK(w)'
    <3>1. is_empty'[w] = is_empty[w]
      BY <1>0, <2>1, <2>11
    <3>2. Locked(w)' <=> Locked(w)
      BY <1>l, <2>1, <2>2 DEF LockPoints
    <3>3. \A u \in Threads : InQueue(u, w) => select'[u] # "Operation" /\ pc'[u] \in Asleep
      BY <1>1, <2>1, <2>2 DEF QueueOK, Asleep
    <3> QED
      BY <1>1, <2>6, <2>11, <3>1, <3>2, <3>3, QueueKept
  <2> QED
    BY <1>0, <2>1, <2>7, <2>9, <2>10, <2>11
<1>4. CASE Unregisters(t)
  <2>1. /\ pc[t] = "unregister" /\ pc' = [pc EXCEPT ![t] = again(t)]
        /\ select' = [select EXCEPT ![t] = "Waiting"]
        /\ selectors' = [selectors EXCEPT ![own(t)] = RemoveFirst(@, t)]
        /\ is_empty' = [is_empty EXCEPT ![own(t)] = (selectors'[own(t)] = << >>)]
    BY <1>4 DEF Unregisters, unregister, Goto, remove, store_is_empty, Decided
  <2>2. \A u \in Threads : pc'[u] = IF u = t THEN again(t) ELSE pc[u]
    BY <1>0, <2>1
  <2>3. \A u \in Threads : select'[u] = IF u = t THEN "Waiting" ELSE select[u]
    BY <1>0, <2>1
  <2>t. again(t) \notin Asleep \cup LockPoints
    BY DEF again, Asleep, LockPoints
  <2> DEFINE s == selectors[own(t)]
             r == RemoveFirst(s, t)
  <2>4. s \in Seq(Threads) /\ Distinct(s)
    BY <1>0, <1>1 DEF QueueOK
  <2>5. /\ r \in Seq(Threads) /\ Distinct(r)
        /\ \A j \in 1 .. Len(r) : r[j] # t /\ \E k \in 1 .. Len(s) : r[j] = s[k]
    <3>1. CASE r = s /\ \A i \in 1 .. Len(s) : s[i] # t
      BY <2>4, <3>1
    <3>2. CASE \E i \in 1 .. Len(s) : s[i] = t /\ r = RemoveAt(s, i)
      <4>1. PICK i \in 1 .. Len(s) : s[i] = t /\ r = RemoveAt(s, i)
        BY <3>2
      <4> HIDE DEF s, r
      <4> QED
        BY <2>4, <4>1, RemovesOne
    <3> QED
      BY <3>1, <3>2, RemoveFirstIs
  <2>6. selectors'[own(t)] = r /\ \A w \in Queues : w # own(t) => selectors'[w] = selectors[w]
    BY <1>0, <2>1
  <2>7. selectors' \in [Queues -> Seq(Threads)] /\ is_empty' \in [Queues -> BOOLEAN]
    <3>1. selectors' \in [Queues -> Seq(Threads)]
      BY <1>0, <2>1, <2>5
    <3>2. (selectors'[own(t)] = << >>) \in BOOLEAN
      OBVIOUS
    <3> QED
      BY <1>0, <2>1, <3>1, <3>2
  <2>8. is_empty'[own(t)] = (selectors'[own(t)] = << >>)
    BY <1>0, <2>1
  <2>9. ContextInv' /\ select' \in [Threads -> S]
    BY <1>0, <1>1, <2>1, <2>2, <2>3, <2>t DEF ContextInv, Asleep
  <2>10. QueueOK(own(t))'
    <3>1. ASSUME NEW u \in Threads, InQueue(u, own(t))' PROVE u # t /\ InQueue(u, own(t))
      BY <2>5, <2>6, <3>1 DEF InQueue
    <3>2. ASSUME NEW u \in Threads, InQueue(u, own(t))'
          PROVE  own(u) = own(t) /\ select'[u] # "Operation" /\ pc'[u] \in Asleep
      BY <1>0, <1>1, <2>2, <2>3, <3>1, <3>2 DEF QueueOK
    <3> QED
      BY <2>5, <2>6, <2>8, <3>2 DEF QueueOK
  <2>11. ASSUME NEW w \in Queues, w # own(t) PROVE QueueOK(w)'
    <3>1. is_empty'[w] = is_empty[w]
      BY <1>0, <2>1, <2>11
    <3>2. Locked(w)' <=> Locked(w)
      BY <1>l, <2>1, <2>2, <2>t DEF LockPoints
    <3>3. \A u \in Threads : InQueue(u, w) => own(u) = w /\ select[u] # "Operation" /\ pc[u] \in Asleep
      BY <1>1 DEF QueueOK
    <3>4. \A u \in Threads : InQueue(u, w) => select'[u] # "Operation" /\ pc'[u] \in Asleep
      BY <2>2, <2>3, <2>11, <3>3
    <3> QED
      BY <1>1, <2>6, <2>11, <3>1, <3>2, <3>4, QueueKept
  <2> QED
    BY <2>7, <2>9, <2>10, <2>11
<1>5. CASE Selects(t)
  <2> DEFINE w == peer(t)
             i == Selectable(t, w)
             s == selectors[w]
             u == s[i]
             r == RemoveAt(s, i)
  <2>1. i # 0 /\ pc[t] = "try_select" /\ pc' = [pc EXCEPT ![t] = "unpark"] /\ is_empty' = is_empty
        /\ select' = [select EXCEPT ![u] = "Operation"] /\ selectors' = [selectors EXCEPT ![w] = r]
    BY <1>5 DEF Selects, notify_select, Goto, select_entry
  <2>2. i \in 1 .. Len(s) /\ u # t /\ select[u] = "Waiting"
    BY <2>1, SelectableIs
  <2>3. s \in Seq(Threads) /\ Distinct(s)
    BY <1>0, <1>1 DEF QueueOK
  <2>4. u \in Threads
    BY <2>2, <2>3, ElementOfSeq
  <2> HIDE DEF i
  <2>5. InQueue(u, w) /\ own(u) = w /\ pc[u] \in Asleep
    BY <1>0, <1>1, <2>2, <2>4 DEF QueueOK, InQueue
  <2>6. /\ r \in Seq(Threads) /\ Distinct(r)
        /\ \A j \in 1 .. Len(r) : r[j] # u /\ \E k \in 1 .. Len(s) : r[j] = s[k]
    BY <2>2, <2>3, RemovesOne
  <2>7. \A v \in Threads : pc'[v] = IF v = t THEN "unpark" ELSE pc[v]
    BY <1>0, <2>1
  <2>8. select' \in [Threads -> S] /\ \A v \in Threads : select'[v] = IF v = u THEN "Operation" ELSE select[v]
    BY <1>0, <2>1, <2>4
  <2>9. /\ selectors'[w] = r /\ \A v \in Queues : v # w => selectors'[v] = selectors[v]
        /\ selectors' \in [Queues -> Seq(Threads)]
    BY <1>0, <2>1, <2>6
  <2>10. ContextInv'
    BY <1>1, <2>1, <2>2, <2>4, <2>5, <2>7, <2>8 DEF ContextInv, Asleep
  <2>11. QueueOK(w)'
    <3>1. Locked(w)'
      BY <2>7 DEF Locked
    <3>2. ASSUME NEW v \in Threads, InQueue(v, w)' PROVE v # u /\ InQueue(v, w)
      BY <2>6, <2>9, <3>2 DEF InQueue
    <3>3. ASSUME NEW v \in Threads, InQueue(v, w)'
          PROVE  own(v) = w /\ select'[v] # "Operation" /\ pc'[v] \in Asleep
      <4>1. own(v) = w /\ select[v] # "Operation" /\ pc[v] \in Asleep /\ v # u
        BY <1>0, <1>1, <3>2, <3>3 DEF QueueOK
      <4>2. v # t
        BY <2>1, <4>1 DEF Asleep
      <4> QED
        BY <2>7, <2>8, <4>1, <4>2
    <3> QED
      BY <2>6, <2>9, <3>1, <3>3 DEF QueueOK
  <2>12. ASSUME NEW v \in Queues, v # w PROVE QueueOK(v)'
    <3>1. Locked(v)' <=> Locked(v)
      BY <1>l, <2>7, <2>12
    <3>2. \A z \in Threads : InQueue(z, v) => own(z) = v /\ select[z] # "Operation" /\ pc[z] \in Asleep
      BY <1>1 DEF QueueOK
    <3>3. \A z \in Threads : InQueue(z, v) => select'[z] # "Operation" /\ pc'[z] \in Asleep
      BY <2>1, <2>5, <2>7, <2>8, <2>12, <3>2 DEF Asleep
    <3> QED
      BY <1>1, <2>1, <2>9, <2>12, <3>1, <3>3, QueueKept
  <2> QED
    BY <1>0, <2>1, <2>8, <2>9, <2>10, <2>11, <2>12
<1>6. CASE disconnect_select(t)
  <2> DEFINE T == {u \in Threads : select[u] = "Waiting" /\ \E w \in {peer(t)} : u \in ToSet(selectors[w])}
  <2>1. /\ pc[t] = "disconnect" /\ pc' = [pc EXCEPT ![t] = "unpark_all"]
        /\ is_empty' = is_empty /\ selectors' = selectors
        /\ select' = [u \in Threads |-> IF u \in T THEN "Disconnected" ELSE select[u]]
    BY <1>6 DEF disconnect_select, Goto, select_all
  <2>2. \A u \in T : InQueue(u, peer(t))
    <3>1. selectors[peer(t)] \in Seq(Threads)
      BY <1>0
    <3> QED
      BY <3>1, LenProperties DEF ToSet, InQueue
  <2>3. \A v \in Threads : pc'[v] = IF v = t THEN "unpark_all" ELSE pc[v]
    BY <1>0, <2>1
  <2>4. select' \in [Threads -> S] /\ \A v \in Threads : select'[v] = IF v \in T THEN "Disconnected" ELSE select[v]
    BY <1>0, <2>1
  <2>5. \A u \in T : u \in Threads /\ pc[u] \in Asleep
    BY <1>0, <1>1, <2>2 DEF QueueOK
  <2> HIDE DEF T
  <2>6. ContextInv'
    BY <1>1, <2>1, <2>3, <2>4, <2>5 DEF ContextInv, Asleep
  <2>7. ASSUME NEW w \in Queues PROVE QueueOK(w)'
    <3>1. \A u \in Threads : InQueue(u, w) => own(u) = w /\ select[u] # "Operation" /\ pc[u] \in Asleep
      BY <1>1 DEF QueueOK
    <3>2. \A u \in Threads : InQueue(u, w) => select'[u] # "Operation" /\ pc'[u] \in Asleep
      BY <2>1, <2>3, <2>4, <3>1 DEF Asleep
    <3>3. CASE w = peer(t)
      <4>1. Locked(w)'
        BY <2>3, <3>3 DEF Locked
      <4>2. \A u \in Threads : InQueue(u, w)' <=> InQueue(u, w)
        BY <2>1 DEF InQueue
      <4> QED
        BY <1>1, <2>1, <3>1, <3>2, <4>1, <4>2 DEF QueueOK
    <3>4. CASE w # peer(t)
      <4>1. Locked(w)' <=> Locked(w)
        BY <1>l, <2>3, <3>4
      <4> QED
        BY <1>1, <2>1, <3>2, <4>1, QueueKept
    <3> QED
      BY <3>3, <3>4
  <2> QED
    BY <1>0, <2>1, <2>4, <2>6, <2>7
<1>7. CASE Unparks(t)
  <2>1. /\ pc[t] \in LockPoints /\ UNCHANGED <<select, selectors>>
        /\ is_empty' = [is_empty EXCEPT ![peer(t)] = (selectors'[peer(t)] = << >>)]
    BY <1>7 DEF Unparks, unpark, Goto, store_is_empty, LockPoints
  <2>2. PICK to : pc' = [pc EXCEPT ![t] = to] /\ to \notin Asleep \cup LockPoints
    BY <1>7 DEF Unparks, unpark, Goto, AfterDisconnect, Asleep, LockPoints
  <2>3. \A v \in Threads : pc'[v] = IF v = t THEN to ELSE pc[v]
    BY <1>0, <2>2
  <2>4. is_empty' \in [Queues -> BOOLEAN] /\ is_empty'[peer(t)] = (selectors'[peer(t)] = << >>)
    <3>1. (selectors'[peer(t)] = << >>) \in BOOLEAN
      OBVIOUS
    <3> QED
      BY <1>0, <2>1, <3>1
  <2>5. ContextInv'
    BY <1>1, <2>1, <2>2, <2>3 DEF ContextInv, Asleep, LockPoints
  <2>6. ASSUME NEW w \in Queues PROVE QueueOK(w)'
    <3>1. \A u \in Threads : InQueue(u, w) => own(u) = w /\ select[u] # "Operation" /\ pc[u] \in Asleep
      BY <1>1 DEF QueueOK
    <3>2. \A u \in Threads : InQueue(u, w) => select'[u] # "Operation" /\ pc'[u] \in Asleep
      BY <2>1, <2>3, <3>1 DEF Asleep, LockPoints
    <3>3. CASE w = peer(t)
      <4>1. \A u \in Threads : InQueue(u, w)' <=> InQueue(u, w)
        BY <2>1 DEF InQueue
      <4> QED
        BY <1>1, <2>1, <2>4, <3>1, <3>2, <3>3, <4>1 DEF QueueOK
    <3>4. CASE w # peer(t)
      <4>1. (Locked(w)' <=> Locked(w)) /\ is_empty'[w] = is_empty[w]
        BY <1>0, <1>l, <2>1, <2>3, <3>4
      <4> QED
        BY <1>1, <2>1, <3>2, <4>1, QueueKept
    <3> QED
      BY <3>3, <3>4
  <2> QED
    BY <1>0, <2>1, <2>4, <2>5, <2>6
<1> QED
  BY <1>2, <1>3, <1>4, <1>5, <1>6, <1>7, StepDozes

-----------------------------------------------------------------------------
(***************************************************************************)
(* Types                                                                   *)
(***************************************************************************)
LEMMA TypeStep ==
  ASSUME IInv, NEW t \in Threads, Step(t) \/ expire(t)
  PROVE  TypeOK'
<1>0. TypeOK /\ 0 \in Pos
  BY FirstLap, Sizes DEF IInv, Indices
<1>1. PICK to : Moves(t, to)
  BY <1>0, StepMoves
<1>2. /\ pc' \in [Threads -> SenderPoints \cup ReceiverPoints]
      /\ \A u \in Senders : pc'[u] \in SenderPoints
      /\ \A u \in Receivers : pc'[u] \in ReceiverPoints
  BY <1>0, <1>1 DEF Moves, TypeOK, Threads
<1>3. handles' \in [Queues -> Nat]
  <2>1. HandleInv'
    BY <1>1, HandleStep
  <2>2. \A w \in Queues : handles'[w] = Cardinality(Holders(w)')
    BY <2>1 DEF HandleInv
  <2>3. ASSUME NEW w \in Queues PROVE Cardinality(Holders(w)') \in Nat
    <3>1. (Cardinality(Holders(w)) \in Nat)'
      BY HoldersAre, PTL
    <3> QED
      BY <3>1
  <2>4. handles' = handles \/ handles' = [handles EXCEPT ![own(t)] = @ - 1]
    BY <1>1 DEF Moves, GoesOn, Disconnects, release, release_destroy, free_channel
  <2> QED
    BY <1>0, <2>2, <2>3, <2>4 DEF TypeOK
<1>4. destroy' \in BOOLEAN /\ freed' \in BOOLEAN /\ mark' \in BOOLEAN
  <2>1. /\ destroy' = destroy \/ destroy' = TRUE
        /\ freed' = freed \/ freed' = TRUE
        /\ mark' = mark \/ mark' = TRUE
    BY <1>1 DEF Moves, GoesOn, Disconnects, release, release_destroy, free_channel
  <2> QED
    BY <1>0, <2>1 DEF TypeOK
<1>5. /\ selectors' \in [Queues -> Seq(Threads)] /\ is_empty' \in [Queues -> BOOLEAN]
      /\ select' \in [Threads -> {"Waiting", "Operation", "Disconnected", "Aborted"}]
  BY QueueStep
<1>6. SUFFICES /\ head' \in Pos /\ tail' \in Pos
               /\ stamp' \in [Indices -> Nat]
               /\ slot' \in [Indices -> Messages \cup {None}]
               /\ pos' \in [Threads -> Pos]
               /\ msg' \in [Threads -> Messages \cup {None}]
               /\ left' \in [Senders -> 0 .. MaxSends]
  BY <1>2, <1>3, <1>4, <1>5 DEF TypeOK
<1>7. \A p \in Pos : p \in Nat /\ index(p) \in Indices /\ advance(p) \in Pos
  BY Positions
<1>8. pos[t] \in Pos /\ head \in Pos /\ tail \in Pos /\ msg[t] \in Messages \cup {None}
  BY <1>0 DEF TypeOK
<1> USE DEF TypeOK, chan, Local, MoveTo
<1>9. CASE send(t)
  <2>1. /\ UNCHANGED <<head, tail, stamp, slot>> /\ pos' = [pos EXCEPT ![t] = 0]
        /\ msg' = [msg EXCEPT ![t] = <<t, left[t]>>] /\ left' = [left EXCEPT ![t] = @ - 1]
        /\ t \in Senders /\ left[t] > 0
    BY <1>9 DEF send
  <2>2. left[t] \in 1 .. MaxSends /\ left[t] - 1 \in 0 .. MaxSends
    BY <1>0, <2>1, CapacityAssumption
  <2>3. <<t, left[t]>> \in Messages
    BY <2>1, <2>2 DEF Messages
  <2> QED
    BY <1>0, <2>1, <2>2, <2>3
<1>10. CASE load_tail(t) \/ inspect_stamp(t) \/ move_tail(t) \/ check_full(t)
  BY <1>0, <1>7, <1>8, <1>10 DEF load_tail, LoadTail, inspect_stamp, move_tail, check_full
<1>11. CASE write_msg(t)
  BY <1>0, <1>7, <1>8, <1>11 DEF write_msg
<1>12. CASE publish(t)
  <2>1. pos[t] + 1 \in Nat /\ pos[t] + one_lap \in Nat
    BY <1>7, <1>8, Sizes
  <2> QED
    BY <1>0, <1>7, <1>8, <1>12, <2>1 DEF publish
<1>13. CASE recv(t) \/ load_head(t) \/ inspect_stamp_recv(t) \/ move_head(t) \/ check_empty(t)
  BY <1>0, <1>7, <1>8, <1>13 DEF recv, load_head, LoadHead, inspect_stamp_recv, move_head, check_empty
<1>14. CASE read_msg(t)
  BY <1>0, <1>7, <1>8, <1>14 DEF read_msg
<1>15. CASE return(t) \/ look_again(t)
  BY <1>0, <1>8, <1>15 DEF return, look_again
<1>16. CASE block(t) \/ notify(t) \/ expire(t) \/ drop_handle(t) \/ destroy_channel(t)
  BY <1>0, <1>16 DEF block, notify, expire, drop_handle, destroy_channel
<1>17. CASE disconnect(t) \/ discard_all_messages(t)
  BY <1>0, <1>7, <1>8, <1>17 DEF disconnect, discard_all_messages
<1> QED
  BY <1>9, <1>10, <1>11, <1>12, <1>13, <1>14, <1>15, <1>16, <1>17 DEF Step

-----------------------------------------------------------------------------
(***************************************************************************)
(* The first message                                                       *)
(***************************************************************************)
DrainPoints == {"disconnect", "unpark_all", "discard"}

CountInv == TypeOK /\ HandleInv /\ DestroyInv

\* Where the first message is that is neither received nor discarded.
FirstOK ==
  /\ ~mark => first = head
  /\ \A r \in Receivers : Inside(r) \/ pc[r] = "disconnect_chan" => first = head
  /\ \A r \in Receivers : pc[r] \in DrainPoints => first = pos[r]
  /\ mark /\ (\A r \in Receivers : pc[r] \in {"destroy", "free", "gone"}) => first = tail

LEMMA FirstIs ==
  ASSUME CountInv
  PROVE  FirstOK
<1>0. \A t \in Receivers : t \in Threads /\ own(t) = "receivers"
  BY SidesAssumption DEF Threads, own
<1>1. handles.receivers \in Nat /\ (handles.receivers = 0 <=> Holders("receivers") = {})
  <2>1. handles.receivers = Cardinality(Holders("receivers"))
    BY DEF CountInv, HandleInv, Queues
  <2> QED
    BY <2>1, HoldersAre
<1>2. ASSUME NEW t \in Receivers, pc[t] \in LastPoints
      PROVE  /\ handles.receivers = 0
             /\ \A u \in Receivers : pc[u] \in LastPoints => u = t
  <2>1. \A u \in Receivers : pc[u] \in LastPoints \cup {"gone"} /\ (pc[u] \in LastPoints => u = t)
    BY <1>0, <1>2 DEF CountInv, HandleInv
  <2>2. \A u \in Threads : own(u) = "receivers" => u \in Receivers
    BY DEF Threads, own
  <2>3. Holders("receivers") = {}
    BY <2>1, <2>2 DEF Holders
  <2> QED
    BY <1>1, <2>1, <2>3
<1>3. ~mark => first = head
  BY DEF first
<1>4. ASSUME NEW t \in Receivers, Inside(t) PROVE first = head
  <2>1. Holders("receivers") # {}
    BY <1>0, <1>4 DEF Holders, Inside
  <2> QED
    BY <1>1, <2>1 DEF first
<1>5. ASSUME NEW t \in Receivers, pc[t] = "disconnect_chan" PROVE first = head
  <2>1. ~\E u \in Receivers : pc[u] \in DrainPoints
    BY <1>2, <1>5 DEF LastPoints, DrainPoints
  <2> QED
    BY <1>5, <2>1 DEF first, DrainPoints
<1>6. ASSUME NEW t \in Receivers, pc[t] \in DrainPoints PROVE first = pos[t]
  <2>1. pc[t] \in LastPoints \ {"disconnect_chan"}
    BY <1>6 DEF LastPoints, DrainPoints
  <2>2. mark /\ ~(handles.receivers > 0)
    BY <1>0, <1>2, <2>1 DEF CountInv, DestroyInv
  <2>3. \A u \in Receivers : pc[u] \in DrainPoints => u = t
    BY <1>2, <2>1 DEF LastPoints, DrainPoints
  <2> DEFINE c == CHOOSE u \in Receivers : pc[u] \in {"disconnect", "unpark_all", "discard"}
  <2>4. c = t
    BY <1>6, <2>3 DEF DrainPoints
  <2>5. first = pos[c]
    BY <1>6, <2>2, Zenon DEF first, DrainPoints
  <2> QED
    BY <2>4, <2>5
<1>7. ASSUME mark, \A t \in Receivers : pc[t] \in {"destroy", "free", "gone"} PROVE first = tail
  <2>1. \A u \in Threads : own(u) = "receivers" => u \in Receivers
    BY DEF Threads, own
  <2>2. Holders("receivers") = {}
    BY <1>7, <2>1 DEF Holders, LastPoints
  <2> QED
    BY <1>1, <1>7, <2>2 DEF first
<1> QED
  BY <1>3, <1>4, <1>5, <1>6, <1>7 DEF FirstOK

\* One of these is the case.
LEMMA FirstCases ==
  ASSUME CountInv
  PROVE  \/ ~mark
         \/ \E t \in Receivers : Inside(t) \/ pc[t] = "disconnect_chan" \/ pc[t] \in DrainPoints
         \/ mark /\ \A t \in Receivers : pc[t] \in {"destroy", "free", "gone"}
BY DEF CountInv, TypeOK, Inside, LastPoints, DrainPoints

\* The first message stays the first if no receiver begins or ends its part of
\* the disconnection.
LEMMA FirstStays ==
  ASSUME CountInv, CountInv', UNCHANGED <<head, tail, mark>>,
         \A r \in Receivers :
           /\ Inside(r) => Inside(r)'
           /\ pc[r] = "disconnect_chan" => pc'[r] = "disconnect_chan"
           /\ pc[r] \in DrainPoints => pc'[r] \in DrainPoints /\ pos'[r] = pos[r]
           /\ pc[r] \in {"destroy", "free", "gone"} => pc'[r] \in {"destroy", "free", "gone"}
  PROVE  first' = first
<1>1. FirstOK /\ FirstOK'
  BY FirstIs, PTL
<1>2. CASE ~mark
  BY <1>1, <1>2 DEF FirstOK
<1>3. ASSUME NEW r \in Receivers, Inside(r) \/ pc[r] = "disconnect_chan" \/ pc[r] \in DrainPoints
      PROVE  first' = first
  BY <1>1, <1>3 DEF FirstOK
<1>4. CASE mark /\ \A t \in Receivers : pc[t] \in {"destroy", "free", "gone"}
  <2>1. mark' /\ \A t \in Receivers : pc'[t] \in {"destroy", "free", "gone"}
    BY <1>4
  <2> QED
    BY <1>1, <1>4, <2>1 DEF FirstOK
<1> QED
  BY <1>2, <1>3, <1>4, FirstCases

LEMMA CountStep ==
  ASSUME IInv, NEW t \in Threads, Step(t) \/ expire(t)
  PROVE  CountInv /\ CountInv'
<1>1. \E to : Moves(t, to)
  BY StepMoves DEF IInv
<1> QED
  BY <1>1, TypeStep, HandleStep, DestroyStep DEF IInv, CountInv

-----------------------------------------------------------------------------
(***************************************************************************)
(* What a step does to the ring                                            *)
(***************************************************************************)
\* Two positions of one slot.
LEMMA SlotShows ==
  ASSUME NEW p \in Pos, NEW q \in Pos, index(p) = index(q)
  PROVE  /\ p # q + 1 /\ q # p + 1
         /\ Free(p) /\ Free(q) => p = q
         /\ Full(p) /\ Full(q) => p = q
         /\ ~(Free(p) /\ Full(q))
<1>1. p \in Nat /\ q \in Nat /\ one_lap \in Nat /\ 1 < one_lap
  BY Positions, Sizes
<1>2. p < q => p + one_lap <= q
  BY Order
<1>3. q < p => q + one_lap <= p
  BY Order
<1>4. p # q + 1 /\ q # p + 1
  BY <1>1, <1>2, <1>3
<1> QED
  BY <1>1, <1>4 DEF Free, Full

\* The threads but t stay where they are.
Alone(t) == \A u \in Threads : u # t => pc'[u] = pc[u] /\ pos'[u] = pos[u] /\ msg'[u] = msg[u]

\* No claim is made or given up, and no slot changes.
Quiet(t) ==
  /\ ~Claimer(t) /\ ~Claimer(t)' /\ Alone(t)
  /\ UNCHANGED <<head, tail, stamp, slot>>
  /\ first' = first

LEMMA QuietKeeps ==
  ASSUME IInv, NEW t \in Threads, Quiet(t)
  PROVE  RingInv' /\ ClaimInv' /\ SlotInv'
<1>0. /\ head' = head /\ tail' = tail /\ stamp' = stamp /\ slot' = slot /\ first' = first
      /\ \A u \in Threads : (Claimer(u)' <=> Claimer(u)) /\ (Claimer(u) => pos'[u] = pos[u] /\ pc'[u] = pc[u])
      /\ RingInv /\ ClaimInv /\ SlotInv
  BY DEF Quiet, Alone, IInv, Claimer
<1>1. \A q \in Pos : (Free(q)' <=> Free(q)) /\ (Full(q)' <=> Full(q))
  BY <1>0 DEF Free, Full
<1>2. \A u \in Threads, q \in Pos :
        /\ Claimer(u)' /\ pos'[u] = q <=> Claimer(u) /\ pos[u] = q
        /\ pc'[u] = "publish" /\ pos'[u] = q <=> pc[u] = "publish" /\ pos[u] = q
        /\ pc'[u] = "read" /\ pos'[u] = q <=> pc[u] = "read" /\ pos[u] = q
  BY <1>0 DEF Claimer
<1>3. RingInv'
  BY <1>0, <1>1, <1>2 DEF RingInv, Threads
<1>4. ClaimInv'
  <2>1. \A u \in Threads : pos[u] \in Pos
    BY DEF IInv, TypeOK
  <2> QED
    BY <1>0, <1>1, <2>1 DEF ClaimInv, Threads
<1>5. SlotInv'
  BY <1>0, <1>1, <1>2 DEF SlotInv, Threads
<1> QED
  BY <1>3, <1>4, <1>5

\* The steps that change the ring.
Claims(t) == tail = pos[t] /\ ~mark /\ move_tail(t)

Takes(t) == head = pos[t] /\ move_head(t)

Discards(t) == stamp[index(pos[t])] = pos[t] + 1 /\ discard_all_messages(t)

LEMMA StepQuiet ==
  ASSUME IInv, NEW t \in Threads, Step(t) \/ expire(t)
  PROVE  \/ Quiet(t)
         \/ Claims(t) \/ write_msg(t) \/ publish(t) \/ Takes(t) \/ read_msg(t) \/ Discards(t)
<1>0. /\ CountInv /\ CountInv'
      /\ pc \in [Threads -> SenderPoints \cup ReceiverPoints] /\ pos \in [Threads -> Pos]
      /\ msg \in [Threads -> Messages \cup {None}]
  BY CountStep DEF CountInv, TypeOK
<1>r. \A r \in Receivers : r \in Threads /\ own(r) = "receivers"
  BY SidesAssumption DEF Threads, own
<1>t. /\ t \in Senders => pc[t] \in SenderPoints /\ t \notin Receivers
      /\ t \in Receivers => pc[t] \in ReceiverPoints /\ t \notin Senders
  BY <1>0, SidesAssumption DEF CountInv, TypeOK
<1> USE DEF Goto, Local, MoveTo, chan
\* Steps inside of a call.
<1>a. ASSUME NEW to, pc' = [pc EXCEPT ![t] = to], Inside(t), to \notin LastPoints \cup {"gone"},
             ~Claimer(t), to \notin {"write", "read", "publish"}, UNCHANGED chan,
             \E p : pos' = [pos EXCEPT ![t] = p], \E m : msg' = [msg EXCEPT ![t] = m]
      PROVE  Quiet(t)
  <2>1. Alone(t) /\ pc'[t] = to /\ ~Claimer(t)'
    BY <1>0, <1>a DEF Alone, Claimer
  <2>2. ASSUME NEW r \in Receivers
        PROVE  /\ Inside(r) => Inside(r)'
               /\ pc[r] = "disconnect_chan" => pc'[r] = "disconnect_chan"
               /\ pc[r] \in DrainPoints => pc'[r] \in DrainPoints /\ pos'[r] = pos[r]
               /\ pc[r] \in {"destroy", "free", "gone"} => pc'[r] \in {"destroy", "free", "gone"}
    <3>1. CASE r = t
      BY <1>a, <2>1, <3>1 DEF Inside, LastPoints, DrainPoints
    <3>2. CASE r # t
      BY <1>r, <2>1, <3>2 DEF Alone, Inside
    <3> QED
      BY <3>1, <3>2
  <2>3. first' = first
    BY <1>0, <1>a, <2>2, FirstStays
  <2> QED
    BY <1>a, <2>1, <2>3 DEF Quiet
<1>p. pos = [pos EXCEPT ![t] = pos[t]] /\ msg = [msg EXCEPT ![t] = msg[t]]
  BY <1>0
\* The same, as the actions have it.
<1>b. ASSUME \E to : /\ pc' = [pc EXCEPT ![t] = to] 
                     /\ pc[t] \notin LastPoints \cup {"gone", "write", "read", "publish"}
                     /\ to \notin LastPoints \cup {"gone", "write", "read", "publish"},
             UNCHANGED chan,
             pos' = pos \/ \E p : pos' = [pos EXCEPT ![t] = p], msg' = msg \/ \E m : msg' = [msg EXCEPT ![t] = m]
      PROVE  Quiet(t)
  <2>1. (\E p : pos' = [pos EXCEPT ![t] = p]) /\ (\E m : msg' = [msg EXCEPT ![t] = m])
    BY <1>b, <1>p
  <2> QED
    BY <1>a, <1>b, <2>1 DEF Inside, Claimer
<1>1. CASE send(t) \/ load_tail(t) \/ inspect_stamp(t) \/ (move_tail(t) /\ ~Claims(t)) \/ check_full(t)
  <2>1. /\ UNCHANGED chan /\ (pos' = pos \/ \E p : pos' = [pos EXCEPT ![t] = p])
        /\ msg' = msg \/ \E m : msg' = [msg EXCEPT ![t] = m]
    BY <1>1 DEF send, load_tail, LoadTail, inspect_stamp, move_tail, Claims, check_full
  <2>2. \E to : /\ pc' = [pc EXCEPT ![t] = to]
                /\ pc[t] \notin LastPoints \cup {"gone", "write", "read", "publish"}
                /\ to \notin LastPoints \cup {"gone", "write", "read", "publish"}
    BY <1>1 DEF send, load_tail, LoadTail, inspect_stamp, move_tail, Claims, check_full, LastPoints
  <2> QED
    BY <1>b, <2>1, <2>2
<1>2. CASE recv(t) \/ load_head(t) \/ inspect_stamp_recv(t) \/ (move_head(t) /\ ~Takes(t)) \/ check_empty(t)
           \/ return(t)
  <2>1. /\ UNCHANGED chan /\ (pos' = pos \/ \E p : pos' = [pos EXCEPT ![t] = p])
        /\ msg' = msg \/ \E m : msg' = [msg EXCEPT ![t] = m]
    BY <1>2 DEF recv, load_head, LoadHead, inspect_stamp_recv, move_head, Takes, check_empty, return
  <2>2. \E to : /\ pc' = [pc EXCEPT ![t] = to]
                /\ pc[t] \notin LastPoints \cup {"gone", "write", "read", "publish"}
                /\ to \notin LastPoints \cup {"gone", "write", "read", "publish"}
    BY <1>2 DEF recv, load_head, LoadHead, inspect_stamp_recv, move_head, Takes, check_empty, return, LastPoints
  <2> QED
    BY <1>b, <2>1, <2>2
<1>3. CASE look_again(t)
  <2>1. /\ UNCHANGED chan /\ (pos' = pos \/ \E p : pos' = [pos EXCEPT ![t] = p]) /\ msg' = msg
    BY <1>3 DEF look_again
  <2>2. \E to : /\ pc' = [pc EXCEPT ![t] = to]
                /\ pc[t] \notin LastPoints \cup {"gone", "write", "read", "publish"}
                /\ to \notin LastPoints \cup {"gone", "write", "read", "publish"}
    BY <1>3 DEF look_again, LastPoints
  <2> QED
    BY <1>b, <2>1, <2>2
<1>4. CASE block(t) \/ expire(t) \/ notify(t)
  <2>1. UNCHANGED <<chan, pos, msg>>
    BY <1>4 DEF block, expire, notify
  <2>2. \E to : /\ pc' = [pc EXCEPT ![t] = to]
                /\ pc[t] \notin LastPoints \cup {"gone", "write", "read", "publish"}
                /\ to \notin LastPoints \cup {"gone", "write", "read", "publish"}
    <3>1. CASE block(t)
      BY <3>1 DEF block, register, wait_until, abort, wait_load, Return, park, unregister, again, LastPoints
    <3>2. CASE expire(t)
      BY <3>2 DEF expire, timeout, Return, again, LastPoints
    <3>3. CASE notify(t)
      BY <3>3 DEF notify, notify_one, notify_load, notify_select, unpark, LastPoints
    <3> QED
      BY <1>4, <3>1, <3>2, <3>3
  <2> QED
    BY <1>b, <2>1, <2>2
<1>q. FirstOK /\ FirstOK'
  BY <1>0, FirstIs, PTL
\* A last thread is the only one of its side.
<1>c. pc[t] \in LastPoints /\ t \in Receivers =>
        \A r \in Receivers : r # t => pc[r] = "gone"
  BY <1>0, <1>r DEF CountInv, HandleInv
<1>5. CASE drop_handle(t)
  <2>1. /\ pc[t] = "idle" /\ UNCHANGED <<chan, pos, msg>>
        /\ \E to \in {"disconnect_chan", "gone"} : pc' = [pc EXCEPT ![t] = to]
    BY <1>5 DEF drop_handle, release
  <2>2. Alone(t) /\ pc'[t] \in {"disconnect_chan", "gone"} /\ ~Claimer(t) /\ ~Claimer(t)'
    BY <1>0, <2>1 DEF Alone, Claimer
  <2>3. first' = first
    <3>1. CASE t \in Receivers
      <4>1. first = head /\ \A r \in Receivers : pc[r] \notin LastPoints
        BY <1>0, <1>q, <1>r, <2>1, <3>1 DEF FirstOK, Inside, LastPoints, CountInv, HandleInv
      <4>2. \A r \in Receivers : pc'[r] \notin DrainPoints \cup {"destroy", "free"}
        BY <1>r, <2>2, <4>1 DEF Alone, LastPoints, DrainPoints
      <4>3. CASE \E r \in Receivers : Inside(r)' \/ pc'[r] = "disconnect_chan"
        BY <1>q, <2>1, <4>1, <4>3 DEF FirstOK
      <4>4. CASE \A r \in Receivers : pc'[r] = "gone"
        <5>1. Holders("receivers")' = {}
          BY <4>4 DEF Holders, Threads, own
        <5>2. handles'["receivers"] = 0
          BY <1>0, <5>1, FS_EmptySet DEF CountInv, HandleInv, Queues
        <5>3. handles["receivers"] \in Nat /\ handles'["receivers"] = handles["receivers"] - 1
          BY <1>0, <1>5, <1>r, <3>1 DEF drop_handle, release, CountInv, TypeOK, Queues
        <5>4. handles[own(t)] = 1
          BY <1>r, <3>1, <5>2, <5>3
        <5>5. pc' = [pc EXCEPT ![t] = "disconnect_chan"]
          BY <1>5, <5>4 DEF drop_handle, release
        <5> QED
          BY <1>0, <3>1, <4>4, <5>5
      <4> QED
        BY <4>2, <4>3, <4>4 DEF Inside, LastPoints, DrainPoints
    <3>2. CASE t \notin Receivers
      BY <1>0, <1>r, <2>1, <2>2, <3>2, FirstStays DEF Alone, Inside
    <3> QED
      BY <3>1, <3>2
  <2> QED
    BY <2>1, <2>2, <2>3 DEF Quiet
<1>6. CASE destroy_channel(t)
  <2>1. /\ pc[t] \in {"destroy", "free"} /\ UNCHANGED <<chan, pos, msg>>
        /\ \E to \in {"free", "gone"} : pc' = [pc EXCEPT ![t] = to]
    BY <1>6 DEF destroy_channel, release_destroy, free_channel
  <2>2. Alone(t) /\ pc'[t] \in {"free", "gone"} /\ ~Claimer(t) /\ ~Claimer(t)'
    BY <1>0, <2>1 DEF Alone, Claimer
  <2>3. ASSUME NEW r \in Receivers
        PROVE  /\ Inside(r) => Inside(r)'
               /\ pc[r] = "disconnect_chan" => pc'[r] = "disconnect_chan"
               /\ pc[r] \in DrainPoints => pc'[r] \in DrainPoints /\ pos'[r] = pos[r]
               /\ pc[r] \in {"destroy", "free", "gone"} => pc'[r] \in {"destroy", "free", "gone"}
    BY <1>r, <2>1, <2>2 DEF Alone, Inside, LastPoints, DrainPoints
  <2>4. first' = first
    BY <1>0, <2>1, <2>3, FirstStays
  <2> QED
    BY <2>1, <2>2, <2>4 DEF Quiet
<1>7. CASE disconnect(t)
  <2>0. UNCHANGED <<head, tail, stamp, slot, msg>>
    BY <1>7 DEF disconnect
  <2>1. CASE pc[t] = "disconnect_chan"
    <3>1. /\ mark' = TRUE /\ pos' = [pos EXCEPT ![t] = IF t \in Receivers THEN head ELSE 0]
          /\ \E to \in {"disconnect", "destroy", "discard"} :
               pc' = [pc EXCEPT ![t] = to] /\ (t \in Receivers => to # "destroy")
      BY <1>7, <1>t, <2>1 DEF disconnect, disconnect_select, unpark, AfterDisconnect
    <3>2. /\ Alone(t) /\ pc'[t] \in {"disconnect", "destroy", "discard"} /\ ~Claimer(t) /\ ~Claimer(t)'
          /\ t \in Receivers => pc'[t] \in DrainPoints /\ pos'[t] = head
      BY <1>0, <2>0, <2>1, <3>1 DEF Alone, Claimer, DrainPoints
    <3>3. CASE t \in Receivers
      <4>1. first' = head
        BY <1>q, <3>2, <3>3 DEF FirstOK
      <4>2. first = head
        BY <1>q, <2>1, <3>3 DEF FirstOK
      <4> QED
        BY <2>0, <3>2, <4>1, <4>2 DEF Quiet
    <3>4. CASE t \notin Receivers
      <4>1. \A r \in Receivers : pc'[r] = pc[r] /\ pos'[r] = pos[r] /\ (Inside(r)' <=> Inside(r))
        BY <1>r, <3>2, <3>4 DEF Alone, Inside
      <4>2. CASE ~mark
        <5>1. first = head
          BY <1>q, <4>2 DEF FirstOK
        <5>2. \E r \in Receivers : Inside(r) \/ pc[r] = "disconnect_chan"
          <6>1. CASE Holders("receivers") = {}
            BY <1>0, <4>2, <6>1 DEF CountInv, HandleInv, Queues, Threads, own
          <6>2. CASE Holders("receivers") # {}
            BY <6>2 DEF Holders, Inside, Threads, own
          <6> QED
            BY <6>1, <6>2
        <5>3. first' = head'
          BY <1>q, <4>1, <5>2 DEF FirstOK
        <5> QED
          BY <2>0, <3>2, <5>1, <5>3 DEF Quiet
      <4>3. CASE mark
        <5>1. mark' = mark
          BY <1>0, <3>1, <4>3 DEF CountInv, TypeOK
        <5>2. first' = first
          BY <1>0, <2>0, <4>1, <5>1, FirstStays
        <5> QED
          BY <2>0, <3>2, <5>2 DEF Quiet
      <4> QED
        BY <4>2, <4>3
    <3> QED
      BY <3>3, <3>4
  <2>2. CASE pc[t] # "disconnect_chan"
    <3>1. /\ UNCHANGED <<mark, pos>> /\ pc[t] \in {"disconnect", "unpark_all"}
          /\ \E to \in {"unpark_all", "destroy", "discard"} :
               pc' = [pc EXCEPT ![t] = to] /\ (t \in Receivers => to # "destroy")
      BY <1>7, <1>t, <2>2 DEF disconnect, disconnect_select, unpark, AfterDisconnect
    <3>2. /\ Alone(t) /\ pc'[t] \in {"unpark_all", "destroy", "discard"} /\ ~Claimer(t) /\ ~Claimer(t)'
          /\ t \in Receivers => pc'[t] \in DrainPoints
      BY <1>0, <2>0, <3>1 DEF Alone, Claimer, DrainPoints
    <3>3. ASSUME NEW r \in Receivers
          PROVE  /\ Inside(r) => Inside(r)'
                 /\ pc[r] = "disconnect_chan" => pc'[r] = "disconnect_chan"
                 /\ pc[r] \in DrainPoints => pc'[r] \in DrainPoints /\ pos'[r] = pos[r]
                 /\ pc[r] \in {"destroy", "free", "gone"} => pc'[r] \in {"destroy", "free", "gone"}
      BY <1>r, <3>1, <3>2 DEF Alone, Inside, LastPoints, DrainPoints
    <3>4. first' = first
      BY <1>0, <2>0, <3>1, <3>3, FirstStays
    <3> QED
      BY <2>0, <3>2, <3>4 DEF Quiet
  <2> QED
    BY <2>1, <2>2
<1>8. CASE discard_all_messages(t) /\ ~Discards(t)
  <2>1. /\ pc[t] = "discard" /\ pc' = [pc EXCEPT ![t] = "destroy"] /\ tail = pos[t]
        /\ UNCHANGED <<head, tail, mark, stamp, slot, msg>> /\ pos' = [pos EXCEPT ![t] = 0]
    BY <1>8 DEF discard_all_messages, Discards
  <2>2. t \in Receivers
    BY <1>t, <2>1 DEF SenderPoints, CommonPoints, Asleep, Threads
  <2>3. Alone(t) /\ pc'[t] = "destroy" /\ ~Claimer(t) /\ ~Claimer(t)'
    BY <1>0, <2>1 DEF Alone, Claimer
  <2>4. first = tail
    BY <1>q, <2>1, <2>2 DEF FirstOK, DrainPoints
  <2>5. mark' /\ \A r \in Receivers : pc'[r] \in {"destroy", "free", "gone"}
    BY <1>0, <1>c, <1>r, <2>1, <2>2, <2>3 DEF Alone, LastPoints, CountInv, DestroyInv
  <2>6. first' = tail'
    BY <1>q, <2>5 DEF FirstOK
  <2> QED
    BY <2>1, <2>3, <2>4, <2>6 DEF Quiet
<1> QED
  BY <1>1, <1>2, <1>3, <1>4, <1>5, <1>6, <1>7, <1>8 DEF Step

\* A sender claims the position at the tail, ...
ClaimEffect(t) ==
  /\ t \in Senders /\ pc[t] = "move_tail" /\ pc'[t] = "write" /\ tail = pos[t] /\ ~mark /\ ~mark'
  /\ tail' = advance(tail) /\ first = head /\ first' = head
  /\ UNCHANGED <<head, stamp, slot, pos, msg>> /\ Alone(t)

\* ... writes its message, ...
WriteEffect(t) ==
  /\ t \in Senders /\ pc[t] = "write" /\ pc'[t] = "publish"
  /\ slot' = [slot EXCEPT ![index(pos[t])] = msg[t]]
  /\ first' = first /\ UNCHANGED <<head, tail, stamp, pos>> /\ Alone(t)

\* ... and like a receiver hands over the slot.
PublishEffect(t) ==
  /\ pc[t] = "publish" /\ pc'[t] = "notify" /\ msg'[t] = None
  /\ stamp' = [stamp EXCEPT ![index(pos[t])] = IF t \in Senders THEN pos[t] + 1 ELSE pos[t] + one_lap]
  /\ first' = first /\ UNCHANGED <<head, tail, slot>> /\ Alone(t)

\* A receiver claims the position at the head ...
TakeEffect(t) ==
  /\ t \in Receivers /\ pc[t] = "move_head" /\ pc'[t] = "read" /\ head = pos[t]
  /\ head' = advance(head) /\ first = head /\ first' = head'
  /\ UNCHANGED <<tail, stamp, slot, pos, msg>> /\ Alone(t)

\* ... and reads its message.
ReadEffect(t) ==
  /\ t \in Receivers /\ pc[t] = "read" /\ pc'[t] = "publish"
  /\ slot' = [slot EXCEPT ![index(pos[t])] = None] /\ msg'[t] = slot[index(pos[t])]
  /\ first' = first /\ UNCHANGED <<head, tail, stamp, pos>> /\ Alone(t)

\* The last receiver discards the first message.
DiscardEffect(t) ==
  /\ t \in Receivers /\ pc[t] = "discard" /\ pc'[t] = "discard" /\ Full(pos[t])
  /\ slot' = [slot EXCEPT ![index(pos[t])] = None]
  /\ first = pos[t] /\ first' = advance(pos[t]) /\ pos'[t] = advance(pos[t])
  /\ UNCHANGED <<head, tail, stamp, msg>> /\ Alone(t)
  /\ mark /\ (\A r \in Receivers : r # t => pc[r] = "gone")

LEMMA RingEffect ==
  ASSUME IInv, NEW t \in Threads, Step(t) \/ expire(t)
  PROVE  /\ Claims(t) => ClaimEffect(t)
         /\ write_msg(t) => WriteEffect(t)
         /\ publish(t) => PublishEffect(t)
         /\ Takes(t) => TakeEffect(t)
         /\ read_msg(t) => ReadEffect(t)
         /\ Discards(t) => DiscardEffect(t)
<1>0. /\ CountInv /\ CountInv'
      /\ pc \in [Threads -> SenderPoints \cup ReceiverPoints] /\ pos \in [Threads -> Pos]
      /\ msg \in [Threads -> Messages \cup {None}]
  BY CountStep DEF CountInv, TypeOK
<1>q. FirstOK /\ FirstOK'
  BY <1>0, FirstIs, PTL
<1>r. \A r \in Receivers : r \in Threads /\ own(r) = "receivers"
  BY SidesAssumption DEF Threads, own
<1>t. /\ t \in Senders => pc[t] \in SenderPoints /\ t \notin Receivers
      /\ t \in Receivers => pc[t] \in ReceiverPoints /\ t \notin Senders
      /\ t \in Senders \/ t \in Receivers
  BY <1>0, SidesAssumption DEF CountInv, TypeOK, Threads
<1> USE DEF Goto, Local, MoveTo
<1>s. /\ pc[t] \in {"move_tail", "write"} => t \in Senders
      /\ pc[t] \in {"move_head", "read", "discard"} => t \in Receivers
  BY <1>t DEF SenderPoints, ReceiverPoints, CommonPoints, Asleep
<1>a. ASSUME NEW to, pc' = [pc EXCEPT ![t] = to], pc[t] \in {"write", "publish", "read"},
             to \in {"publish", "notify"}, UNCHANGED <<head, tail, mark>>, Alone(t)
      PROVE  first' = first
  <2>1. pc'[t] = to
    BY <1>0, <1>a
  <2>2. ASSUME NEW r \in Receivers
        PROVE  /\ Inside(r) => Inside(r)'
               /\ pc[r] = "disconnect_chan" => pc'[r] = "disconnect_chan"
               /\ pc[r] \in DrainPoints => pc'[r] \in DrainPoints /\ pos'[r] = pos[r]
               /\ pc[r] \in {"destroy", "free", "gone"} => pc'[r] \in {"destroy", "free", "gone"}
    <3>1. CASE r = t
      BY <1>a, <2>1, <3>1 DEF Inside, LastPoints, DrainPoints
    <3>2. CASE r # t
      BY <1>a, <1>r, <3>2 DEF Alone, Inside
    <3> QED
      BY <3>1, <3>2
  <2> QED
    BY <1>0, <1>a, <2>2, FirstStays
<1>1. ASSUME Claims(t) PROVE ClaimEffect(t)
  <2>1. /\ pc[t] = "move_tail" /\ pc' = [pc EXCEPT ![t] = "write"] /\ tail = pos[t] /\ ~mark
        /\ tail' = advance(tail) /\ UNCHANGED <<head, mark, stamp, slot, pos, msg>>
    BY <1>1 DEF Claims, move_tail
  <2>2. pc'[t] = "write" /\ Alone(t)
    BY <1>0, <2>1 DEF Alone
  <2> QED
    BY <1>q, <1>s, <2>1, <2>2 DEF ClaimEffect, FirstOK
<1>2. ASSUME write_msg(t) PROVE WriteEffect(t)
  <2>1. /\ pc[t] = "write" /\ pc' = [pc EXCEPT ![t] = "publish"]
        /\ slot' = [slot EXCEPT ![index(pos[t])] = msg[t]]
        /\ UNCHANGED <<head, tail, mark, stamp, pos>> /\ msg' = [msg EXCEPT ![t] = None]
    BY <1>2 DEF write_msg
  <2>2. pc'[t] = "publish" /\ Alone(t)
    BY <1>0, <2>1 DEF Alone
  <2> QED
    BY <1>a, <1>s, <2>1, <2>2 DEF WriteEffect
<1>3. ASSUME publish(t) PROVE PublishEffect(t)
  <2>1. /\ pc[t] = "publish" /\ pc' = [pc EXCEPT ![t] = "notify"]
        /\ stamp' = [stamp EXCEPT ![index(pos[t])] = IF t \in Senders THEN pos[t] + 1 ELSE pos[t] + one_lap]
        /\ UNCHANGED <<head, tail, mark, slot>> /\ pos' = [pos EXCEPT ![t] = 0] /\ msg' = [msg EXCEPT ![t] = None]
    BY <1>3 DEF publish
  <2>2. pc'[t] = "notify" /\ Alone(t) /\ msg'[t] = None
    BY <1>0, <2>1 DEF Alone
  <2> QED
    BY <1>a, <2>1, <2>2 DEF PublishEffect
<1>4. ASSUME Takes(t) PROVE TakeEffect(t)
  <2>1. /\ pc[t] = "move_head" /\ pc' = [pc EXCEPT ![t] = "read"] /\ head = pos[t]
        /\ head' = advance(head) /\ UNCHANGED <<tail, mark, stamp, slot, pos, msg>>
    BY <1>4 DEF Takes, move_head
  <2>2. pc'[t] = "read" /\ Alone(t)
    BY <1>0, <2>1 DEF Alone
  <2>3. t \in Receivers /\ Inside(t) /\ Inside(t)'
    BY <1>s, <2>1, <2>2 DEF Inside, LastPoints
  <2> QED
    BY <1>q, <2>1, <2>2, <2>3 DEF TakeEffect, FirstOK
<1>5. ASSUME read_msg(t) PROVE ReadEffect(t)
  <2>1. /\ pc[t] = "read" /\ pc' = [pc EXCEPT ![t] = "publish"]
        /\ slot' = [slot EXCEPT ![index(pos[t])] = None]
        /\ UNCHANGED <<head, tail, mark, stamp>> /\ pos' = [pos EXCEPT ![t] = pos[t]]
        /\ msg' = [msg EXCEPT ![t] = slot[index(pos[t])]]
    BY <1>5 DEF read_msg
  <2>2. pc'[t] = "publish" /\ Alone(t) /\ pos' = pos /\ msg'[t] = slot[index(pos[t])]
    BY <1>0, <2>1 DEF Alone
  <2> QED
    BY <1>a, <1>s, <2>1, <2>2 DEF ReadEffect
<1>6. ASSUME Discards(t) PROVE DiscardEffect(t)
  <2>1. /\ pc[t] = "discard" /\ pc' = [pc EXCEPT ![t] = "discard"] /\ stamp[index(pos[t])] = pos[t] + 1
        /\ slot' = [slot EXCEPT ![index(pos[t])] = None]
        /\ UNCHANGED <<head, tail, mark, stamp, msg>> /\ pos' = [pos EXCEPT ![t] = advance(pos[t])]
    BY <1>6 DEF Discards, discard_all_messages
  <2>2. pc'[t] = "discard" /\ Alone(t) /\ pos'[t] = advance(pos[t])
    BY <1>0, <2>1 DEF Alone
  <2>3. t \in Receivers /\ pc[t] \in DrainPoints /\ pc'[t] \in DrainPoints
    BY <1>s, <2>1, <2>2 DEF DrainPoints
  <2>4. mark /\ \A r \in Receivers : r # t => pc[r] = "gone"
    BY <1>0, <1>r, <2>1, <2>3 DEF CountInv, HandleInv, DestroyInv, LastPoints
  <2> QED
    BY <1>q, <2>1, <2>2, <2>3, <2>4 DEF DiscardEffect, FirstOK, Full
<1> QED
  BY <1>1, <1>2, <1>3, <1>4, <1>5, <1>6

\* What the invariant says of numbers.
LEMMA Numbers ==
  ASSUME IInv
  PROVE  /\ head \in Nat /\ tail \in Nat /\ head \in Pos /\ tail \in Pos /\ one_lap \in Nat /\ 1 < one_lap
         /\ first \in Nat /\ first \in Pos
         /\ \A t \in Threads : pos[t] \in Pos /\ pos[t] \in Nat /\ index(pos[t]) \in Indices
         /\ \A q \in Pos : q \in Nat /\ index(q) \in Indices
<1>1. \A q \in Pos : q \in Nat /\ index(q) \in Indices
  BY Positions
<1>2. head \in Pos /\ tail \in Pos /\ \A t \in Threads : pos[t] \in Pos
  BY DEF IInv, TypeOK
<1>3. first \in Pos
  <2>1. FirstOK
    BY FirstIs DEF IInv, CountInv
  <2> QED
    BY <1>2, <2>1, FirstCases DEF FirstOK, IInv, CountInv, Threads
<1> QED
  BY <1>1, <1>2, <1>3, Sizes

\* A stamp that was found to fit still fits if the position is still there.
LEMMA ClaimFits ==
  ASSUME IInv, NEW t \in Senders, pc[t] = "move_tail", tail = pos[t]
  PROVE  Free(tail) /\ advance(tail) <= head + one_lap
<1>0. /\ tail \in Pos /\ RingInv /\ tail \in Nat /\ head \in Nat /\ one_lap \in Nat /\ 1 < one_lap
      /\ index(tail) \in Indices /\ head \in Pos /\ first \in Nat /\ stamp \in [Indices -> Nat]
  BY Numbers DEF IInv, TypeOK
<1>1. head + one_lap \in Pos /\ tail <= stamp[index(tail)] /\ stamp[index(tail)] \in Nat
  BY <1>0, Positions DEF IInv, LocalInv
<1>2. PICK q \in Pos : index(q) = index(tail) /\ (Free(q) \/ Full(q))
  BY <1>0, <1>1 DEF RingInv
<1>3. q \in Nat /\ (q < tail => q + one_lap <= tail) /\ (tail < q => tail + one_lap <= q)
  BY <1>0, <1>1, <1>2, Positions, Order
<1>4. ~Full(q)
  <2>1. Full(q) => q < tail /\ stamp[index(tail)] = q + 1
    BY <1>0, <1>1, <1>2 DEF RingInv, Full
  <2> QED
    BY <1>0, <1>1, <1>3, <2>1
<1>5. Free(q) /\ q < head + one_lap /\ q = stamp[index(tail)]
  BY <1>0, <1>1, <1>2, <1>4 DEF RingInv, Free
<1>6. q = tail
  <2>1. head <= tail
    BY <1>0 DEF RingInv
  <2> QED
    BY <1>0, <1>1, <1>3, <1>5, <2>1
<1>7. advance(tail) <= head + one_lap
  BY <1>0, <1>1, <1>5, <1>6, Order
<1> QED
  BY <1>5, <1>6, <1>7

LEMMA TakeFits ==
  ASSUME IInv, NEW t \in Receivers, pc[t] = "move_head", head = pos[t]
  PROVE  Full(head) /\ head < tail /\ advance(head) <= tail
<1>0. /\ tail \in Pos /\ RingInv /\ tail \in Nat /\ head \in Nat /\ one_lap \in Nat /\ 1 < one_lap
      /\ index(head) \in Indices /\ head \in Pos /\ stamp \in [Indices -> Nat]
  BY Numbers DEF IInv, TypeOK
<1>1. head + 1 <= stamp[index(head)] /\ stamp[index(head)] \in Nat
  BY <1>0 DEF IInv, LocalInv
<1>2. PICK q \in Pos : index(q) = index(head) /\ (Free(q) \/ Full(q))
  BY <1>0, <1>1 DEF RingInv
<1>3. q \in Nat /\ (q < head => q + one_lap <= head) /\ (head < q => head + one_lap <= q)
  BY <1>0, <1>1, <1>2, Positions, Order
<1>4. ~Free(q)
  <2>1. Free(q) => q < head + one_lap /\ stamp[index(head)] = q
    BY <1>0, <1>1, <1>2 DEF RingInv, Free
  <2> QED
    BY <1>0, <1>1, <1>3, <2>1
<1>5. Full(q) /\ q < tail /\ q + 1 = stamp[index(head)] /\ tail <= head + one_lap
  BY <1>0, <1>1, <1>2, <1>4 DEF RingInv, Full
<1>6. q = head
  BY <1>0, <1>1, <1>3, <1>5
<1>7. advance(head) <= tail
  BY <1>0, <1>1, <1>5, <1>6, Order
<1> QED
  BY <1>5, <1>6, <1>7

LEMMA ClaimKeeps ==
  ASSUME IInv, NEW t \in Threads, ClaimEffect(t)
  PROVE  RingInv' /\ ClaimInv' /\ SlotInv'
<1>0. RingInv /\ ClaimInv /\ SlotInv
  BY DEF IInv
<1>1. /\ t \in Senders /\ pc[t] = "move_tail" /\ pc'[t] = "write" /\ tail = pos[t]
      /\ tail' = advance(tail) /\ first = head /\ first' = head
      /\ head' = head /\ stamp' = stamp /\ slot' = slot /\ pos' = pos
      /\ \A u \in Threads : u # t => pc'[u] = pc[u]
  BY DEF ClaimEffect, Alone
<1>2. Free(tail) /\ advance(tail) <= head + one_lap
  BY <1>1, ClaimFits
<1>3. tail < tail' /\ tail' \in Pos /\ tail' \in Nat /\ (\A q \in Pos : q < tail' <=> q < tail \/ q = tail)
  <2>1. tail < tail' /\ tail' \in Pos /\ tail' \in Nat
    BY <1>1, Numbers, Positions
  <2>2. \A q \in Pos : tail < q => tail' <= q
    BY <1>1, Numbers, Order
  <2> QED
    BY <2>1, <2>2, Numbers
<1>4. \A q \in Pos : (Free(q)' <=> Free(q)) /\ (Full(q)' <=> Full(q))
  BY <1>1 DEF Free, Full
<1>5. \A u \in Threads : Claimer(u)' <=> Claimer(u) \/ u = t
  BY <1>1 DEF Claimer
<1>6. RingInv'
  <2>1. head' <= first' /\ first' <= tail' /\ tail' <= head' + one_lap
    BY <1>0, <1>1, <1>2, <1>3, Numbers DEF RingInv
  <2>2. ASSUME NEW q \in Pos, Free(q)
        PROVE  q < head + one_lap /\ (q < tail' => \E u \in Senders : Claimer(u)' /\ pos[u] = q)
    BY <1>0, <1>1, <1>3, <1>5, <2>2 DEF RingInv, Threads
  <2>3. ASSUME NEW q \in Pos, Full(q)
        PROVE  /\ q < tail' /\ tail' <= q + one_lap
               /\ q < head => \E u \in Receivers : Claimer(u)' /\ pos[u] = q
    <3>1. q < tail /\ tail <= q + one_lap /\ (q < head => \E u \in Receivers : Claimer(u) /\ pos[u] = q)
      BY <1>0, <2>3 DEF RingInv
    <3>2. tail # q + one_lap
      BY <1>2, <2>3, SlotShows, Positions, Numbers
    <3>3. tail' <= q + one_lap
      <4>1. tail < q + one_lap /\ q + one_lap \in Pos
        <5>1. q \in Nat /\ q + one_lap \in Pos /\ q + one_lap \in Nat /\ tail \in Nat
          BY Numbers, Positions
        <5> QED
          BY <3>1, <3>2, <5>1
      <4> QED
        BY <1>1, <4>1, Numbers, Order
    <3> QED
      BY <1>3, <1>5, <3>1, <3>3 DEF Threads
  <2> QED
    BY <1>0, <1>1, <1>4, <2>1, <2>2, <2>3 DEF RingInv
<1>7. ClaimInv'
  <2>1. ASSUME NEW u \in Senders, Claimer(u)' PROVE first' <= pos[u] /\ pos[u] < tail' /\ Free(pos[u])
    <3>1. CASE u = t
      BY <1>0, <1>1, <1>2, <1>3, <3>1 DEF RingInv
    <3>2. CASE u # t
      BY <1>0, <1>1, <1>3, <1>5, <2>1, <3>2, Numbers DEF ClaimInv, Threads
    <3> QED
      BY <3>1, <3>2
  <2>2. ASSUME NEW u \in Receivers, Claimer(u)' PROVE pos[u] < head /\ Full(pos[u])
    BY <1>0, <1>1, <1>5, <2>2, SidesAssumption DEF ClaimInv, Threads
  <2>3. ASSUME NEW u \in Threads, u # t, Claimer(u)' PROVE pos[u] # tail
    <3>1. pos[u] < tail \/ pos[u] < head
      BY <1>0, <1>5, <2>3 DEF ClaimInv, Threads
    <3> QED
      BY <1>0, <1>1, <3>1, Numbers DEF RingInv
  <2>4. ASSUME NEW u \in Threads, NEW v \in Threads, Claimer(u)', Claimer(v)', pos[u] = pos[v] PROVE u = v
    BY <1>0, <1>1, <1>5, <2>3, <2>4 DEF ClaimInv
  <2>5. \A u \in Threads : (Free(pos[u])' <=> Free(pos[u])) /\ (Full(pos[u])' <=> Full(pos[u]))
    BY <1>1 DEF Free, Full
  <2> QED
    BY <1>1, <2>1, <2>2, <2>4, <2>5 DEF ClaimInv, Threads
<1>8. SlotInv'
  <2>1. \A u \in Threads : (pc'[u] = "publish" <=> pc[u] = "publish") /\ (pc'[u] = "read" <=> pc[u] = "read")
    BY <1>1
  <2> QED
    BY <1>0, <1>1, <1>4, <2>1 DEF SlotInv, Threads
<1> QED
  BY <1>6, <1>7, <1>8

\* Claimed positions have slots of their own.
LEMMA OneClaimer ==
  ASSUME IInv, NEW t \in Threads, NEW u \in Threads, Claimer(t), Claimer(u), index(pos[t]) = index(pos[u])
  PROVE  t = u
<1>1. /\ t \in Senders => Free(pos[t])
      /\ t \in Receivers => Full(pos[t])
      /\ u \in Senders => Free(pos[u])
      /\ u \in Receivers => Full(pos[u])
      /\ pos[t] = pos[u] => t = u
  BY DEF IInv, ClaimInv
<1>2. pos[t] \in Pos /\ pos[u] \in Pos
  BY Numbers
<1> QED
  BY <1>1, <1>2, SlotShows DEF Threads

LEMMA WriteKeeps ==
  ASSUME IInv, NEW t \in Threads, WriteEffect(t)
  PROVE  RingInv' /\ ClaimInv' /\ SlotInv'
<1>0. RingInv /\ ClaimInv /\ SlotInv
  BY DEF IInv
<1>1. /\ t \in Senders /\ pc[t] = "write" /\ pc'[t] = "publish"
      /\ slot' = [slot EXCEPT ![index(pos[t])] = msg[t]]
      /\ first' = first /\ head' = head /\ tail' = tail /\ stamp' = stamp /\ pos' = pos
      /\ \A u \in Threads : u # t => pc'[u] = pc[u]
  BY DEF WriteEffect, Alone
<1>2. \A q \in Pos : (Free(q)' <=> Free(q)) /\ (Full(q)' <=> Full(q))
  BY <1>1 DEF Free, Full
<1>3. \A u \in Threads : Claimer(u)' <=> Claimer(u)
  BY <1>1 DEF Claimer
<1>4. RingInv'
  BY <1>0, <1>1, <1>2, <1>3 DEF RingInv, Threads
<1>5. ClaimInv'
  <2>1. \A u \in Threads : pos[u] \in Pos
    BY Numbers
  <2> QED
    BY <1>0, <1>1, <1>2, <1>3, <2>1 DEF ClaimInv, Threads
<1>6. SlotInv'
  <2>1. msg[t] # None /\ pos[t] \in Pos /\ index(pos[t]) \in Indices /\ Free(pos[t]) /\ slot \in [Indices -> Messages \cup {None}]
    BY <1>0, <1>1, Numbers DEF ClaimInv, Claimer, IInv, LocalInv, TypeOK
  <2>2. ASSUME NEW q \in Pos, Free(q)
        PROVE  slot'[index(q)] # None <=> \E u \in Senders : pc'[u] = "publish" /\ pos[u] = q
    <3>1. CASE index(q) = index(pos[t])
      <4>1. q = pos[t]
        BY <2>1, <2>2, <3>1, SlotShows
      <4> QED
        BY <1>1, <2>1, <4>1
    <3>2. CASE index(q) # index(pos[t])
      <4>1. slot'[index(q)] = slot[index(q)] /\ q # pos[t]
        BY <1>1, <2>1, <3>2, Numbers
      <4> QED
        BY <1>0, <1>1, <2>2, <4>1 DEF SlotInv, Threads
    <3> QED
      BY <3>1, <3>2
  <2>3. ASSUME NEW q \in Pos, Full(q)
        PROVE  slot'[index(q)] # None <=> first <= q \/ \E u \in Receivers : pc'[u] = "read" /\ pos[u] = q
    <3>1. index(q) # index(pos[t])
      BY <2>1, <2>3, SlotShows
    <3>2. slot'[index(q)] = slot[index(q)]
      BY <1>1, <2>1, <3>1, Numbers
    <3>3. \A u \in Threads : pc'[u] = "read" <=> pc[u] = "read"
      BY <1>1
    <3> QED
      BY <1>0, <2>3, <3>2, <3>3 DEF SlotInv, Threads
  <2> QED
    BY <1>1, <1>2, <2>2, <2>3 DEF SlotInv
<1> QED
  BY <1>4, <1>5, <1>6

LEMMA ReadKeeps ==
  ASSUME IInv, NEW t \in Threads, ReadEffect(t)
  PROVE  RingInv' /\ ClaimInv' /\ SlotInv'
<1>0. RingInv /\ ClaimInv /\ SlotInv
  BY DEF IInv
<1>1. /\ t \in Receivers /\ pc[t] = "read" /\ pc'[t] = "publish"
      /\ slot' = [slot EXCEPT ![index(pos[t])] = None]
      /\ first' = first /\ head' = head /\ tail' = tail /\ stamp' = stamp /\ pos' = pos
      /\ \A u \in Threads : u # t => pc'[u] = pc[u]
  BY DEF ReadEffect, Alone
<1>2. \A q \in Pos : (Free(q)' <=> Free(q)) /\ (Full(q)' <=> Full(q))
  BY <1>1 DEF Free, Full
<1>3. \A u \in Threads : Claimer(u)' <=> Claimer(u)
  BY <1>1 DEF Claimer
<1>4. RingInv'
  BY <1>0, <1>1, <1>2, <1>3 DEF RingInv, Threads
<1>5. ClaimInv'
  <2>1. \A u \in Threads : pos[u] \in Pos
    BY Numbers
  <2> QED
    BY <1>0, <1>1, <1>2, <1>3, <2>1 DEF ClaimInv, Threads
<1>6. SlotInv'
  <2>1. /\ pos[t] \in Pos /\ index(pos[t]) \in Indices /\ Full(pos[t]) /\ pos[t] < head
        /\ slot \in [Indices -> Messages \cup {None}]
    BY <1>0, <1>1, Numbers DEF ClaimInv, Claimer, IInv, TypeOK
  <2>2. ASSUME NEW q \in Pos, Free(q)
        PROVE  slot'[index(q)] # None <=> \E u \in Senders : pc'[u] = "publish" /\ pos[u] = q
    <3>1. index(q) # index(pos[t])
      BY <2>1, <2>2, SlotShows
    <3>2. slot'[index(q)] = slot[index(q)]
      BY <1>1, <2>1, <3>1, Numbers
    <3>3. \A u \in Senders : pc'[u] = pc[u]
      BY <1>1, SidesAssumption DEF Threads
    <3> QED
      BY <1>0, <2>2, <3>2, <3>3 DEF SlotInv
  <2>3. ASSUME NEW q \in Pos, Full(q)
        PROVE  slot'[index(q)] # None <=> first <= q \/ \E u \in Receivers : pc'[u] = "read" /\ pos[u] = q
    <3>1. CASE index(q) = index(pos[t])
      <4>1. q = pos[t] /\ slot'[index(q)] = None
        BY <1>1, <2>1, <2>3, <3>1, SlotShows
      <4>2. ~(first <= q)
        BY <1>0, <2>1, <4>1, Numbers DEF RingInv
      <4>3. ASSUME NEW u \in Receivers, pc'[u] = "read", pos[u] = q PROVE FALSE
        <5>1. u # t /\ Claimer(u) /\ Claimer(t) /\ u \in Threads
          BY <1>1, <4>3 DEF Claimer, Threads
        <5> QED
          BY <4>1, <4>3, <5>1, OneClaimer
      <4> QED
        BY <4>1, <4>2, <4>3
    <3>2. CASE index(q) # index(pos[t])
      <4>1. slot'[index(q)] = slot[index(q)] /\ q # pos[t]
        BY <1>1, <2>1, <3>2, Numbers
      <4> QED
        BY <1>0, <1>1, <2>3, <4>1 DEF SlotInv, Threads
    <3> QED
      BY <3>1, <3>2
  <2> QED
    BY <1>1, <1>2, <2>2, <2>3 DEF SlotInv
<1> QED
  BY <1>4, <1>5, <1>6

LEMMA TakeKeeps ==
  ASSUME IInv, NEW t \in Threads, TakeEffect(t)
  PROVE  RingInv' /\ ClaimInv' /\ SlotInv'
<1>0. RingInv /\ ClaimInv /\ SlotInv
  BY DEF IInv
<1>1. /\ t \in Receivers /\ pc[t] = "move_head" /\ pc'[t] = "read" /\ head = pos[t]
      /\ head' = advance(head) /\ first = head /\ first' = head'
      /\ tail' = tail /\ stamp' = stamp /\ slot' = slot /\ pos' = pos
      /\ \A u \in Threads : u # t => pc'[u] = pc[u]
  BY DEF TakeEffect, Alone
<1>2. Full(head) /\ head < tail /\ advance(head) <= tail
  BY <1>1, TakeFits
<1>3. head < head' /\ head' \in Pos /\ head' \in Nat /\ \A q \in Pos : q < head' <=> q < head \/ q = head
  <2>1. head < head' /\ head' \in Pos /\ head' \in Nat
    BY <1>1, Numbers, Positions
  <2>2. \A q \in Pos : head < q => head' <= q
    BY <1>1, Numbers, Order
  <2> QED
    BY <2>1, <2>2, Numbers
<1>4. \A q \in Pos : (Free(q)' <=> Free(q)) /\ (Full(q)' <=> Full(q))
  BY <1>1 DEF Free, Full
<1>5. \A u \in Threads : Claimer(u)' <=> Claimer(u) \/ u = t
  BY <1>1 DEF Claimer
<1>6. RingInv'
  <2>1. head' <= first' /\ first' <= tail' /\ tail' <= head' + one_lap
    BY <1>0, <1>1, <1>2, <1>3, Numbers DEF RingInv
  <2>2. ASSUME NEW q \in Pos, Free(q)
        PROVE  q < head' + one_lap /\ (q < tail => \E u \in Senders : Claimer(u)' /\ pos[u] = q)
    <3>1. q < head + one_lap /\ (q < tail => \E u \in Senders : Claimer(u) /\ pos[u] = q)
      BY <1>0, <2>2 DEF RingInv
    <3> QED
      BY <1>3, <1>5, <3>1, Numbers DEF Threads
  <2>3. ASSUME NEW q \in Pos, Full(q)
        PROVE  /\ q < tail /\ tail <= q + one_lap
               /\ q < head' => \E u \in Receivers : Claimer(u)' /\ pos[u] = q
    BY <1>0, <1>1, <1>3, <1>5, <2>3 DEF RingInv, Threads
  <2> QED
    BY <1>0, <1>1, <1>4, <2>1, <2>2, <2>3 DEF RingInv
<1>7. ClaimInv'
  <2>1. ASSUME NEW u \in Senders, Claimer(u)' PROVE first' <= pos[u] /\ pos[u] < tail /\ Free(pos[u])
    <3>1. first <= pos[u] /\ pos[u] < tail /\ Free(pos[u]) /\ pos[u] \in Pos /\ pos[u] \in Nat
      BY <1>0, <1>1, <1>5, <2>1, SidesAssumption, Numbers DEF ClaimInv, Threads
    <3>2. pos[u] # head
      BY <1>2, <3>1, SlotShows
    <3> QED
      BY <1>1, <1>3, <3>1, <3>2, Numbers
  <2>2. ASSUME NEW u \in Receivers, Claimer(u)' PROVE pos[u] < head' /\ Full(pos[u])
    <3>1. CASE u = t
      BY <1>1, <1>2, <1>3, <3>1
    <3>2. CASE u # t
      BY <1>0, <1>3, <1>5, <2>2, <3>2, Numbers DEF ClaimInv, Threads
    <3> QED
      BY <3>1, <3>2
  <2>3. ASSUME NEW u \in Threads, u # t, Claimer(u)' PROVE pos[u] # head
    <3>1. Free(pos[u]) \/ pos[u] < head
      BY <1>0, <1>5, <2>3 DEF ClaimInv, Threads
    <3> QED
      BY <1>2, <3>1, Numbers, SlotShows
  <2>4. ASSUME NEW u \in Threads, NEW v \in Threads, Claimer(u)', Claimer(v)', pos[u] = pos[v] PROVE u = v
    BY <1>0, <1>1, <1>5, <2>3, <2>4 DEF ClaimInv
  <2>5. \A u \in Threads : (Free(pos[u])' <=> Free(pos[u])) /\ (Full(pos[u])' <=> Full(pos[u]))
    BY <1>1 DEF Free, Full
  <2> QED
    BY <1>1, <2>1, <2>2, <2>4, <2>5 DEF ClaimInv, Threads
<1>8. SlotInv'
  <2>1. \A u \in Threads : pc'[u] = "publish" <=> pc[u] = "publish"
    BY <1>1
  <2>2. ASSUME NEW q \in Pos, Full(q)
        PROVE  /\ first <= q \/ (\E u \in Receivers : pc[u] = "read" /\ pos[u] = q)
                  <=> first' <= q \/ (\E u \in Receivers : pc'[u] = "read" /\ pos[u] = q)
    <3>1. CASE q = head
      BY <1>1, <3>1, Numbers
    <3>2. CASE q # head
      <4>1. first <= q <=> first' <= q
        BY <1>1, <1>3, <3>2, Numbers
      <4> QED
        BY <1>1, <3>2, <4>1 DEF Threads
    <3> QED
      BY <3>1, <3>2
  <2> QED
    BY <1>0, <1>1, <1>4, <2>1, <2>2 DEF SlotInv, Threads
<1> QED
  BY <1>6, <1>7, <1>8

LEMMA PublishKeeps ==
  ASSUME IInv, NEW t \in Threads, PublishEffect(t)
  PROVE  RingInv' /\ ClaimInv' /\ SlotInv'
<1>0. RingInv /\ ClaimInv /\ SlotInv
  BY DEF IInv
<1> DEFINE p == pos[t]
           n == IF t \in Senders THEN p + 1 ELSE p + one_lap
<1>1. /\ pc[t] = "publish" /\ pc'[t] = "notify" /\ Claimer(t)
      /\ stamp' = [stamp EXCEPT ![index(p)] = n]
      /\ first' = first /\ head' = head /\ tail' = tail /\ slot' = slot
      /\ \A u \in Threads : u # t => pc'[u] = pc[u] /\ pos'[u] = pos[u]
  BY DEF PublishEffect, Alone, Claimer
<1>2. /\ p \in Pos /\ p \in Nat /\ index(p) \in Indices /\ stamp \in [Indices -> Nat] /\ one_lap \in Nat
      /\ p + one_lap \in Pos /\ index(p + one_lap) = index(p)
  BY Numbers, Positions DEF IInv, TypeOK
<1>3. /\ stamp'[index(p)] = n
      /\ \A q \in Pos : index(q) # index(p) => stamp'[index(q)] = stamp[index(q)]
  BY <1>1, <1>2, Numbers
<1> HIDE DEF n
\* The other slots, and the other claimers.
<1>4. \A q \in Pos : index(q) # index(p) => (Free(q)' <=> Free(q)) /\ (Full(q)' <=> Full(q)) /\ q # p
  BY <1>3 DEF Free, Full
<1>5. \A u \in Threads : Claimer(u)' <=> Claimer(u) /\ u # t
  BY <1>1 DEF Claimer
<1>6. \A u \in Threads : Claimer(u)' => index(pos[u]) # index(p) /\ pos'[u] = pos[u] /\ pos[u] \in Pos /\ u # t /\ Claimer(u)
  BY <1>1, <1>5, OneClaimer, Numbers
<1>7. ClaimInv'
  BY <1>0, <1>1, <1>4, <1>6 DEF ClaimInv, Threads
<1>8. \A q \in Pos : index(q) # index(p) =>
        /\ \A u \in Threads : Claimer(u)' /\ pos'[u] = q <=> Claimer(u) /\ pos[u] = q
        /\ \A u \in Threads : pc'[u] = "publish" /\ pos'[u] = q <=> pc[u] = "publish" /\ pos[u] = q
        /\ \A u \in Threads : pc'[u] = "read" /\ pos'[u] = q <=> pc[u] = "read" /\ pos[u] = q
  BY <1>1 DEF Claimer
<1>9. CASE t \in Senders
  <2>1. n = p + 1 /\ Free(p) /\ first <= p /\ p < tail
    BY <1>0, <1>1, <1>9 DEF ClaimInv, n
  <2>2. \A q \in Pos : index(q) = index(p) => ~Free(q)' /\ (Full(q)' <=> q = p)
    BY <1>2, <1>3, <2>1, SlotShows, Numbers DEF Free, Full
  <2>3. head <= p /\ tail <= p + one_lap
    BY <1>0, <1>2, <2>1, Numbers DEF RingInv
  <2>4. RingInv'
    <3>1. \A i \in Indices : \E q \in Pos : index(q) = i /\ (Free(q)' \/ Full(q)')
      BY <1>0, <1>2, <1>4, <2>2 DEF RingInv
    <3>2. ASSUME NEW q \in Pos, Free(q)'
          PROVE  /\ q < head + one_lap
                 /\ q < tail => \E u \in Senders : Claimer(u)' /\ pos'[u] = q
      <4>1. index(q) # index(p)
        BY <2>2, <3>2
      <4> QED
        BY <1>0, <1>4, <1>8, <3>2, <4>1 DEF RingInv, Threads
    <3>3. ASSUME NEW q \in Pos, Full(q)'
          PROVE  /\ q < tail /\ tail <= q + one_lap
                 /\ q < head => \E u \in Receivers : Claimer(u)' /\ pos'[u] = q
      <4>1. CASE index(q) = index(p)
        BY <1>2, <2>1, <2>2, <2>3, <3>3, <4>1, Numbers
      <4>2. CASE index(q) # index(p)
        BY <1>0, <1>4, <1>8, <3>3, <4>2 DEF RingInv, Threads
      <4> QED
        BY <4>1, <4>2
    <3> QED
      BY <1>0, <1>1, <3>1, <3>2, <3>3 DEF RingInv
  <2>5. SlotInv'
    <3>1. ASSUME NEW q \in Pos, Free(q)'
          PROVE  slot[index(q)] # None <=> \E u \in Senders : pc'[u] = "publish" /\ pos'[u] = q
      <4>1. index(q) # index(p)
        BY <2>2, <3>1
      <4> QED
        BY <1>0, <1>4, <1>8, <3>1, <4>1 DEF SlotInv, Threads
    <3>2. ASSUME NEW q \in Pos, Full(q)'
          PROVE  slot[index(q)] # None <=> first <= q \/ \E u \in Receivers : pc'[u] = "read" /\ pos'[u] = q
      <4>1. CASE index(q) = index(p)
        <5>1. q = p /\ slot[index(p)] # None
          BY <1>0, <1>1, <1>2, <1>9, <2>1, <2>2, <3>2, <4>1 DEF SlotInv
        <5> QED
          BY <2>1, <5>1
      <4>2. CASE index(q) # index(p)
        BY <1>0, <1>4, <1>8, <3>2, <4>2 DEF SlotInv, Threads
      <4> QED
        BY <4>1, <4>2
    <3> QED
      BY <1>1, <3>1, <3>2 DEF SlotInv
  <2> QED
    BY <1>7, <2>4, <2>5
<1>10. CASE t \notin Senders
  <2>0. t \in Receivers
    BY <1>10 DEF Threads
  <2>1. n = p + one_lap /\ Full(p) /\ p < head /\ p < tail /\ tail <= p + one_lap /\ head <= first
    BY <1>0, <1>1, <1>2, <1>10, <2>0 DEF ClaimInv, RingInv, n
  <2>2. \A q \in Pos : index(q) = index(p) => (Free(q)' <=> q = p + one_lap) /\ ~Full(q)'
    BY <1>2, <1>3, <2>1, SlotShows, Numbers DEF Free, Full
  <2>3. p + one_lap < head + one_lap /\ ~(p + one_lap < tail) /\ ~(first <= p)
    BY <1>2, <2>1, Numbers
  <2>4. RingInv'
    <3>1. \A i \in Indices : \E q \in Pos : index(q) = i /\ (Free(q)' \/ Full(q)')
      BY <1>0, <1>2, <1>4, <2>2 DEF RingInv
    <3>2. ASSUME NEW q \in Pos, Free(q)'
          PROVE  /\ q < head + one_lap
                 /\ q < tail => \E u \in Senders : Claimer(u)' /\ pos'[u] = q
      <4>1. CASE index(q) = index(p)
        BY <2>2, <2>3, <3>2, <4>1
      <4>2. CASE index(q) # index(p)
        BY <1>0, <1>4, <1>8, <3>2, <4>2 DEF RingInv, Threads
      <4> QED
        BY <4>1, <4>2
    <3>3. ASSUME NEW q \in Pos, Full(q)'
          PROVE  /\ q < tail /\ tail <= q + one_lap
                 /\ q < head => \E u \in Receivers : Claimer(u)' /\ pos'[u] = q
      <4>1. index(q) # index(p)
        BY <2>2, <3>3
      <4> QED
        BY <1>0, <1>4, <1>8, <3>3, <4>1 DEF RingInv, Threads
    <3> QED
      BY <1>0, <1>1, <3>1, <3>2, <3>3 DEF RingInv
  <2>5. SlotInv'
    <3>1. ASSUME NEW q \in Pos, Free(q)'
          PROVE  slot[index(q)] # None <=> \E u \in Senders : pc'[u] = "publish" /\ pos'[u] = q
      <4>1. CASE index(q) = index(p)
        <5>1. ~\E u \in Receivers : pc[u] = "read" /\ pos[u] = p
          <6>1. ASSUME NEW u \in Receivers, pc[u] = "read", pos[u] = p PROVE FALSE
            <7>1. u \in Threads /\ Claimer(u)
              BY <6>1 DEF Claimer, Threads
            <7>2. u = t
              BY <1>1, <6>1, <7>1, OneClaimer
            <7> QED
              BY <1>1, <6>1, <7>2
          <6> QED
            BY <6>1
        <5>2. slot[index(p)] = None
          BY <1>0, <1>2, <2>1, <2>3, <5>1 DEF SlotInv
        <5>3. ASSUME NEW u \in Senders, pc'[u] = "publish", pos'[u] = q PROVE FALSE
          <6>1. u \in Threads /\ Claimer(u)'
            BY <5>3 DEF Claimer, Threads
          <6> QED
            BY <1>6, <4>1, <5>3, <6>1
        <5> QED
          BY <4>1, <5>2, <5>3
      <4>2. CASE index(q) # index(p)
        BY <1>0, <1>4, <1>8, <3>1, <4>2 DEF SlotInv, Threads
      <4> QED
        BY <4>1, <4>2
    <3>2. ASSUME NEW q \in Pos, Full(q)'
          PROVE  slot[index(q)] # None <=> first <= q \/ \E u \in Receivers : pc'[u] = "read" /\ pos'[u] = q
      <4>1. index(q) # index(p)
        BY <2>2, <3>2
      <4> QED
        BY <1>0, <1>4, <1>8, <3>2, <4>1 DEF SlotInv, Threads
    <3> QED
      BY <1>1, <3>1, <3>2 DEF SlotInv
  <2> QED
    BY <1>7, <2>4, <2>5
<1> QED
  BY <1>9, <1>10

LEMMA DiscardKeeps ==
  ASSUME IInv, NEW t \in Threads, DiscardEffect(t)
  PROVE  RingInv' /\ ClaimInv' /\ SlotInv'
<1>0. RingInv /\ ClaimInv /\ SlotInv
  BY DEF IInv
<1> DEFINE p == pos[t]
<1>1. /\ t \in Receivers /\ pc[t] = "discard" /\ pc'[t] = "discard" /\ Full(p)
      /\ slot' = [slot EXCEPT ![index(p)] = None]
      /\ first = p /\ first' = advance(p)
      /\ head' = head /\ tail' = tail /\ stamp' = stamp
      /\ \A u \in Threads : u # t => pc'[u] = pc[u] /\ pos'[u] = pos[u]
      /\ \A r \in Receivers : r # t => pc[r] = "gone"
  BY DEF DiscardEffect, Alone
<1>2. /\ p \in Pos /\ p \in Nat /\ index(p) \in Indices /\ slot \in [Indices -> Messages \cup {None}]
      /\ p < first' /\ first' \in Pos /\ first' \in Nat /\ p < tail
  BY <1>0, <1>1, Numbers, Positions DEF IInv, TypeOK, RingInv
<1>3. \A q \in Pos : first <= q /\ q # p => first' <= q
  BY <1>1, <1>2, Order, Numbers
<1>4. \A q \in Pos : (Free(q)' <=> Free(q)) /\ (Full(q)' <=> Full(q))
  BY <1>1 DEF Free, Full
<1>5. \A u \in Threads : (Claimer(u)' <=> Claimer(u)) /\ (Claimer(u) => pos'[u] = pos[u] /\ pc'[u] = pc[u])
  BY <1>1 DEF Claimer
<1>6. \A u \in Threads, q \in Pos :
        /\ Claimer(u)' /\ pos'[u] = q <=> Claimer(u) /\ pos[u] = q
        /\ pc'[u] = "publish" /\ pos'[u] = q <=> pc[u] = "publish" /\ pos[u] = q
  BY <1>1, <1>5 DEF Claimer
<1>7. RingInv'
  <2>1. head <= first' /\ first' <= tail
    BY <1>0, <1>1, <1>2, <1>3, Numbers DEF RingInv
  <2> QED
    BY <1>0, <1>1, <1>4, <1>6, <2>1 DEF RingInv, Threads
<1>8. ClaimInv'
  <2>1. ASSUME NEW u \in Senders, Claimer(u) PROVE first' <= pos[u]
    <3>1. first <= pos[u] /\ Free(pos[u]) /\ pos[u] \in Pos
      BY <1>0, <2>1, Numbers DEF ClaimInv, Threads
    <3>2. pos[u] # p
      BY <1>1, <3>1, SlotShows
    <3> QED
      BY <1>3, <3>1, <3>2
  <2>2. \A u \in Threads : pos[u] \in Pos
    BY Numbers
  <2> QED
    BY <1>0, <1>1, <1>4, <1>5, <2>1, <2>2 DEF ClaimInv, Threads
<1>9. SlotInv'
  <2>1. ASSUME NEW q \in Pos, Free(q)
        PROVE  slot'[index(q)] # None <=> \E u \in Senders : pc'[u] = "publish" /\ pos'[u] = q
    <3>1. index(q) # index(p)
      BY <1>1, <1>2, <2>1, SlotShows
    <3>2. slot'[index(q)] = slot[index(q)]
      BY <1>1, <1>2, <3>1, Numbers
    <3> QED
      BY <1>0, <1>6, <2>1, <3>2 DEF SlotInv, Threads
  <2>2. ASSUME NEW q \in Pos, Full(q)
        PROVE  slot'[index(q)] # None <=> first' <= q \/ \E u \in Receivers : pc'[u] = "read" /\ pos'[u] = q
    <3>1. \A u \in Receivers : pc'[u] # "read" /\ pc[u] # "read"
      BY <1>1 DEF Threads
    <3>2. CASE index(q) = index(p)
      <4>1. q = p /\ slot'[index(q)] = None
        BY <1>1, <1>2, <2>2, <3>2, SlotShows
      <4> QED
        BY <1>2, <3>1, <4>1
    <3>3. CASE index(q) # index(p)
      <4>1. slot'[index(q)] = slot[index(q)] /\ q # p
        BY <1>1, <1>2, <3>3, Numbers
      <4>2. first' <= q <=> first <= q
        BY <1>1, <1>2, <1>3, <4>1, Numbers
      <4> QED
        BY <1>0, <2>2, <3>1, <4>1, <4>2 DEF SlotInv
    <3> QED
      BY <3>2, <3>3
  <2> QED
    BY <1>4, <2>1, <2>2 DEF SlotInv
<1> QED
  BY <1>7, <1>8, <1>9

LEMMA RingStep ==
  ASSUME IInv, NEW t \in Threads, Step(t) \/ expire(t)
  PROVE  RingInv' /\ ClaimInv' /\ SlotInv'
BY StepQuiet, RingEffect, QuietKeeps, ClaimKeeps, WriteKeeps, PublishKeeps, TakeKeeps, ReadKeeps, DiscardKeeps

-----------------------------------------------------------------------------
(***************************************************************************)
(* The local copies                                                        *)
(***************************************************************************)
\* The head, the tail and the stamps only grow, and the threads but t stay.
Grows(t) ==
  /\ head <= head' /\ tail <= tail' /\ Alone(t)
  /\ \A q \in Pos : stamp[index(q)] <= stamp'[index(q)]

LEMMA StepGrows ==
  ASSUME IInv, NEW t \in Threads, Step(t) \/ expire(t)
  PROVE  Grows(t)
<1>0. /\ head \in Nat /\ tail \in Nat /\ stamp \in [Indices -> Nat]
      /\ \A q \in Pos : index(q) \in Indices /\ stamp[index(q)] \in Nat
      /\ head < advance(head) /\ tail < advance(tail) /\ advance(head) \in Nat /\ advance(tail) \in Nat
  BY Numbers, Positions DEF IInv, TypeOK
<1>1. CASE ~publish(t)
  <2>1. /\ head' = head \/ head' = advance(head)
        /\ tail' = tail \/ tail' = advance(tail)
        /\ stamp' = stamp /\ Alone(t)
    BY <1>1, StepQuiet, RingEffect DEF Quiet, ClaimEffect, WriteEffect, TakeEffect, ReadEffect, DiscardEffect
  <2> QED
    BY <1>0, <2>1 DEF Grows
<1>2. CASE publish(t)
  <2> DEFINE p == pos[t]
             n == IF t \in Senders THEN p + 1 ELSE p + one_lap
  <2>1. stamp' = [stamp EXCEPT ![index(p)] = n] /\ head' = head /\ tail' = tail /\ Alone(t) /\ pc[t] = "publish"
    BY <1>2, RingEffect DEF PublishEffect
  <2>2. p \in Nat /\ index(p) \in Indices /\ one_lap \in Nat /\ 1 < one_lap
    BY Numbers
  <2>3. stamp[index(p)] <= n
    <3>1. IF t \in Senders THEN Free(p) ELSE Full(p)
      BY <2>1 DEF IInv, ClaimInv, Claimer, Threads
    <3> QED
      BY <2>2, <3>1 DEF Free, Full
  <2> HIDE DEF n
  <2> QED
    BY <1>0, <2>1, <2>2, <2>3 DEF Grows
<1> QED
  BY <1>1, <1>2

LEMMA LocalStep ==
  ASSUME IInv, NEW t \in Threads, Step(t) \/ expire(t)
  PROVE  LocalInv'
<1>0. Grows(t) /\ LocalInv /\ TypeOK /\ TypeOK'
  BY StepGrows, TypeStep DEF IInv
<1>d. ~(t \in Senders /\ t \in Receivers) /\ (t \in Senders \/ t \in Receivers)
  BY SidesAssumption DEF Threads
<1>n. /\ head \in Nat /\ tail \in Nat /\ head' \in Nat /\ tail' \in Nat
      /\ \A q \in Pos : index(q) \in Indices /\ q \in Nat /\ stamp[index(q)] \in Nat /\ stamp'[index(q)] \in Nat
      /\ \A u \in Threads : pos[u] \in Pos
  BY <1>0, Positions DEF TypeOK
\* For the other threads.
<1>a. ASSUME NEW u \in Senders, u # t
      PROVE  /\ pc'[u] \in {"load_stamp", "move_tail", "load_head"} => pos'[u] <= tail'
             /\ pc'[u] = "move_tail" => pos'[u] <= stamp'[index(pos'[u])]
             /\ pc'[u] \in {"load_tail", "load_stamp", "move_tail", "load_head", "write", "refused"} \cup Asleep
                  => msg'[u] # None
  <2>1. pc'[u] = pc[u] /\ pos'[u] = pos[u] /\ msg'[u] = msg[u] /\ pos[u] \in Pos /\ u \in Threads
    BY <1>0, <1>a, <1>n DEF Grows, Alone, Threads
  <2>2. pos[u] \in Nat /\ stamp[index(pos[u])] \in Nat /\ stamp'[index(pos[u])] \in Nat
        /\ stamp[index(pos[u])] <= stamp'[index(pos[u])] /\ tail <= tail'
    BY <1>0, <1>n, <2>1 DEF Grows
  <2> QED
    BY <1>0, <1>n, <2>1, <2>2 DEF LocalInv
<1>b. ASSUME NEW u \in Receivers, u # t
      PROVE  /\ pc'[u] \in {"load_stamp", "move_head", "check_empty"} => pos'[u] <= head'
             /\ pc'[u] = "move_head" => pos'[u] + 1 <= stamp'[index(pos'[u])]
             /\ pc'[u] # "publish" => msg'[u] = None
  <2>1. pc'[u] = pc[u] /\ pos'[u] = pos[u] /\ msg'[u] = msg[u] /\ pos[u] \in Pos /\ u \in Threads
    BY <1>0, <1>b, <1>n DEF Grows, Alone, Threads
  <2>2. pos[u] \in Nat /\ stamp[index(pos[u])] \in Nat /\ stamp'[index(pos[u])] \in Nat
        /\ stamp[index(pos[u])] <= stamp'[index(pos[u])] /\ head <= head'
    BY <1>0, <1>n, <2>1 DEF Grows
  <2> QED
    BY <1>0, <1>n, <2>1, <2>2 DEF LocalInv
\* For thread t itself.
\* For thread t itself: it has moved, ...
<1>t. /\ \A to : pc' = [pc EXCEPT ![t] = to] => pc'[t] = to
      /\ \A q : pos' = [pos EXCEPT ![t] = q] => pos'[t] = q
      /\ \A m : msg' = [msg EXCEPT ![t] = m] => msg'[t] = m
      /\ t \in Senders => pc[t] \in SenderPoints
      /\ t \in Receivers => pc[t] \in ReceiverPoints
      /\ pos[t] \in Pos /\ pos[t] \in Nat
  BY <1>0, <1>n DEF TypeOK
<1> USE DEF Goto, Local, MoveTo, chan
\* ... or only the rest of its call is left.
<1>v. \/ t \in Senders /\ (\/ send(t) \/ load_tail(t) \/ inspect_stamp(t) \/ move_tail(t) \/ check_full(t))
      \/ t \in Receivers /\ (\/ recv(t) \/ load_head(t) \/ inspect_stamp_recv(t) \/ move_head(t) \/ check_empty(t)
                             \/ read_msg(t))
      \/ /\ pc'[t] \in Asleep \cup {again(t)} /\ pc[t] \in Asleep \cup {"refused"} /\ msg' = msg
      \/ /\ pc'[t] \in {"publish", "notify", "idle", "try_select", "unpark", "gone"} \cup LastPoints
         /\ pc'[t] = "publish" => t \in Senders
         /\ msg'[t] = None \/ (msg' = msg /\ pc[t] # "publish")
  <2>1. CASE send(t) \/ load_tail(t) \/ inspect_stamp(t) \/ move_tail(t) \/ check_full(t)
    BY <1>d, <1>t, <2>1 DEF send, load_tail, LoadTail, inspect_stamp, move_tail, check_full,
                            ReceiverPoints, CommonPoints, Asleep
  <2>2. CASE \/ recv(t) \/ load_head(t) \/ inspect_stamp_recv(t) \/ move_head(t) \/ check_empty(t) \/ read_msg(t)
    BY <1>d, <1>t, <2>2 DEF recv, load_head, LoadHead, inspect_stamp_recv, move_head, check_empty, read_msg,
                            SenderPoints, CommonPoints, Asleep
  <2>3. CASE write_msg(t) \/ publish(t) \/ return(t)
    BY <1>d, <1>t, <2>3 DEF write_msg, publish, return, ReceiverPoints, CommonPoints, Asleep
  <2>4. CASE look_again(t)
    BY <1>t, <2>4 DEF look_again, Asleep
  <2>5. CASE block(t) \/ expire(t)
    <3>1. msg' = msg
      BY <2>5 DEF block, expire
    <3>2. pc'[t] \in Asleep \cup {again(t)} /\ pc[t] \in Asleep \cup {"refused"}
      <4>1. CASE block(t)
        BY <1>t, <4>1 DEF block, register, wait_until, abort, wait_load, Return, park, unregister, Asleep
      <4>2. CASE expire(t)
        BY <1>t, <4>2 DEF expire, timeout, Return, Asleep
      <4> QED
        BY <2>5, <4>1, <4>2
    <3> QED
      BY <3>1, <3>2
  <2>6. CASE notify(t)
    BY <1>t, <2>6 DEF notify, notify_one, notify_load, notify_select, unpark
  <2>7. CASE drop_handle(t) \/ disconnect(t) \/ discard_all_messages(t) \/ destroy_channel(t)
    <3>1. msg' = msg
      BY <2>7 DEF drop_handle, disconnect, discard_all_messages, destroy_channel
    <3>2. pc[t] # "publish" /\ pc'[t] \in {"gone"} \cup LastPoints
      BY <1>t, <2>7 DEF drop_handle, release, disconnect, disconnect_select, unpark, AfterDisconnect,
                        discard_all_messages, destroy_channel, release_destroy, free_channel, LastPoints
    <3> QED
      BY <3>1, <3>2 DEF LastPoints
  <2> QED
    BY <2>1, <2>2, <2>3, <2>4, <2>5, <2>6, <2>7 DEF Step
<1>s. ASSUME t \in Senders
      PROVE  /\ pc'[t] \in {"load_stamp", "move_tail", "load_head"} => pos'[t] <= tail'
             /\ pc'[t] = "move_tail" => pos'[t] <= stamp'[index(pos'[t])]
             /\ pc'[t] \in {"load_tail", "load_stamp", "move_tail", "load_head", "write", "refused"} \cup Asleep
                  => msg'[t] # None
  <2>0. /\ pc[t] \in {"load_stamp", "move_tail", "load_head"} => pos[t] <= tail
        /\ pc[t] \in {"load_tail", "load_stamp", "move_tail", "load_head", "write", "refused"} \cup Asleep
             => msg[t] # None
    BY <1>0, <1>s DEF LocalInv
  <2>1. CASE send(t)
    <3>1. pc'[t] = "load_tail" /\ msg'[t] = <<t, left[t]>> /\ left[t] > 0
      BY <1>t, <2>1 DEF send
    <3>2. left[t] \in 1 .. MaxSends
      BY <1>0, <1>s, <3>1, CapacityAssumption DEF TypeOK
    <3> QED
      BY <1>s, <3>1, <3>2, NoMessageAssumption DEF Asleep
  <2>2. CASE load_tail(t) \/ (move_tail(t) /\ ~Claims(t))
    <3>1. /\ pc[t] \in {"load_tail", "move_tail"} /\ pc'[t] \in {"closed", "load_stamp"} /\ msg' = msg /\ tail' = tail
          /\ pc'[t] = "load_stamp" => pos'[t] = tail
      BY <1>t, <2>2 DEF load_tail, LoadTail, move_tail, Claims
    <3> QED
      BY <1>n, <2>0, <3>1 DEF Asleep
  <2>3. CASE inspect_stamp(t)
    <3>1. /\ pc[t] = "load_stamp" /\ msg' = msg /\ tail' = tail /\ pos' = pos /\ stamp' = stamp
          /\ pc'[t] \in {"move_tail", "load_head", "load_tail"}
          /\ pc'[t] = "move_tail" => stamp[index(pos[t])] = pos[t]
      BY <1>t, <2>3 DEF inspect_stamp
    <3> QED
      BY <1>t, <2>0, <3>1 DEF Asleep
  <2>4. CASE Claims(t)
    <3>1. pc[t] = "move_tail" /\ msg' = msg /\ pc'[t] = "write"
      BY <2>4, RingEffect DEF ClaimEffect
    <3> QED
      BY <2>0, <3>1 DEF Asleep
  <2>5. CASE check_full(t)
    <3>1. pc[t] = "load_head" /\ msg' = msg /\ pc'[t] \in {"refused", "load_tail"}
      BY <1>t, <2>5 DEF check_full
    <3> QED
      BY <2>0, <3>1 DEF Asleep
  <2>6. CASE pc'[t] \in Asleep \cup {again(t)} /\ pc[t] \in Asleep \cup {"refused"} /\ msg' = msg
    BY <1>s, <2>0, <2>6 DEF Asleep, again
  <2>7. CASE pc'[t] \in {"publish", "notify", "idle", "try_select", "unpark", "gone"} \cup LastPoints
    BY <2>7 DEF LastPoints, Asleep
  <2> QED
    BY <1>d, <1>s, <1>v, <2>1, <2>2, <2>3, <2>4, <2>5, <2>6, <2>7
<1>r. ASSUME t \in Receivers
      PROVE  /\ pc'[t] \in {"load_stamp", "move_head", "check_empty"} => pos'[t] <= head'
             /\ pc'[t] = "move_head" => pos'[t] + 1 <= stamp'[index(pos'[t])]
             /\ pc'[t] # "publish" => msg'[t] = None
  <2>0. /\ pc[t] \in {"load_stamp", "move_head", "check_empty"} => pos[t] <= head
        /\ pc[t] # "publish" => msg[t] = None
    BY <1>0, <1>r DEF LocalInv
  <2>1. CASE recv(t) \/ load_head(t) \/ (move_head(t) /\ ~Takes(t))
    <3>1. pc[t] # "publish" /\ pc'[t] = "load_stamp" /\ msg' = msg /\ head' = head /\ pos'[t] = head
      BY <1>t, <2>1 DEF recv, load_head, LoadHead, move_head, Takes
    <3> QED
      BY <1>n, <2>0, <3>1
  <2>2. CASE inspect_stamp_recv(t)
    <3>1. /\ pc[t] = "load_stamp" /\ msg' = msg /\ head' = head /\ pos' = pos /\ stamp' = stamp
          /\ pc'[t] \in {"move_head", "check_empty", "load_head"}
          /\ pc'[t] = "move_head" => stamp[index(pos[t])] = pos[t] + 1
      BY <1>t, <2>2 DEF inspect_stamp_recv
    <3> QED
      BY <1>t, <2>0, <3>1
  <2>3. CASE Takes(t)
    <3>1. pc[t] = "move_head" /\ msg' = msg /\ pc'[t] = "read"
      BY <2>3, RingEffect DEF TakeEffect
    <3> QED
      BY <2>0, <3>1
  <2>4. CASE check_empty(t)
    <3>1. pc[t] = "check_empty" /\ msg' = msg /\ pc'[t] \in {"refused", "load_head", "closed"}
      BY <1>t, <2>4 DEF check_empty
    <3> QED
      BY <2>0, <3>1
  <2>5. CASE read_msg(t)
    <3>1. pc'[t] = "publish"
      BY <1>t, <2>5 DEF read_msg
    <3> QED
      BY <3>1
  <2>6. CASE pc'[t] \in Asleep \cup {again(t)} /\ pc[t] \in Asleep \cup {"refused"} /\ msg' = msg
    BY <1>d, <1>r, <2>0, <2>6 DEF Asleep, again
  <2>7. CASE /\ pc'[t] \in {"publish", "notify", "idle", "try_select", "unpark", "gone"} \cup LastPoints
             /\ msg'[t] = None \/ (msg' = msg /\ pc[t] # "publish")
    BY <2>0, <2>7 DEF LastPoints
  <2> QED
    BY <1>d, <1>r, <1>v, <2>1, <2>2, <2>3, <2>4, <2>5, <2>6, <2>7
<1> QED
  BY <1>a, <1>b, <1>s, <1>r DEF LocalInv

LEMMA StutterKeeps ==
  ASSUME IInv, UNCHANGED vars
  PROVE  IInv'
<1>0. /\ pc' = pc /\ handles' = handles /\ destroy' = destroy /\ freed' = freed /\ mark' = mark
      /\ select' = select /\ selectors' = selectors /\ is_empty' = is_empty
      /\ head' = head /\ tail' = tail /\ stamp' = stamp /\ slot' = slot /\ pos' = pos /\ msg' = msg /\ left' = left
  BY DEF vars, counter, context, wakers, chan
<1>1. TypeOK'
  BY <1>0 DEF IInv, TypeOK
<1>2. HandleInv'
  BY <1>0 DEF IInv, HandleInv, Holders
<1>3. DestroyInv'
  BY <1>0 DEF IInv, DestroyInv
<1>4. QueueInv' /\ ContextInv'
  BY <1>0 DEF IInv, QueueInv, ContextInv, Locked
<1>f. first' = first /\ (\A q : (Free(q)' <=> Free(q)) /\ (Full(q)' <=> Full(q)))
      /\ \A u : Claimer(u)' <=> Claimer(u)
  BY <1>0 DEF first, Free, Full, Claimer
<1>5. RingInv'
  BY <1>0, <1>f DEF IInv, RingInv
<1>6. ClaimInv'
  BY <1>0, <1>f DEF IInv, ClaimInv
<1>7. LocalInv'
  BY <1>0 DEF IInv, LocalInv
<1>8. SlotInv'
  BY <1>0, <1>f DEF IInv, SlotInv
<1> QED
  BY <1>1, <1>2, <1>3, <1>4, <1>5, <1>6, <1>7, <1>8 DEF IInv

LEMMA StepKeeps ==
  ASSUME IInv, [Next]_vars
  PROVE  IInv'
<1>1. ASSUME NEW t \in Threads, Step(t) \/ expire(t)
      PROVE  IInv'
  <2>1. \E to : Moves(t, to)
    BY <1>1, StepMoves DEF IInv
  <2>2. HandleInv' /\ DestroyInv'
    BY <2>1, HandleStep, DestroyStep
  <2>3. TypeOK' /\ QueueInv' /\ ContextInv'
    BY <1>1, TypeStep, QueueStep
  <2>4. RingInv' /\ ClaimInv' /\ SlotInv' /\ LocalInv'
    BY <1>1, RingStep, LocalStep
  <2> QED
    BY <2>2, <2>3, <2>4 DEF IInv
<1>2. CASE UNCHANGED vars
  BY <1>2, StutterKeeps
<1> QED
  BY <1>1, <1>2 DEF Next, Done

LEMMA Invariance == Spec => []IInv
BY InitInv, StepKeeps, PTL DEF Spec

-----------------------------------------------------------------------------
(***************************************************************************)
(* What the invariant says of slots and of the end                         *)
(***************************************************************************)
\* The state of a slot that thread t is about to access.
LEMMA AccessIs ==
  ASSUME IInv, NEW t \in Threads, NEW i \in Indices, Accesses(t, i)
  PROVE  /\ pc[t] = "write" => t \in Senders /\ Free(pos[t]) /\ slot[i] = None
         /\ pc[t] # "write" => t \in Receivers /\ Full(pos[t]) /\ slot[i] # None
         /\ index(pos[t]) = i /\ pos[t] \in Pos
<1>0. /\ index(pos[t]) = i /\ pos[t] \in Pos
      /\ pc[t] \in {"write", "read", "discard"}
      /\ pc[t] = "discard" => Full(pos[t])
      /\ pc[t] = "write" => t \in Senders
      /\ pc[t] # "write" => t \in Receivers
  BY DEF Accesses, IInv, TypeOK, Threads, SenderPoints, ReceiverPoints, CommonPoints, Asleep, Full
<1>1. CASE pc[t] = "write"
  <2>1. Free(pos[t])
    BY <1>0, <1>1 DEF IInv, ClaimInv, Claimer
  <2>2. ~\E u \in Senders : pc[u] = "publish" /\ pos[u] = pos[t]
    BY <1>1 DEF IInv, ClaimInv, Claimer, Threads
  <2> QED
    BY <1>0, <1>1, <2>1, <2>2 DEF IInv, SlotInv
<1>2. CASE pc[t] = "read"
  BY <1>0, <1>2 DEF IInv, ClaimInv, Claimer, SlotInv
<1>3. CASE pc[t] = "discard"
  <2>1. first = pos[t]
    BY <1>0, <1>3, FirstIs DEF IInv, CountInv, FirstOK, DrainPoints
  <2>2. first <= pos[t]
    BY <1>0, <2>1, Positions
  <2> QED
    BY <1>0, <1>3, <2>2 DEF IInv, SlotInv
<1> QED
  BY <1>0, <1>1, <1>2, <1>3

\* A slot is accessed by one thread at a time: the writer that has moved the
\* tail past it, the reader that has moved the head past it, or the last
\* receiver; and it is without a message exactly when it is written
\* (write, read and discard_all_messages of array.rs).
THEOREM ArraySlotIsOwned == Spec => []SlotIsOwned
<1>1. IInv => SlotIsOwned
  <2> SUFFICES ASSUME IInv, NEW t \in Threads, NEW i \in Indices, Accesses(t, i)
               PROVE  /\ slot[i] = None <=> pc[t] = "write"
                      /\ \A u \in Threads \ {t} : ~Accesses(u, i)
    BY DEF SlotIsOwned, Indices
  <2>1. ASSUME NEW u \in Threads, Accesses(u, i) PROVE u = t
    <3>1. /\ index(pos[t]) = i /\ index(pos[u]) = i /\ pos[t] \in Pos /\ pos[u] \in Pos
          /\ pc[t] = "write" <=> pc[u] = "write"
      BY <2>1, AccessIs
    <3>2. CASE Claimer(t) /\ Claimer(u)
      BY <3>1, <3>2, OneClaimer
    <3>3. ASSUME NEW v \in Threads, NEW x \in Threads, Accesses(v, i), Accesses(x, i), pc[v] = "discard"
          PROVE  v = x
      <4>1. v \in Receivers /\ x \in Receivers
        BY <3>3, AccessIs DEF Threads
      <4>2. own(v) = own(x) /\ pc[v] \in LastPoints
        BY <3>3, <4>1, SidesAssumption DEF own, LastPoints
      <4>3. pc[x] \in LastPoints \cup {"gone"} /\ (pc[x] \in LastPoints => x = v)
        BY <4>2 DEF IInv, HandleInv
      <4> QED
        BY <3>3, <4>3 DEF Accesses, LastPoints
    <3> QED
      BY <2>1, <3>2, <3>3 DEF Accesses, Claimer
  <2> QED
    BY <2>1, AccessIs
<1> QED
  BY <1>1, Invariance, PTL

\* The channel is dropped by the last thread that leaves it, and then no slot
\* has a message left, so that Channel::drop has nothing to drop, and no thread
\* is registered, as the destructors of the wakers assert (counter.rs, array.rs,
\* waker.rs).
THEOREM ArrayFreedWhenUnused == Spec => []FreedWhenUnused
<1>1. IInv => FreedWhenUnused
  <2> SUFFICES ASSUME IInv, freed PROVE FreedWhenUnused
    BY Zenon DEF FreedWhenUnused
  <2>1. mark /\ \A t \in Threads : pc[t] = "gone"
    BY DEF IInv, DestroyInv
  <2>2. first = tail
    BY <2>1, FirstIs DEF IInv, CountInv, FirstOK, Threads
  <2>3. ASSUME NEW i \in Indices PROVE slot[i] = None
    <3>1. PICK q \in Pos : index(q) = i /\ (Free(q) \/ Full(q))
      BY DEF IInv, RingInv
    <3>2. CASE Free(q)
      BY <2>1, <3>1, <3>2 DEF IInv, SlotInv, Threads
    <3>3. CASE Full(q)
      <4>1. ~(first <= q)
        BY <2>2, <3>3, Positions, Numbers DEF IInv, RingInv
      <4> QED
        BY <2>1, <3>1, <3>3, <4>1 DEF IInv, SlotInv, Threads
    <3> QED
      BY <3>1, <3>2, <3>3
  <2>4. ASSUME NEW w \in Queues PROVE selectors[w] = << >> /\ is_empty[w]
    <3>1. selectors[w] \in Seq(Threads)
      BY DEF IInv, TypeOK
    <3>2. \A i \in 1 .. Len(selectors[w]) : pc[selectors[w][i]] \in Asleep /\ selectors[w][i] \in Threads
      BY <3>1 DEF IInv, QueueInv
    <3>3. ~\E i \in 1 .. Len(selectors[w]) : TRUE
      BY <2>1, <3>2 DEF Asleep
    <3>4. selectors[w] = << >>
      <4>1. Len(selectors[w]) \in Nat /\ ~(1 <= Len(selectors[w]))
        BY <3>1, <3>3
      <4> QED
        BY <3>1, <4>1, EmptySeq
    <3>5. ~Locked(w)
      BY <2>1 DEF Locked
    <3> QED
      BY <3>4, <3>5 DEF IInv, QueueInv
  <2> QED
    BY <2>1, <2>3, <2>4 DEF FreedWhenUnused, Indices, Queues
<1> QED
  BY <1>1, Invariance, PTL

-----------------------------------------------------------------------------
(***************************************************************************)
(* The queue of the messages                                               *)
(***************************************************************************)
\* The positions are numbered by their ranks.
LEMMA Ranks ==
  ASSUME NEW p \in Pos
  PROVE  /\ rank(p) \in Nat /\ position(rank(p)) = p
         /\ rank(advance(p)) = rank(p) + 1
         /\ rank(p + one_lap) = rank(p) + cap
<1>1. PICK l \in Nat, i \in Indices : p = l * one_lap + i
  BY PartsOf
<1>2. /\ p \in Nat /\ rank(p) = l * cap + i /\ i \in 0 .. cap - 1
      /\ advance(p) = IF i + 1 < cap THEN p + 1 ELSE (l + 1) * one_lap
  BY <1>1, Parts DEF Indices
<1>3. rank(p) \in Nat /\ l * cap \in Nat /\ (l + 1) * cap = l * cap + cap
  BY <1>2, Sizes
<1>4. position(rank(p)) = p
  <2>1. (l * cap + i) \div cap = l /\ (l * cap + i) % cap = i
    BY <1>2, Sizes, Division
  <2> QED
    BY <1>1, <1>2, <2>1 DEF position
<1>5. rank(advance(p)) = rank(p) + 1
  <2>1. CASE i + 1 < cap
    <3>1. i + 1 \in Indices /\ p + 1 = l * one_lap + (i + 1)
      BY <1>1, <2>1, Sizes DEF Indices
    <3>2. rank(p + 1) = l * cap + (i + 1)
      BY <3>1, Parts
    <3> QED
      BY <1>2, <1>3, <2>1, <3>2
  <2>2. CASE ~(i + 1 < cap)
    <3>1. 0 \in Indices /\ l + 1 \in Nat /\ (l + 1) * one_lap = (l + 1) * one_lap + 0
      BY Sizes DEF Indices
    <3>2. rank((l + 1) * one_lap) = (l + 1) * cap + 0
      BY <3>1, Parts
    <3>3. i + 1 = cap
      BY <1>2, <2>2, Sizes
    <3> QED
      BY <1>2, <1>3, <2>2, <3>2, <3>3, Sizes
  <2> QED
    BY <2>1, <2>2
<1>6. rank(p + one_lap) = rank(p) + cap
  <2>1. p + one_lap = (l + 1) * one_lap + i /\ l + 1 \in Nat
    BY <1>1, <1>2, Sizes
  <2>2. rank(p + one_lap) = (l + 1) * cap + i
    BY <2>1, Parts
  <2> QED
    BY <1>2, <1>3, <2>2, Sizes
<1> QED
  BY <1>3, <1>4, <1>5, <1>6

LEMMA RankOrder ==
  ASSUME NEW p \in Pos, NEW q \in Pos
  PROVE  p < q <=> rank(p) < rank(q)
<1>1. ASSUME NEW x \in Pos, NEW y \in Pos, x < y PROVE rank(x) < rank(y)
  <2>1. PICK l \in Nat, i \in Indices : x = l * one_lap + i
    BY PartsOf
  <2>2. PICK m \in Nat, j \in Indices : y = m * one_lap + j
    BY PartsOf
  <2>3. rank(x) = l * cap + i /\ rank(y) = m * cap + j
    BY <2>1, <2>2, Parts
  <2>4. i \in 0 .. one_lap - 1 /\ j \in 0 .. one_lap - 1 /\ i \in 0 .. cap - 1 /\ j \in 0 .. cap - 1
    BY Sizes DEF Indices
  <2>5. l < m \/ (l = m /\ i < j)
    BY <1>1, <2>1, <2>2, <2>4, Sizes, Quotients
  <2>6. l < m => l * cap + cap <= m * cap
    BY <2>4, Sizes, Quotients
  <2>7. l * cap \in Nat /\ m * cap \in Nat
    BY Sizes
  <2> QED
    BY <2>3, <2>4, <2>5, <2>6, <2>7, Sizes
<1>2. rank(p) \in Nat /\ rank(q) \in Nat /\ p \in Nat /\ q \in Nat
  BY Ranks, Positions
<1>3. p < q \/ p = q \/ q < p
  BY <1>2
<1>4. p < q => rank(p) < rank(q)
  BY <1>1
<1>5. q < p => rank(q) < rank(p)
  BY <1>1
<1> QED
  BY <1>2, <1>3, <1>4, <1>5

LEMMA PositionIs ==
  ASSUME NEW r \in Nat
  PROVE  position(r) \in Pos /\ rank(position(r)) = r
<1>1. PICK l \in Nat, i \in 0 .. cap - 1 : r = l * cap + i
  BY Sizes, Quotient
<1>2. r \div cap = l /\ r % cap = i
  BY <1>1, Sizes, Division
<1>3. position(r) = l * one_lap + i
  BY <1>2 DEF position
<1> QED
  BY <1>1, <1>3, Parts DEF Indices

\* The message of a position is with the sender that is about to write it, or
\* in the slot.
Writes(t, q) == pc[t] = "write" /\ pos[t] = q

MessageOK ==
  \A q \in Pos :
    /\ \A t \in Senders : Writes(t, q) => message(q) = msg[t]
    /\ (\A t \in Senders : ~Writes(t, q)) => message(q) = slot[index(q)]

LEMMA MessageIs == IInv => MessageOK
<1> SUFFICES ASSUME IInv, NEW q \in Pos
             PROVE  /\ \A t \in Senders : Writes(t, q) => message(q) = msg[t]
                    /\ (\A t \in Senders : ~Writes(t, q)) => message(q) = slot[index(q)]
  BY DEF MessageOK
<1>1. ASSUME NEW t \in Senders, Writes(t, q) PROVE message(q) = msg[t]
  <2>1. \A u \in Senders : pc[u] = "write" /\ pos[u] = q => u = t
    BY <1>1 DEF IInv, ClaimInv, Claimer, Threads, Writes
  <2> DEFINE c == CHOOSE u \in Senders : pc[u] = "write" /\ pos[u] = q
  <2>2. c = t
    BY <1>1, <2>1 DEF Writes
  <2>3. message(q) = msg[c]
    BY <1>1, Zenon DEF message, Writes
  <2> QED
    BY <2>2, <2>3
<1>2. ASSUME \A t \in Senders : ~Writes(t, q) PROVE message(q) = slot[index(q)]
  BY <1>2 DEF message, Writes
<1> QED
  BY <1>1, <1>2

LEMMA MessageTypes ==
  ASSUME IInv, NEW q \in Pos
  PROVE  message(q) \in Messages \cup {None}
<1>1. MessageOK /\ index(q) \in Indices
  BY MessageIs, Positions
<1> QED
  BY <1>1 DEF MessageOK, IInv, TypeOK, Threads

\* The messages between the first position and the tail stay what they are.
LEMMA MessagesKept ==
  ASSUME IInv, IInv', NEW t \in Threads, Step(t) \/ expire(t), NEW q \in Pos,
         first <= q, first' <= q, q < tail
  PROVE  message(q)' = message(q)
<1>m. MessageOK /\ MessageOK'
  BY MessageIs, PTL
<1>0. /\ MessageOK /\ MessageOK' /\ RingInv /\ ClaimInv
      /\ slot \in [Indices -> Messages \cup {None}] /\ index(q) \in Indices
  BY <1>m, Positions DEF IInv, TypeOK
<1>n. /\ q \in Nat /\ head \in Nat /\ tail \in Nat /\ first \in Nat /\ one_lap \in Nat
      /\ pos[t] \in Pos /\ pos[t] \in Nat /\ index(pos[t]) \in Indices
  BY Numbers, Positions
<1>s. head <= first /\ tail <= head + one_lap
  BY <1>0 DEF RingInv
<1>t. \A u \in Senders : u \in Threads
  BY DEF Threads
\* The slot and the sender of q are the same.
<1>a. ASSUME slot'[index(q)] = slot[index(q)],
             \A u \in Senders : /\ Writes(u, q)' <=> Writes(u, q)
                                /\ Writes(u, q) => msg'[u] = msg[u]
      PROVE  message(q)' = message(q)
  BY <1>0, <1>a DEF MessageOK
\* Two positions of one slot are a lap apart.
<1>b. ASSUME NEW p \in Pos, index(p) = index(q), p # q
      PROVE  p + one_lap <= q \/ q + one_lap <= p
  <2>1. p \in Nat
    BY Positions
  <2>2. p < q \/ q < p
    BY <1>b, <1>n, <2>1
  <2>3. p < q => p + one_lap <= q
    BY <1>b, Order
  <2>4. q < p => q + one_lap <= p
    BY <1>b, Order
  <2> QED
    BY <2>2, <2>3, <2>4
<1>1. CASE Quiet(t)
  BY <1>1, <1>a, <1>t DEF Quiet, Alone, Claimer, Writes
<1>2. CASE ClaimEffect(t)
  <2>1. q # pos[t]
    BY <1>2, <1>n DEF ClaimEffect
  <2> QED
    BY <1>2, <1>a, <1>t, <2>1 DEF ClaimEffect, Alone, Writes
<1>3. CASE WriteEffect(t)
  <2>1. first <= pos[t] /\ pos[t] < tail
    BY <1>0, <1>3 DEF WriteEffect, ClaimInv, Claimer
  <2>2. CASE q = pos[t]
    <3>1. message(q) = msg[t]
      BY <1>0, <1>3, <2>2 DEF WriteEffect, MessageOK, Writes
    <3>2. slot'[index(q)] = msg[t]
      BY <1>0, <1>3, <1>n, <2>2 DEF WriteEffect
    <3>3. \A u \in Senders : ~Writes(u, q)'
      BY <1>0, <1>3, <1>t, <2>2 DEF WriteEffect, Writes, Alone, ClaimInv, Claimer
    <3> QED
      BY <1>0, <3>1, <3>2, <3>3 DEF MessageOK
  <2>3. CASE q # pos[t]
    <3>1. index(q) # index(pos[t])
      BY <1>b, <1>n, <1>s, <2>1, <2>3
    <3>2. slot'[index(q)] = slot[index(q)]
      BY <1>0, <1>3, <3>1 DEF WriteEffect
    <3> QED
      BY <1>3, <1>a, <1>t, <2>3, <3>2 DEF WriteEffect, Alone, Writes
  <2> QED
    BY <2>2, <2>3
<1>4. CASE PublishEffect(t)
  BY <1>4, <1>a, <1>t DEF PublishEffect, Alone, Writes
<1>5. CASE TakeEffect(t)
  BY <1>5, <1>a, <1>t DEF TakeEffect, Alone, Writes
<1>6. CASE ReadEffect(t)
  <2>1. pos[t] < head /\ tail <= pos[t] + one_lap
    BY <1>0, <1>6, <1>n DEF ReadEffect, ClaimInv, RingInv, Claimer
  <2>2. index(q) # index(pos[t])
    BY <1>b, <1>n, <1>s, <2>1
  <2>3. slot'[index(q)] = slot[index(q)]
    BY <1>0, <1>6, <2>2 DEF ReadEffect
  <2> QED
    BY <1>6, <1>a, <1>t, <2>3 DEF ReadEffect, Alone, Writes
<1>7. CASE DiscardEffect(t)
  <2>1. tail <= pos[t] + one_lap /\ first = pos[t] /\ pos[t] < first' /\ first' \in Nat
    BY <1>0, <1>7, <1>n, Positions DEF DiscardEffect, RingInv
  <2>2. index(q) # index(pos[t])
    BY <1>b, <1>n, <1>s, <2>1
  <2>3. slot'[index(q)] = slot[index(q)]
    BY <1>0, <1>7, <2>2 DEF DiscardEffect
  <2> QED
    BY <1>7, <1>a, <1>t, <2>3 DEF DiscardEffect, Alone, Writes
<1> QED
  BY <1>1, <1>2, <1>3, <1>4, <1>5, <1>6, <1>7, StepQuiet, RingEffect

\* The four variables of AbstractChannel that are not kept as such.
buffer == [k \in 1 .. rank(tail) - rank(first) |-> message(position(rank(first) + k - 1))]

taken ==
  [t \in Threads |-> IF t \in Senders THEN None
                     ELSE IF pc[t] = "read" THEN message(pos[t]) ELSE msg[t]]

reason ==
  [t \in Threads |-> IF pc[t] = "closed" THEN "closed"
                     ELSE IF pc[t] # "refused" THEN "none"
                     ELSE IF t \in Senders THEN "full" ELSE "empty"]

deserted == handles.receivers = 0

BufferOK ==
  LET n == rank(tail) - rank(first)
  IN  /\ n \in 0 .. cap /\ buffer \in Seq(Messages \cup {None}) /\ Len(buffer) = n
      /\ \A k \in 1 .. n :
           \E q \in Pos : rank(q) = rank(first) + k - 1 /\ first <= q /\ q < tail /\ buffer[k] = message(q)

LEMMA BufferIs == IInv => BufferOK
<1> SUFFICES ASSUME IInv PROVE BufferOK
  OBVIOUS
<1> DEFINE n == rank(tail) - rank(first)
           S == Messages \cup {None}
<1>0. /\ first \in Pos /\ tail \in Pos /\ first \in Nat /\ tail \in Nat /\ one_lap \in Nat /\ head \in Nat
      /\ rank(first) \in Nat /\ rank(tail) \in Nat /\ cap \in Nat
      /\ first + one_lap \in Pos /\ rank(first + one_lap) = rank(first) + cap
  BY Numbers, Ranks, Positions, Sizes
<1>1. n \in 0 .. cap
  <2>1. first <= tail /\ tail <= first + one_lap
    BY <1>0 DEF IInv, RingInv
  <2>2. ~(rank(tail) < rank(first)) /\ ~(rank(first + one_lap) < rank(tail))
    <3>1. ~(tail < first) /\ ~(first + one_lap < tail)
      BY <1>0, <2>1
    <3> QED
      BY <1>0, <3>1, RankOrder
  <2> QED
    BY <1>0, <2>2
<1>2. ASSUME NEW k \in 1 .. n
      PROVE  LET q == position(rank(first) + k - 1)
             IN  q \in Pos /\ rank(q) = rank(first) + k - 1 /\ first <= q /\ q < tail /\ message(q) \in S
  <2> DEFINE r == rank(first) + k - 1
             q == position(r)
  <2>1. r \in Nat /\ rank(first) <= r /\ r < rank(tail)
    BY <1>0, <1>1
  <2>2. q \in Pos /\ rank(q) = r
    BY <2>1, PositionIs
  <2>3. q < tail /\ ~(q < first)
    <3> HIDE DEF q, r
    <3>1. (q < tail <=> rank(q) < rank(tail)) /\ (q < first <=> rank(q) < rank(first))
      BY <1>0, <2>2, RankOrder
    <3> QED
      BY <1>0, <2>1, <2>2, <3>1
  <2>4. q \in Nat /\ message(q) \in S
    BY <2>2, MessageTypes, Positions
  <2> QED
    BY <1>0, <2>2, <2>3, <2>4
<1>3. buffer \in [1 .. n -> S]
  BY <1>2 DEF buffer
<1>4. n \in Nat
  BY <1>0, <1>1
<1> HIDE DEF n, S
<1>5. buffer \in Seq(S) /\ Len(buffer) = n
  BY <1>3, <1>4
<1> QED
  BY <1>1, <1>2, <1>3, <1>5 DEF BufferOK, n, S, buffer

LEMMA SameRank ==
  ASSUME NEW p \in Pos, NEW q \in Pos, rank(p) = rank(q)
  PROVE  p = q
<1>1. position(rank(p)) = p /\ position(rank(q)) = q
  BY Ranks
<1> QED
  BY <1>1

\* The queue stays if both its ends do, ...
LEMMA BufferStays ==
  ASSUME IInv, IInv', NEW t \in Threads, Step(t) \/ expire(t), first' = first, tail' = tail
  PROVE  buffer' = buffer
<1>0. BufferOK /\ BufferOK'
  BY BufferIs, PTL
<1> DEFINE n == rank(tail) - rank(first)
<1>1. rank(first)' = rank(first) /\ rank(tail)' = rank(tail) /\ n' = n /\ \A q : rank(q)' = rank(q)
  BY DEF rank, index, one_lap
<1>2. ASSUME NEW k \in 1 .. n PROVE buffer'[k] = buffer[k]
  <2>1. PICK q \in Pos : rank(q) = rank(first) + k - 1 /\ first <= q /\ q < tail /\ buffer[k] = message(q)
    BY <1>0 DEF BufferOK
  <2>2. PICK p \in Pos : rank(p) = rank(first) + k - 1 /\ buffer'[k] = message(p)'
    BY <1>0, <1>1 DEF BufferOK
  <2>3. p = q
    BY <2>1, <2>2, SameRank
  <2>4. message(q)' = message(q)
    BY <2>1, MessagesKept
  <2> QED
    BY <2>1, <2>2, <2>3, <2>4
<1>3. /\ buffer \in Seq(Messages \cup {None}) /\ Len(buffer) = n
      /\ buffer' \in Seq(Messages \cup {None}) /\ Len(buffer') = n
  BY <1>0, <1>1 DEF BufferOK, Messages
<1> HIDE DEF n
<1> QED
  BY <1>2, <1>3, SeqEqual

\* ... grows by the message at the tail ...
LEMMA BufferGrows ==
  ASSUME IInv, IInv', NEW t \in Threads, Step(t) \/ expire(t), first' = first, tail' = advance(tail),
         NEW e \in Pos, e = tail, NEW m \in Messages, message(e)' = m
  PROVE  Len(buffer) < cap /\ buffer' = Append(buffer, m)
<1>0. BufferOK /\ BufferOK'
  BY BufferIs, PTL
<1> DEFINE n == rank(tail) - rank(first)
<1>1. rank(first)' = rank(first) /\ rank(tail)' = rank(tail) + 1 /\ \A q : rank(q)' = rank(q)
  <2>1. rank(first)' = rank(first) /\ rank(tail)' = rank(advance(tail)) /\ \A q : rank(q)' = rank(q)
    BY DEF rank, index, one_lap
  <2> QED
    BY <2>1, Ranks, Numbers
<1>2. n \in Nat /\ n' = n + 1 /\ rank(tail) \in Nat /\ rank(first) \in Nat /\ tail \in Pos
  BY <1>0, <1>1, Ranks, Numbers DEF BufferOK
<1>3. /\ buffer \in Seq(Messages \cup {None}) /\ Len(buffer) = n
      /\ buffer' \in Seq(Messages \cup {None}) /\ Len(buffer') = n + 1 /\ n + 1 <= cap
  BY <1>0, <1>1, <1>2 DEF BufferOK, Messages
<1>4. ASSUME NEW k \in 1 .. n PROVE buffer'[k] = buffer[k]
  <2>1. PICK q \in Pos : rank(q) = rank(first) + k - 1 /\ first <= q /\ q < tail /\ buffer[k] = message(q)
    BY <1>0 DEF BufferOK
  <2>2. k \in 1 .. n + 1
    BY <1>2
  <2>3. PICK p \in Pos : rank(p) = rank(first) + k - 1 /\ buffer'[k] = message(p)'
    BY <1>0, <1>1, <1>2, <2>2 DEF BufferOK
  <2>4. p = q
    BY <2>1, <2>3, SameRank
  <2>5. message(q)' = message(q)
    BY <2>1, MessagesKept
  <2> QED
    BY <2>1, <2>3, <2>4, <2>5
<1>5. buffer'[n + 1] = m
  <2>1. n + 1 \in 1 .. n + 1
    BY <1>2
  <2>2. PICK p \in Pos : rank(p) = rank(first) + (n + 1) - 1 /\ buffer'[n + 1] = message(p)'
    BY <1>0, <1>1, <1>2, <2>1 DEF BufferOK
  <2>3. p = e
    BY <1>2, <2>2, SameRank
  <2> QED
    BY <2>2, <2>3
<1> DEFINE a == Append(buffer, m)
           S == Messages \cup {None}
<1>6. m \in S
  OBVIOUS
<1>7. /\ buffer \in Seq(S) /\ Len(buffer) = n /\ buffer' \in Seq(S) /\ Len(buffer') = n + 1
      /\ n + 1 <= cap
  BY <1>3
<1> HIDE DEF n, S
<1>8. /\ a \in Seq(S) /\ Len(a) = n + 1 /\ \A i \in 1 .. n : a[i] = buffer[i]
      /\ a[n + 1] = m
  BY <1>6, <1>7, AppendProperties
<1>9. \A i \in 1 .. n + 1 : buffer'[i] = a[i]
  <2> HIDE DEF a
  <2> QED
    BY <1>2, <1>4, <1>5, <1>8
<1>10. buffer' = a
  <2> HIDE DEF a
  <2> QED
    BY <1>7, <1>8, <1>9, SeqEqual
<1>11. n < cap
  BY <1>2, <1>7, Sizes
<1> QED
  BY <1>7, <1>10, <1>11

\* ... and loses its first message when the first position moves on.
LEMMA BufferShrinks ==
  ASSUME IInv, IInv', NEW t \in Threads, Step(t) \/ expire(t), first < tail,
         first' = advance(first), tail' = tail
  PROVE  buffer # << >> /\ Head(buffer) = message(first) /\ buffer' = Tail(buffer)
<1>0. BufferOK /\ BufferOK'
  BY BufferIs, PTL
<1> DEFINE n == rank(tail) - rank(first)
           S == Messages \cup {None}
<1>1. rank(first)' = rank(first) + 1 /\ rank(tail)' = rank(tail) /\ \A q : rank(q)' = rank(q)
  <2>1. rank(first)' = rank(advance(first)) /\ rank(tail)' = rank(tail) /\ \A q : rank(q)' = rank(q)
    BY DEF rank, index, one_lap
  <2> QED
    BY <2>1, Ranks, Numbers
<1>2. /\ n \in Nat /\ n' = n - 1 /\ rank(tail) \in Nat /\ rank(first) \in Nat /\ first \in Pos /\ tail \in Pos
      /\ 1 <= n
  <2>1. rank(tail) \in Nat /\ rank(first) \in Nat /\ first \in Pos /\ tail \in Pos
    BY Ranks, Numbers
  <2>2. rank(first) < rank(tail)
    BY <2>1, RankOrder
  <2> QED
    BY <1>1, <2>1, <2>2
<1>3. /\ buffer \in Seq(S) /\ Len(buffer) = n /\ buffer' \in Seq(S) /\ Len(buffer') = n - 1
  BY <1>0, <1>1, <1>2 DEF BufferOK, Messages
<1>4. ASSUME NEW k \in 1 .. n - 1 PROVE buffer'[k] = buffer[k + 1]
  <2>1. k + 1 \in 1 .. n /\ rank(first) + (k + 1) - 1 = rank(first) + 1 + k - 1
    BY <1>2
  <2>2. PICK q \in Pos : /\ rank(q) = rank(first) + (k + 1) - 1 /\ first <= q /\ q < tail
                         /\ buffer[k + 1] = message(q)
    BY <1>0, <2>1 DEF BufferOK
  <2>3. PICK p \in Pos : rank(p) = rank(first) + 1 + k - 1 /\ first' <= p /\ buffer'[k] = message(p)'
    BY <1>0, <1>1, <1>2 DEF BufferOK
  <2>4. p = q
    BY <2>1, <2>2, <2>3, SameRank
  <2>5. message(q)' = message(q)
    BY <2>2, <2>3, <2>4, MessagesKept
  <2> QED
    BY <2>2, <2>3, <2>4, <2>5
<1>5. buffer[1] = message(first)
  <2>1. 1 \in 1 .. n /\ rank(first) + 1 - 1 = rank(first)
    BY <1>2
  <2>2. PICK q \in Pos : rank(q) = rank(first) + 1 - 1 /\ buffer[1] = message(q)
    BY <1>0, <2>1 DEF BufferOK
  <2>3. q = first
    BY <1>2, <2>1, <2>2, SameRank
  <2> QED
    BY <2>2, <2>3
<1> HIDE DEF n, S
<1>6. buffer # << >> /\ Head(buffer) = buffer[1]
  BY <1>2, <1>3
<1> DEFINE a == Tail(buffer)
<1>7. a \in Seq(S) /\ Len(a) = n - 1 /\ \A i \in 1 .. n - 1 : a[i] = buffer[i + 1]
  BY <1>3, <1>6, HeadTailProperties
<1>8. buffer' = a
  <2> HIDE DEF a
  <2> QED
    BY <1>3, <1>4, <1>7, SeqEqual
<1> QED
  BY <1>5, <1>6, <1>8

-----------------------------------------------------------------------------
(***************************************************************************)
(* The steps of the queue                                                  *)
(***************************************************************************)
\* What a receiver has claimed is in the slot.
TakenOK == \A u \in Receivers : taken[u] = IF pc[u] = "read" THEN slot[index(pos[u])] ELSE msg[u]

LEMMA TakenIs == IInv => TakenOK
<1> SUFFICES ASSUME IInv, NEW u \in Receivers
             PROVE  taken[u] = IF pc[u] = "read" THEN slot[index(pos[u])] ELSE msg[u]
  BY DEF TakenOK
<1>1. taken[u] = IF pc[u] = "read" THEN message(pos[u]) ELSE msg[u]
  BY SidesAssumption DEF taken, Threads
<1>2. ASSUME pc[u] = "read" PROVE message(pos[u]) = slot[index(pos[u])]
  <2>1. pos[u] \in Pos /\ pos[u] \in Nat /\ Full(pos[u])
    BY <1>2, Numbers DEF IInv, ClaimInv, Claimer, Threads
  <2>2. ASSUME NEW s \in Senders, Writes(s, pos[u]) PROVE FALSE
    <3>1. Free(pos[u])
      BY <2>2 DEF Writes, IInv, ClaimInv, Claimer
    <3> QED
      BY <2>1, <3>1 DEF Free, Full
  <2>3. MessageOK
    BY MessageIs
  <2> QED
    BY <2>1, <2>2, <2>3 DEF MessageOK
<1> QED
  BY <1>1, <1>2

\* A step of t changes what t has taken at most.
LEMMA TakenElse ==
  ASSUME IInv, IInv', NEW t \in Threads, Step(t) \/ expire(t), NEW u \in Threads, u # t
  PROVE  taken'[u] = taken[u]
<1>1. CASE u \in Senders
  BY <1>1 DEF taken
<1>2. CASE u \in Receivers
  <2>1. TakenOK /\ TakenOK'
    BY TakenIs, PTL
  <2>2. Alone(t)
    BY StepGrows DEF Grows
  <2>3. pc'[u] = pc[u] /\ pos'[u] = pos[u] /\ msg'[u] = msg[u] /\ index(pos'[u]) = index(pos[u])
    BY <2>2 DEF Alone
  <2>4. ASSUME pc[u] = "read" PROVE slot'[index(pos[u])] = slot[index(pos[u])]
    <3>1. Claimer(t) => index(pos[t]) # index(pos[u])
      BY <2>4, OneClaimer DEF Claimer
    <3>2. slot \in [Indices -> Messages \cup {None}] /\ index(pos[u]) \in Indices
      BY Numbers DEF IInv, TypeOK
    <3>3. CASE WriteEffect(t) \/ ReadEffect(t)
      BY <3>1, <3>2, <3>3 DEF WriteEffect, ReadEffect, Claimer
    <3>4. ~DiscardEffect(t)
      BY <1>2, <2>4 DEF DiscardEffect
    <3>5. CASE Quiet(t) \/ ClaimEffect(t) \/ PublishEffect(t) \/ TakeEffect(t)
      BY <3>5 DEF Quiet, ClaimEffect, PublishEffect, TakeEffect
    <3> QED
      BY <3>3, <3>4, <3>5, StepQuiet, RingEffect
  <2> QED
    BY <1>2, <2>1, <2>3, <2>4 DEF TakenOK, index
<1> QED
  BY <1>1, <1>2 DEF Threads

LEMMA TakenStays ==
  ASSUME IInv, IInv', NEW t \in Threads, Step(t) \/ expire(t), taken'[t] = taken[t]
  PROVE  taken' = taken
<1>1. \A u \in Threads : taken'[u] = taken[u]
  BY TakenElse
<1>2. DOMAIN taken = Threads /\ DOMAIN taken' = Threads /\ taken = [u \in Threads |-> taken[u]]
      /\ taken' = [u \in Threads |-> taken'[u]]
  BY DEF taken
<1> QED
  BY <1>1, <1>2

LEMMA TakenChanges ==
  ASSUME IInv, IInv', NEW t \in Threads, Step(t) \/ expire(t)
  PROVE  taken' = [taken EXCEPT ![t] = taken'[t]]
<1>1. \A u \in Threads : u # t => taken'[u] = taken[u]
  BY TakenElse
<1>2. taken = [u \in Threads |-> taken[u]] /\ taken' = [u \in Threads |-> taken'[u]]
  BY DEF taken
<1> QED
  BY <1>1, <1>2

LEMMA ReasonChanges ==
  ASSUME NEW t \in Threads, NEW to, pc \in [Threads -> SenderPoints \cup ReceiverPoints],
         pc' = [pc EXCEPT ![t] = to]
  PROVE  /\ reason' = [reason EXCEPT ![t] = reason'[t]]
         /\ reason[t] = reason'[t] => reason' = reason
         /\ reason[t] = IF pc[t] = "closed" THEN "closed"
                        ELSE IF pc[t] # "refused" THEN "none"
                        ELSE IF t \in Senders THEN "full" ELSE "empty"
         /\ reason'[t] = IF to = "closed" THEN "closed"
                         ELSE IF to # "refused" THEN "none"
                         ELSE IF t \in Senders THEN "full" ELSE "empty"
<1>1. \A u \in Threads : u # t => reason'[u] = reason[u]
  BY DEF reason
<1>2. reason = [u \in Threads |-> reason[u]] /\ reason' = [u \in Threads |-> reason'[u]]
  BY DEF reason
<1>3. reason' = [reason EXCEPT ![t] = reason'[t]] /\ (reason[t] = reason'[t] => reason' = reason)
  BY <1>1, <1>2
<1>4. pc'[t] = to
  OBVIOUS
<1> QED
  BY <1>3, <1>4 DEF reason

\* The actions of AbstractChannel, in terms of what stands for its variables.
MapStutter == UNCHANGED <<buffer, mark, deserted, taken, reason>>

MapSend(m) ==
  /\ ~mark /\ Len(buffer) < cap /\ buffer' = Append(buffer, m)
  /\ UNCHANGED <<mark, deserted, taken, reason>>

MapRecv(t) ==
  /\ buffer # << >> /\ taken[t] = None /\ ~deserted
  /\ taken' = [taken EXCEPT ![t] = Head(buffer)] /\ buffer' = Tail(buffer)
  /\ UNCHANGED <<mark, deserted, reason>>

MapRefuse(t) ==
  /\ reason[t] = "none"
  /\ \/ t \in Senders /\ (Len(buffer) = cap \/ deserted) /\ reason' = [reason EXCEPT ![t] = "full"]
     \/ t \in Receivers /\ buffer = << >> /\ ~mark /\ reason' = [reason EXCEPT ![t] = "empty"]
     \/ mark /\ (t \in Receivers => buffer = << >>) /\ reason' = [reason EXCEPT ![t] = "closed"]
  /\ UNCHANGED <<buffer, mark, deserted, taken>>

MapReturn(t) ==
  /\ \/ taken' = [taken EXCEPT ![t] = None] /\ reason' = reason
     \/ reason' = [reason EXCEPT ![t] = "none"] /\ taken' = taken
  /\ UNCHANGED <<buffer, mark, deserted>>

MapDisconnect == mark' = TRUE /\ UNCHANGED <<buffer, deserted, taken, reason>>

MapAbandon == deserted' /\ UNCHANGED <<buffer, mark, taken, reason>>

MapDiscard ==
  /\ mark /\ deserted /\ buffer # << >> /\ buffer' = Tail(buffer)
  /\ UNCHANGED <<mark, deserted, taken, reason>>

MapNext ==
  \/ \E m \in Messages : MapSend(m)
  \/ \E t \in Receivers : MapRecv(t)
  \/ \E t \in Threads : MapRefuse(t) \/ MapReturn(t)
  \/ MapDisconnect \/ MapAbandon \/ MapDiscard \/ MapStutter

LEMMA Mapped ==
  ASSUME MapNext
  PROVE  [Abstract!Next]_Abstract!vars
<1> USE DEF buffer, taken, reason, deserted, Messages, Threads
<1>1. ASSUME MapStutter PROVE UNCHANGED Abstract!vars
  BY <1>1 DEF MapStutter, Abstract!vars
<1>2. ASSUME NEW m \in Messages, MapSend(m) PROVE Abstract!Next
  BY <1>2 DEF MapSend, Abstract!Next, Abstract!Send
<1>3. ASSUME NEW t \in Receivers, MapRecv(t) PROVE Abstract!Next
  BY <1>3 DEF MapRecv, Abstract!Next, Abstract!Recv, Abstract!Threads
<1>4. ASSUME NEW t \in Threads, MapRefuse(t) PROVE Abstract!Next
  BY <1>4 DEF MapRefuse, Abstract!Next, Abstract!Refuse, Abstract!Threads
<1>5. ASSUME NEW t \in Threads, MapReturn(t) PROVE Abstract!Next
  BY <1>5 DEF MapReturn, Abstract!Next, Abstract!Return, Abstract!Threads
<1>6. ASSUME MapDisconnect PROVE Abstract!Next
  BY <1>6 DEF MapDisconnect, Abstract!Next, Abstract!Disconnect
<1>7. ASSUME MapAbandon PROVE Abstract!Next
  BY <1>7 DEF MapAbandon, Abstract!Next, Abstract!Abandon
<1>8. ASSUME MapDiscard PROVE Abstract!Next
  BY <1>8 DEF MapDiscard, Abstract!Next, Abstract!Discard
<1> HIDE DEF buffer, taken, reason, deserted, Messages, Threads
<1> QED
  BY <1>1, <1>2, <1>3, <1>4, <1>5, <1>6, <1>7, <1>8 DEF MapNext

LEMMA StepMaps ==
  ASSUME IInv, IInv', NEW t \in Threads, Step(t) \/ expire(t)
  PROVE  MapNext
<1>0. /\ pc \in [Threads -> SenderPoints \cup ReceiverPoints] /\ mark \in BOOLEAN
      /\ t \in Senders \/ t \in Receivers
      /\ ~(t \in Senders /\ t \in Receivers)
      /\ t \in Senders => pc[t] \in SenderPoints
      /\ t \in Receivers => pc[t] \in ReceiverPoints
      /\ handles \in [Queues -> Nat] /\ handles.receivers \in Nat
  BY SidesAssumption DEF IInv, TypeOK, Threads, Queues
<1>d. deserted <=> Holders("receivers") = {}
  <2>1. handles.receivers = Cardinality(Holders("receivers"))
    BY DEF IInv, HandleInv, Queues
  <2> QED
    BY <2>1, HoldersAre DEF deserted
<1>n. /\ head \in Nat /\ tail \in Nat /\ first \in Nat /\ head \in Pos /\ tail \in Pos /\ first \in Pos
      /\ one_lap \in Nat /\ pos[t] \in Pos /\ pos[t] \in Nat
  BY Numbers
<1>o. MessageOK /\ MessageOK' /\ TakenOK /\ TakenOK' /\ BufferOK
  BY MessageIs, TakenIs, BufferIs, PTL
<1>s. t \in Senders => taken[t] = None /\ taken'[t] = None
  BY DEF taken
\* A step that leaves the verdict, the flag and the handles alone.
<1>k. ASSUME handles' = handles, pc[t] # "closed", pc[t] # "refused",
             \E to : pc' = [pc EXCEPT ![t] = to] /\ to # "closed" /\ to # "refused"
      PROVE  reason' = reason /\ deserted' = deserted
  BY <1>0, <1>k, ReasonChanges DEF deserted
<1>1. CASE Claims(t)
  <2>1. ClaimEffect(t)
    BY <1>1, RingEffect
  <2>2. t \in Senders /\ first' = first /\ tail' = advance(tail) /\ ~mark /\ mark' = mark /\ tail = pos[t]
    BY <1>1, <2>1 DEF ClaimEffect, Claims, move_tail, LoadTail, chan
  <2>3. reason' = reason /\ deserted' = deserted
    <3>1. pc' = [pc EXCEPT ![t] = "write"] /\ pc[t] = "move_tail" /\ handles' = handles
      BY <1>1 DEF Claims, move_tail, Goto, counter
    <3> QED
      BY <1>k, <3>1
  <2>4. msg[t] \in Messages /\ msg'[t] = msg[t]
    BY <2>1, <2>2 DEF ClaimEffect, IInv, LocalInv, TypeOK
  <2>5. PICK e \in Pos : e = tail
    BY <1>n
  <2>6. message(e)' = msg[t]
    <3>1. Writes(t, e)'
      BY <2>1, <2>2, <2>5 DEF ClaimEffect, Writes
    <3> QED
      BY <1>o, <2>2, <2>4, <3>1 DEF MessageOK
  <2>7. PICK m \in Messages : m = msg[t]
    BY <2>4
  <2>8. Len(buffer) < cap /\ buffer' = Append(buffer, m)
    BY <2>2, <2>5, <2>6, <2>7, BufferGrows
  <2>9. taken' = taken
    BY <1>s, <2>2, TakenStays
  <2> QED
    BY <2>2, <2>3, <2>8, <2>9 DEF MapNext, MapSend
<1>2. CASE Takes(t)
  <2>1. TakeEffect(t)
    BY <1>2, RingEffect
  <2>2. /\ t \in Receivers /\ first = head /\ first' = advance(first) /\ tail' = tail /\ head = pos[t]
        /\ pc[t] = "move_head" /\ pc'[t] = "read" /\ slot' = slot /\ pos' = pos
    BY <2>1 DEF TakeEffect
  <2>3. reason' = reason /\ deserted' = deserted /\ mark' = mark
    <3>1. pc' = [pc EXCEPT ![t] = "read"] /\ handles' = handles /\ mark' = mark
      BY <1>2 DEF Takes, move_head, Goto, counter
    <3> QED
      BY <1>k, <2>2, <3>1
  <2>4. Full(head) /\ head < tail
    BY <2>2, TakeFits
  <2>5. buffer # << >> /\ Head(buffer) = message(first) /\ buffer' = Tail(buffer)
    BY <2>2, <2>4, BufferShrinks
  <2>6. taken[t] = None
    BY <1>o, <2>2 DEF TakenOK, IInv, LocalInv
  <2>7. taken'[t] = message(first)
    <3>1. taken'[t] = slot[index(pos[t])]
      BY <1>o, <2>2 DEF TakenOK, index
    <3>2. ASSUME NEW u \in Senders, Writes(u, head) PROVE FALSE
      <4>1. Free(head)
        BY <3>2 DEF Writes, IInv, ClaimInv, Claimer
      <4> QED
        BY <1>n, <2>4, <4>1 DEF Free, Full
    <3> QED
      BY <1>n, <1>o, <2>2, <3>1, <3>2 DEF MessageOK
  <2>8. taken' = [taken EXCEPT ![t] = Head(buffer)]
    BY <2>5, <2>7, TakenChanges
  <2>9. ~deserted
    <3>1. t \in Holders("receivers")
      BY <1>0, <2>2 DEF Holders, own, LastPoints
    <3> QED
      BY <1>d, <3>1
  <2> QED
    BY <2>2, <2>3, <2>5, <2>6, <2>8, <2>9 DEF MapNext, MapRecv
<1>3. CASE Discards(t)
  <2>1. DiscardEffect(t)
    BY <1>3, RingEffect
  <2>2. /\ t \in Receivers /\ first = pos[t] /\ first' = advance(first) /\ tail' = tail
        /\ pc[t] = "discard" /\ pc'[t] = "discard" /\ mark /\ Full(first) /\ msg' = msg
    BY <2>1 DEF DiscardEffect
  <2>3. reason' = reason /\ deserted' = deserted /\ mark' = mark
    <3>1. (\E to \in {"discard", "destroy"} : pc' = [pc EXCEPT ![t] = to]) /\ handles' = handles /\ mark' = mark
      BY <1>3 DEF Discards, discard_all_messages, Goto, counter
    <3> QED
      BY <1>k, <2>2, <3>1
  <2>4. first < tail
    BY <1>n, <2>2 DEF IInv, RingInv
  <2>5. buffer # << >> /\ buffer' = Tail(buffer)
    BY <2>2, <2>4, BufferShrinks
  <2>6. taken' = taken
    <3>1. taken'[t] = taken[t]
      BY <1>o, <2>2 DEF TakenOK
    <3> QED
      BY <3>1, TakenStays
  <2>7. deserted
    <3>1. \A u \in Threads : own(u) = "receivers" => pc[u] \in LastPoints \cup {"gone"}
      <4>1. own(t) = "receivers" /\ pc[t] \in LastPoints
        BY <1>0, <2>2 DEF own, LastPoints
      <4> QED
        BY <4>1 DEF IInv, HandleInv
    <3> QED
      BY <1>d, <3>1 DEF Holders
  <2> QED
    BY <2>2, <2>3, <2>5, <2>6, <2>7 DEF MapNext, MapDiscard
<1>4. CASE write_msg(t) \/ read_msg(t)
  <2>1. WriteEffect(t) \/ ReadEffect(t)
    BY <1>4, RingEffect
  <2>2. buffer' = buffer
    BY <2>1, BufferStays DEF WriteEffect, ReadEffect
  <2>3. reason' = reason /\ deserted' = deserted /\ mark' = mark
    <3>1. pc' = [pc EXCEPT ![t] = "publish"] /\ pc[t] \in {"write", "read"} /\ handles' = handles /\ mark' = mark
      BY <1>4 DEF write_msg, read_msg, Goto, counter
    <3> QED
      BY <1>k, <3>1
  <2>4. taken'[t] = taken[t]
    BY <1>0, <1>o, <1>s, <2>1 DEF TakenOK, WriteEffect, ReadEffect
  <2>5. taken' = taken
    BY <2>4, TakenStays
  <2> QED
    BY <2>2, <2>3, <2>5 DEF MapNext, MapStutter
<1>5. CASE publish(t)
  <2>1. PublishEffect(t)
    BY <1>5, RingEffect
  <2>2. buffer' = buffer
    BY <2>1, BufferStays DEF PublishEffect
  <2>3. reason' = reason /\ deserted' = deserted /\ mark' = mark
    <3>1. pc' = [pc EXCEPT ![t] = "notify"] /\ pc[t] = "publish" /\ handles' = handles /\ mark' = mark
      BY <1>5 DEF publish, Goto, counter
    <3> QED
      BY <1>k, <3>1
  <2>4. taken'[t] = None
    BY <1>0, <1>o, <1>s, <2>1 DEF TakenOK, PublishEffect
  <2>5. taken' = [taken EXCEPT ![t] = None]
    BY <2>4, TakenChanges
  <2> QED
    BY <2>2, <2>3, <2>5 DEF MapNext, MapReturn
<1>6. CASE Quiet(t)
  <2>1. buffer' = buffer
    BY <1>6, BufferStays DEF Quiet
  <2>2. taken' = taken
    <3>1. ASSUME t \in Receivers PROVE taken'[t] = taken[t]
      <4>1. pc[t] \notin {"read", "publish"} /\ pc'[t] \notin {"read", "publish"}
        BY <1>6 DEF Quiet, Claimer
      <4>2. msg[t] = None /\ msg'[t] = None
        BY <3>1, <4>1 DEF IInv, LocalInv
      <4> QED
        BY <1>o, <3>1, <4>1, <4>2 DEF TakenOK
    <3> QED
      BY <1>0, <1>s, <3>1, TakenStays
  \* Steps between two verdicts, ...
  <2>a. ASSUME handles' = handles, mark' = mark, pc[t] # "closed", pc[t] # "refused",
               \E to : pc' = [pc EXCEPT ![t] = to] /\ to # "closed" /\ to # "refused"
        PROVE  MapNext
    BY <1>k, <2>1, <2>2, <2>a DEF MapNext, MapStutter
  \* ... to a verdict ...
  <2>b. ASSUME handles' = handles, mark' = mark, pc[t] # "closed", pc[t] # "refused",
               \/ /\ pc' = [pc EXCEPT ![t] = "refused"]
                  /\ IF t \in Senders THEN Len(buffer) = cap \/ deserted ELSE buffer = << >> /\ ~mark
               \/ /\ pc' = [pc EXCEPT ![t] = "closed"]
                  /\ mark /\ (t \in Receivers => buffer = << >>)
        PROVE  MapNext
    <3>1. deserted' = deserted
      BY <2>b DEF deserted
    <3>2. CASE pc' = [pc EXCEPT ![t] = "refused"]
               /\ IF t \in Senders THEN Len(buffer) = cap \/ deserted ELSE buffer = << >> /\ ~mark
      <4>1. /\ reason[t] = "none"
            /\ t \in Senders => reason' = [reason EXCEPT ![t] = "full"]
            /\ t \in Receivers => reason' = [reason EXCEPT ![t] = "empty"]
        BY <1>0, <2>b, <3>2, ReasonChanges
      <4> QED
        BY <1>0, <2>1, <2>2, <2>b, <3>1, <3>2, <4>1 DEF MapNext, MapRefuse
    <3>3. CASE pc' = [pc EXCEPT ![t] = "closed"] /\ mark /\ (t \in Receivers => buffer = << >>)
      <4>1. reason[t] = "none" /\ reason' = [reason EXCEPT ![t] = "closed"]
        BY <1>0, <2>b, <3>3, ReasonChanges
      <4> QED
        BY <1>0, <2>1, <2>2, <2>b, <3>1, <3>3, <4>1 DEF MapNext, MapRefuse
    <3> QED
      BY <2>b, <3>2, <3>3
  \* ... and from it.
  <2>c. ASSUME handles' = handles, mark' = mark,
               \E to : pc' = [pc EXCEPT ![t] = to] /\ to # "closed" /\ to # "refused"
        PROVE  MapNext
    <3>1. reason' = [reason EXCEPT ![t] = "none"]
      BY <1>0, <2>c, ReasonChanges
    <3> QED
      BY <2>1, <2>2, <2>c, <3>1 DEF MapNext, MapReturn, deserted
  \* The length of the queue when the verdict falls.
  <2>e. /\ first = tail => buffer = << >>
        /\ ~deserted => first = head
        /\ first = head /\ tail = head + one_lap => Len(buffer) = cap
    <3>1. Len(buffer) = rank(tail) - rank(first) /\ buffer \in Seq(Messages \cup {None})
      BY <1>o DEF BufferOK
    <3>2. rank(tail) \in Nat /\ rank(head) \in Nat /\ rank(head + one_lap) = rank(head) + cap /\ cap \in Nat
      BY <1>n, Ranks, Sizes
    <3>3. first = tail => buffer = << >>
      BY <3>1, <3>2, EmptySeq
    <3>4. ~deserted => first = head
      BY <1>0 DEF deserted, first
    <3> QED
      BY <3>1, <3>2, <3>3, <3>4
  <2>3. CASE send(t) \/ inspect_stamp(t)
    <3>1. /\ handles' = handles /\ mark' = mark /\ pc[t] \in {"idle", "load_stamp"}
          /\ \E to \in {"load_tail", "move_tail", "load_head"} : pc' = [pc EXCEPT ![t] = to]
      BY <2>3 DEF send, inspect_stamp, Goto, counter, chan
    <3> QED
      BY <2>a, <3>1
  <2>4. CASE load_tail(t) \/ move_tail(t)
    <3>1. LoadTail(t, "load_tail") \/ LoadTail(t, "move_tail")
      <4>1. pc'[t] # "write"
        BY <1>6 DEF Quiet, Claimer
      <4> QED
        BY <1>0, <2>4, <4>1 DEF load_tail, move_tail, Goto
    <3>2. /\ handles' = handles /\ mark' = mark /\ pc[t] \in {"load_tail", "move_tail"}
          /\ pc' = [pc EXCEPT ![t] = IF mark THEN "closed" ELSE "load_stamp"]
      BY <3>1 DEF LoadTail, Goto, counter, chan
    <3>3. t \in Senders
      BY <1>0, <3>2 DEF ReceiverPoints, CommonPoints, Asleep
    <3>4. CASE mark
      BY <1>0, <2>b, <3>2, <3>3, <3>4
    <3>5. CASE ~mark
      BY <2>a, <3>2, <3>5
    <3> QED
      BY <3>4, <3>5
  <2>5. CASE check_full(t)
    <3>1. /\ handles' = handles /\ mark' = mark /\ pc[t] = "load_head" /\ t \in Senders
          /\ pc' = [pc EXCEPT ![t] = IF head + one_lap = pos[t] THEN "refused" ELSE "load_tail"]
      BY <2>5 DEF check_full, Goto, counter, chan
    <3>2. CASE head + one_lap = pos[t]
      <4>1. pos[t] <= tail /\ tail <= head + one_lap
        BY <3>1 DEF IInv, LocalInv, RingInv
      <4>2. tail = head + one_lap
        BY <1>n, <3>2, <4>1
      <4>3. Len(buffer) = cap \/ deserted
        BY <2>e, <4>2
      <4>4. pc' = [pc EXCEPT ![t] = "refused"]
        BY <3>1, <3>2
      <4> QED
        BY <2>b, <3>1, <4>3, <4>4
    <3>3. CASE head + one_lap # pos[t]
      BY <2>a, <3>1, <3>3
    <3> QED
      BY <3>2, <3>3
  <2>6. CASE recv(t) \/ load_head(t) \/ inspect_stamp_recv(t)
    <3>1. /\ handles' = handles /\ mark' = mark /\ pc[t] \in {"idle", "load_head", "load_stamp"}
          /\ \E to \in {"load_stamp", "move_head", "check_empty", "load_head"} : pc' = [pc EXCEPT ![t] = to]
      BY <2>6 DEF recv, load_head, LoadHead, inspect_stamp_recv, Goto, counter, chan
    <3> QED
      BY <2>a, <3>1
  <2>7. CASE move_head(t)
    <3>1. /\ handles' = handles /\ mark' = mark /\ pc[t] = "move_head"
          /\ \E to \in {"load_stamp", "read"} : pc' = [pc EXCEPT ![t] = to]
      BY <2>7 DEF move_head, LoadHead, Goto, counter, chan
    <3> QED
      BY <2>a, <3>1
  <2>8. CASE check_empty(t)
    <3>1. /\ handles' = handles /\ mark' = mark /\ pc[t] = "check_empty"
          /\ pc' = [pc EXCEPT ![t] = IF tail # pos[t] THEN "load_head" ELSE IF mark THEN "closed" ELSE "refused"]
      BY <2>8 DEF check_empty, Goto, counter, chan
    <3>2. t \in Receivers /\ t \notin Senders
      BY <1>0, <3>1 DEF SenderPoints, CommonPoints, Asleep
    <3>3. CASE tail = pos[t]
      <4>1. pos[t] <= head /\ head <= first /\ first <= tail
        BY <3>1, <3>2 DEF IInv, LocalInv, RingInv
      <4>2. buffer = << >>
        BY <1>n, <2>e, <3>3, <4>1
      <4>3. CASE mark
        BY <2>b, <3>1, <3>3, <4>2, <4>3
      <4>4. CASE ~mark
        BY <2>b, <3>1, <3>2, <3>3, <4>2, <4>4
      <4> QED
        BY <4>3, <4>4
    <3>4. CASE tail # pos[t]
      BY <2>a, <3>1, <3>4
    <3> QED
      BY <3>3, <3>4
  <2>9. CASE return(t)
    <3>1. handles' = handles /\ mark' = mark /\ pc' = [pc EXCEPT ![t] = "idle"]
      BY <2>9 DEF return, Goto, counter, chan
    <3> QED
      BY <2>c, <3>1
  <2>10. CASE look_again(t)
    <3>1. /\ handles' = handles /\ mark' = mark /\ pc[t] \in {"recheck", "recheck2", "recheck3"}
          /\ \E to \in {"recheck2", "recheck3", "abort", "wait"} : pc' = [pc EXCEPT ![t] = to]
      BY <2>10 DEF look_again, Goto, counter, chan
    <3> QED
      BY <2>a, <3>1
  <2>11. CASE block(t) \/ expire(t)
    <3>1. /\ handles' = handles /\ mark' = mark
          /\ \E to \in {"recheck", "wait", "park", "unregister", "load_tail", "load_head"} : pc' = [pc EXCEPT ![t] = to]
      BY <2>11 DEF block, expire, timeout, register, wait_until, abort, wait_load, Return, park, unregister, again,
                   Goto, counter, chan
    <3> QED
      BY <2>c, <3>1
  <2>12. CASE notify(t)
    <3>1. /\ handles' = handles /\ mark' = mark
          /\ \E to \in {"idle", "try_select", "unpark"} : pc' = [pc EXCEPT ![t] = to]
      BY <2>12 DEF notify, notify_one, notify_load, notify_select, unpark, Goto, counter, chan
    <3> QED
      BY <2>c, <3>1
  <2>13. CASE drop_handle(t)
    <3>1. /\ mark' = mark /\ pc[t] = "idle"
          /\ \E to \in {"disconnect_chan", "gone"} : pc' = [pc EXCEPT ![t] = to]
      BY <2>13 DEF drop_handle, release, Goto, chan
    <3>2. reason' = reason
      BY <1>0, <3>1, ReasonChanges
    <3>3. deserted => deserted'
      <4>1. handles' = [handles EXCEPT ![own(t)] = @ - 1]
        BY <2>13 DEF drop_handle, release
      <4>2. CASE t \in Senders
        BY <1>0, <4>1, <4>2 DEF own, deserted, Queues
      <4>3. CASE t \in Receivers
        <5>1. t \in Holders("receivers")
          BY <1>0, <3>1, <4>3 DEF Holders, own, LastPoints
        <5> QED
          BY <1>d, <5>1
      <4> QED
        BY <1>0, <4>2, <4>3
    <3>4. CASE deserted'
      BY <2>1, <2>2, <3>1, <3>2, <3>4 DEF MapNext, MapAbandon
    <3>5. CASE ~deserted'
      <4>1. deserted' = deserted
        BY <3>3, <3>5 DEF deserted
      <4> QED
        BY <2>1, <2>2, <3>1, <3>2, <4>1 DEF MapNext, MapStutter
    <3> QED
      BY <3>4, <3>5
  <2>14. CASE disconnect(t)
    <3>1. /\ handles' = handles /\ (mark' = TRUE \/ mark' = mark)
          /\ pc[t] \in {"disconnect_chan", "disconnect", "unpark_all"}
          /\ \E to \in {"destroy", "discard", "disconnect", "unpark_all"} : pc' = [pc EXCEPT ![t] = to]
      BY <2>14 DEF disconnect, disconnect_select, unpark, AfterDisconnect, Goto, counter
    <3>2. CASE mark' = mark
      BY <2>a, <3>1, <3>2
    <3>3. CASE mark' = TRUE
      <4>1. reason' = reason /\ deserted' = deserted
        BY <1>k, <3>1
      <4> QED
        BY <2>1, <2>2, <3>3, <4>1 DEF MapNext, MapDisconnect
    <3> QED
      BY <3>1, <3>2, <3>3
  <2>15. CASE discard_all_messages(t)
    <3>1. /\ handles' = handles /\ mark' = mark /\ pc[t] = "discard"
          /\ \E to \in {"discard", "destroy"} : pc' = [pc EXCEPT ![t] = to]
      BY <2>15 DEF discard_all_messages, Goto, counter
    <3> QED
      BY <2>a, <3>1
  <2>16. CASE destroy_channel(t)
    <3>1. /\ handles' = handles /\ mark' = mark /\ pc[t] \in {"destroy", "free"}
          /\ \E to \in {"free", "gone"} : pc' = [pc EXCEPT ![t] = to]
      BY <2>16 DEF destroy_channel, release_destroy, free_channel, Goto, chan
    <3> QED
      BY <2>a, <3>1
  <2> QED
    BY <1>4, <1>5, <2>3, <2>4, <2>5, <2>6, <2>7, <2>8, <2>9, <2>10, <2>11, <2>12, <2>13, <2>14, <2>15, <2>16 DEF Step
<1> QED
  BY <1>1, <1>2, <1>3, <1>4, <1>5, <1>6, StepQuiet

LEMMA InitMaps == Init => Abstract!Init
<1> SUFFICES ASSUME Init PROVE Abstract!Init
  OBVIOUS
<1>1. rank(tail) - rank(first) = 0
  <2>1. first = 0 /\ tail = 0 /\ 0 \in Pos
    BY FirstLap, Sizes DEF Init, first, Indices
  <2> QED
    BY <2>1, Ranks
<1>2. buffer = << >>
  <2>1. 1 .. rank(tail) - rank(first) = {}
    BY <1>1
  <2> QED
    BY <2>1 DEF buffer
<1>3. deserted = FALSE /\ mark = FALSE
  <2>1. Cardinality(Receivers) # 0
    BY SidesAssumption, FS_EmptySet
  <2> QED
    BY <2>1 DEF deserted, Init, SyncWakerInit, MpmcInit
<1>4. taken = [t \in Threads |-> None] /\ reason = [t \in Threads |-> "none"]
  BY DEF taken, reason, Init, SyncWakerInit, MpmcInit
<1> QED
  BY <1>2, <1>3, <1>4 DEF Abstract!Init, buffer, taken, reason, deserted, Threads, Abstract!Threads

\* The bounded channel is a queue of at most cap messages: a message enters it
\* with the move of the tail (start_send) and leaves it, in order, with the
\* move of the head (start_recv) or when the last receiver discards it
\* (discard_all_messages); full, empty and disconnected are told of only at a
\* moment when the channel is.
THEOREM ArrayRefinesChannel == Spec => ImplementsChannel
<1>1. IInv /\ IInv' /\ [Next]_vars => [Abstract!Next]_Abstract!vars
  <2> SUFFICES ASSUME IInv, IInv', [Next]_vars PROVE [Abstract!Next]_Abstract!vars
    OBVIOUS
  <2>1. ASSUME NEW t \in Threads, Step(t) \/ expire(t) PROVE MapNext
    BY <2>1, StepMaps
  <2>2. ASSUME UNCHANGED vars PROVE MapStutter
    BY <2>2 DEF vars, counter, chan, MapStutter, buffer, deserted, taken, reason, rank, first, message, position,
                index, one_lap
  <2> QED
    BY <2>1, <2>2, Mapped DEF Next, Done, MapNext
<1> QED
  BY <1>1, InitMaps, Invariance, PTL DEF Spec, ImplementsChannel, Abstract!Spec

=============================================================================
