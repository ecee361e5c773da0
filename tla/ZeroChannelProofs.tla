------------------------- MODULE ZeroChannelProofs -------------------------
(***************************************************************************)
(* Proofs about ZeroChannel for any finite sets of senders and receivers   *)
(* and any number of messages: a packet on the stack of a blocked thread   *)
(* outlives its use by the partner, and the channel implements the         *)
(* rendezvous.                                                             *)
(***************************************************************************)
EXTENDS ZeroChannel, MpmcProofs

-----------------------------------------------------------------------------
(***************************************************************************)
(* The inductive invariant                                                 *)
(***************************************************************************)
Points ==
  {"idle", "start", "wait", "park", "wait_ready", "unregister", "unpark", "write", "read",
   "signal", "done", "refused", "disconnect_chan", "unpark_all", "destroy", "free", "gone"}

Messages == Senders \X (1 .. MaxSends)

TypeOK ==
  /\ pc \in [Threads -> Points]
  /\ select \in [Threads -> {"Waiting", "Operation", "Disconnected", "Aborted"}]
  /\ selectors \in [Queues -> Seq(Threads)]
  /\ ready \in [Threads -> BOOLEAN]
  /\ partner \in [Threads -> Threads \cup {None}]
  /\ msg \in [Threads -> Messages \cup {None}]
  /\ left \in [Senders -> 0 .. MaxSends]

\* The entries of a queue are threads of its side, each once, that are inside
\* wait_until or about to unregister; that of a selected thread is gone.
QueueInv ==
  \A w \in Queues :
    /\ \A i \in 1 .. Len(selectors[w]) :
         LET u == selectors[w][i]
         IN  own(u) = w /\ pc[u] \in {"wait", "park", "unregister"} /\ select[u] # "Operation"
    /\ Distinct(selectors[w])

\* A context is reset outside of wait_until.
ContextInv ==
  \A t \in Threads :
    /\ select[t] = "Operation" => pc[t] \in {"wait", "park"}
    /\ select[t] = "Aborted" => pc[t] = "unregister"
    /\ pc[t] = "unregister" => select[t] \in {"Aborted", "Disconnected"}
    /\ pc[t] \notin {"wait", "park", "unregister"} => select[t] = "Waiting"

Pairing == {"unpark", "write", "read", "signal"}

\* The thread's operation has been selected: its packet is in use.
Engaged(u) == pc[u] = "wait_ready" \/ select[u] = "Operation"

PairInv ==
  /\ \A t \in Threads :
       /\ partner[t] # None <=> pc[t] \in Pairing
       /\ partner[t] # None => own(partner[t]) = peer(t) /\ Engaged(partner[t]) /\ ~ready[partner[t]]
       /\ pc[t] = "write" => t \in Senders
       /\ pc[t] = "read" => t \in Receivers
       /\ ready[t] => Engaged(t)
       /\ Engaged(t) => ready[t] \/ Taken(t)
  /\ \A t, u \in Threads : partner[t] # None /\ partner[t] = partner[u] => t = u

IInv == TypeOK /\ QueueInv /\ ContextInv /\ PairInv

\* What pair_up does to thread t and to the partner that it finds.
PairsUp(t, u, i) ==
  /\ u # t /\ own(u) = peer(t) /\ select[u] = "Waiting" /\ pc[u] \in {"wait", "park"}
  /\ pc[t] = "start" /\ pc' = [pc EXCEPT ![t] = "unpark"]
  /\ select' = [select EXCEPT ![u] = "Operation"]
  /\ partner' = [partner EXCEPT ![t] = u]
  /\ i \in 1 .. Len(selectors[peer(t)]) /\ selectors[peer(t)][i] = u
  /\ selectors' = [selectors EXCEPT ![peer(t)] = RemoveAt(selectors[peer(t)], i)]
  /\ UNCHANGED <<msg, ready, left>>

LEMMA PairEffect ==
  ASSUME IInv, NEW t \in Threads, pair_up(t)
  PROVE  \E u \in Threads, i \in Nat : PairsUp(t, u, i)
<1> DEFINE w == peer(t)
           i == Selectable(t, w)
           u == selectors[w][i]
<1>1. i # 0 /\ select_entry(t, i) /\ partner' = [partner EXCEPT ![t] = u]
  BY DEF pair_up
<1>2. i \in 1 .. Len(selectors[w]) /\ u # t /\ select[u] = "Waiting"
  BY <1>1, SelectableIs
<1>3. w \in Queues /\ selectors[w] \in Seq(Threads)
  BY Sides DEF IInv, TypeOK
<1>4. u \in Threads
  BY <1>2, <1>3, ElementOfSeq
<1>5. own(u) = w /\ pc[u] \in {"wait", "park", "unregister"}
  BY <1>2, <1>3 DEF IInv, QueueInv
<1>6. pc[u] \in {"wait", "park"}
  BY <1>2, <1>4, <1>5 DEF IInv, ContextInv
<1>7. /\ select' = [select EXCEPT ![u] = "Operation"]
      /\ selectors' = [selectors EXCEPT ![w] = RemoveAt(selectors[w], i)]
  BY <1>1 DEF select_entry
<1>8. /\ pc[t] = "start" /\ pc' = [pc EXCEPT ![t] = "unpark"]
      /\ UNCHANGED <<msg, ready, left>>
  BY DEF pair_up, Goto
<1> HIDE DEF w, i, u
<1> QED
  <2>1. i \in Nat
    BY <1>2
  <2> QED
    BY <1>1, <1>2, <1>4, <1>5, <1>6, <1>7, <1>8, <2>1 DEF w, u, PairsUp

\* What a step inside wait_until does: sleep or wake up, go on with a selected
\* operation, or give up.
Waits(t) ==
  /\ UNCHANGED <<selectors, msg, ready, partner, left>>
  /\ pc[t] \in {"wait", "park"}
  /\ \/ \E to \in {"wait", "park"} : pc' = [pc EXCEPT ![t] = to] /\ UNCHANGED select
     \/ /\ select[t] = "Operation" /\ pc' = [pc EXCEPT ![t] = "wait_ready"]
        /\ select' = [select EXCEPT ![t] = "Waiting"]
     \/ /\ select[t] = "Disconnected" /\ pc' = [pc EXCEPT ![t] = "unregister"]
        /\ UNCHANGED select
     \/ /\ select[t] = "Waiting" /\ pc' = [pc EXCEPT ![t] = "unregister"]
        /\ select' = [select EXCEPT ![t] = "Aborted"]

LEMMA WaitEffect ==
  ASSUME IInv, NEW t \in Threads, wait_until(t) \/ expire(t)
  PROVE  Waits(t)
<1>1. UNCHANGED <<selectors, msg, ready, partner, left>>
  BY DEF wait_until, expire
<1>2. select[t] = "Aborted" => pc[t] = "unregister"
  BY DEF IInv, ContextInv
<1>3. select \in [Threads -> {"Waiting", "Operation", "Disconnected", "Aborted"}]
  BY DEF IInv, TypeOK
<1>4. CASE wait_load(t, "wait_ready")
  BY <1>1, <1>2, <1>3, <1>4 DEF Waits, wait_load, Return, Goto, Decided
<1>5. CASE park(t)
  BY <1>1, <1>5 DEF Waits, park, Goto
<1>6. CASE expire(t)
  BY <1>1, <1>2, <1>3, <1>6 DEF Waits, expire, timeout, Abort, Return, Goto, Decided
<1> QED
  BY <1>4, <1>5, <1>6 DEF wait_until

\* What a disconnection does: everybody in a queue who is undecided hears of it.
Disconnects(t, T) ==
  /\ pc[t] = "disconnect_chan"
  /\ \E to \in {"unpark_all", "destroy"} : pc' = [pc EXCEPT ![t] = to]
  /\ UNCHANGED <<selectors, msg, ready, partner, left>>
  /\ \A u \in T : select[u] = "Waiting" /\ pc[u] \in {"wait", "park"}
  /\ select' = [u \in Threads |-> IF u \in T THEN "Disconnected" ELSE select[u]]

LEMMA DisconnectEffect ==
  ASSUME IInv, NEW t \in Threads, disconnect(t)
  PROVE  \E T \in SUBSET Threads : Disconnects(t, T)
<1>1. /\ UNCHANGED <<selectors, msg, ready, partner, left>>
      /\ pc[t] = "disconnect_chan"
      /\ \E to \in {"unpark_all", "destroy"} : pc' = [pc EXCEPT ![t] = to]
  BY DEF disconnect, Goto
<1>2. CASE select_all(t, Queues)
  <2> DEFINE T == {u \in Threads : select[u] = "Waiting" /\ \E w \in Queues : u \in ToSet(selectors[w])}
  <2>1. select' = [u \in Threads |-> IF u \in T THEN "Disconnected" ELSE select[u]]
    BY <1>2 DEF select_all
  <2>2. ASSUME NEW u \in T PROVE select[u] = "Waiting" /\ pc[u] \in {"wait", "park"}
    <3>1. PICK w \in Queues : u \in ToSet(selectors[w])
      OBVIOUS
    <3>2. selectors[w] \in Seq(Threads)
      BY DEF IInv, TypeOK
    <3>3. PICK i \in 1 .. Len(selectors[w]) : u = selectors[w][i]
      BY <3>1, <3>2, LenProperties DEF ToSet
    <3>4. pc[u] \in {"wait", "park", "unregister"}
      BY <3>3 DEF IInv, QueueInv
    <3> QED
      BY <3>4 DEF IInv, ContextInv
  <2> QED
    BY <1>1, <2>1, <2>2 DEF Disconnects
<1>3. CASE UNCHANGED select
  <2>1. select = [u \in Threads |-> IF u \in {} THEN "Disconnected" ELSE select[u]]
    BY DEF IInv, TypeOK
  <2> DEFINE T == {}
  <2>2. /\ T \in SUBSET Threads
        /\ \A u \in T : select[u] = "Waiting" /\ pc[u] \in {"wait", "park"}
        /\ select' = [u \in Threads |-> IF u \in T THEN "Disconnected" ELSE select[u]]
    BY <1>3, <2>1
  <2> QED
    BY <1>1, <2>2 DEF Disconnects
<1> QED
  BY <1>2, <1>3 DEF disconnect, Queues

LEMMA TypeStep ==
  ASSUME IInv, [Next]_vars
  PROVE  TypeOK'
<1>0. TypeOK /\ PairInv
  BY DEF IInv
<1> USE <1>0 DEF TypeOK, Points
<1>1. ASSUME NEW t \in Threads, call(t) PROVE TypeOK'
  <2>1. ASSUME t \in Senders, left[t] > 0 PROVE left[t] \in 1 .. MaxSends /\ left[t] - 1 \in 0 .. MaxSends
    BY <2>1, MaxSendsAssumption
  <2>2. UNCHANGED <<select, selectors, ready, partner>> /\ pc' = [pc EXCEPT ![t] = "start"]
    BY <1>1 DEF call, Goto, context
  <2>3. CASE t \in Senders /\ left[t] > 0
             /\ left' = [left EXCEPT ![t] = left[t] - 1] /\ msg' = [msg EXCEPT ![t] = <<t, left[t]>>]
    BY <2>1, <2>2, <2>3 DEF Messages
  <2>4. CASE UNCHANGED <<msg, left>>
    BY <2>2, <2>4
  <2> QED
    BY <1>1, <2>3, <2>4 DEF call
<1>2. ASSUME NEW t \in Threads, pair_up(t) PROVE TypeOK'
  <2>1. PICK u \in Threads, i \in Nat : PairsUp(t, u, i)
    BY <1>2, PairEffect
  <2>2. RemoveAt(selectors[peer(t)], i) \in Seq(Threads)
    BY <2>1, Sides, RemoveAtIs DEF PairsUp
  <2> QED
    BY <2>1, <2>2 DEF PairsUp
<1>3. ASSUME NEW t \in Threads, block(t) PROVE TypeOK'
  <2>1. Append(selectors[own(t)], t) \in Seq(Threads)
    BY Sides, AppendProperties
  <2> QED
    BY <1>3, <2>1 DEF block, push, Goto, context
<1>4. ASSUME NEW t \in Threads, unpark(t) PROVE TypeOK'
  BY <1>4 DEF unpark, Goto, unpark_woken
<1>5. ASSUME NEW t \in Threads, write(t) PROVE TypeOK'
  <2>1. pc[t] = "write" /\ pc' = [pc EXCEPT ![t] = "signal"]
    BY <1>5 DEF write, Goto
  <2>2. UNCHANGED <<select, selectors, ready, partner, left>>
    BY <1>5 DEF write, context
  <2>3. msg' \in [Threads -> Messages \cup {None}]
    BY <1>5 DEF write
  <2> QED
    BY <2>1, <2>2, <2>3
<1>6. ASSUME NEW t \in Threads, read(t) PROVE TypeOK'
  <2>1. pc[t] = "read" /\ pc' = [pc EXCEPT ![t] = "signal"]
    BY <1>6 DEF read, Goto
  <2>2. UNCHANGED <<select, selectors, ready, partner, left>>
    BY <1>6 DEF read, context
  <2>3. partner[t] \in Threads
    BY <2>1 DEF PairInv, Pairing
  <2>4. msg' \in [Threads -> Messages \cup {None}]
    BY <1>6, <2>3 DEF read
  <2> QED
    BY <2>1, <2>2, <2>4
<1>7. ASSUME NEW t \in Threads, signal(t) PROVE TypeOK'
  BY <1>7 DEF signal, Goto, context
<1>8. ASSUME NEW t \in Threads, wait_until(t) PROVE TypeOK'
  <2>1. Waits(t)
    BY <1>8, WaitEffect
  <2> QED
    BY <2>1 DEF Waits
<1>9. ASSUME NEW t \in Threads, expire(t) PROVE TypeOK'
  <2>1. Waits(t)
    BY <1>9, WaitEffect
  <2> QED
    BY <2>1 DEF Waits
<1>10. ASSUME NEW t \in Threads, wait_ready(t) PROVE TypeOK'
  BY <1>10 DEF wait_ready, Goto, context
<1>11. ASSUME NEW t \in Threads, unregister(t) PROVE TypeOK'
  <2>1. RemoveFirst(selectors[own(t)], t) \in Seq(Threads)
    <3>1. own(t) \in Queues /\ selectors[own(t)] \in Seq(Threads)
      BY Sides
    <3> QED
      BY ONLY <3>1, RemoveFirstIs, RemoveAtIs
  <2> QED
    BY <1>11, <2>1 DEF unregister, remove, Goto, Decided
<1>12. ASSUME NEW t \in Threads, return(t) PROVE TypeOK'
  BY <1>12 DEF return, Goto, context
<1>13. ASSUME NEW t \in Threads, drop_handle(t) PROVE TypeOK'
  BY <1>13 DEF drop_handle, release, Goto, context
<1>14. ASSUME NEW t \in Threads, disconnect(t) PROVE TypeOK'
  <2>1. PICK T \in SUBSET Threads : Disconnects(t, T)
    BY <1>14, DisconnectEffect
  <2> QED
    BY <2>1 DEF Disconnects
<1>15. ASSUME NEW t \in Threads, disconnect_unpark(t) PROVE TypeOK'
  BY <1>15 DEF disconnect_unpark, Goto, unpark_woken
<1>16. ASSUME NEW t \in Threads, destroy_channel(t) PROVE TypeOK'
  BY <1>16 DEF destroy_channel, release_destroy, free_channel, Goto, context
<1>17. CASE UNCHANGED vars
  BY <1>17 DEF vars, context
<1> QED
  BY <1>1, <1>2, <1>3, <1>4, <1>5, <1>6, <1>7, <1>8, <1>9,
     <1>10, <1>11, <1>12, <1>13, <1>14, <1>15, <1>16, <1>17
     DEF Next, Step, Done

\* Steps that leave the queues and those in them alone.
LEMMA QueueUnchanged ==
  ASSUME TypeOK, QueueInv, selectors' = selectors,
         \A u \in Threads :
           pc[u] \in {"wait", "park", "unregister"} /\ select[u] # "Operation"
             => pc'[u] \in {"wait", "park", "unregister"} /\ select'[u] # "Operation"
  PROVE  QueueInv'
<1>1. ASSUME NEW w \in Queues, NEW i \in 1 .. Len(selectors[w])
      PROVE  selectors[w][i] \in Threads
  BY <1>1, ElementOfSeq DEF TypeOK
<1> QED
  BY <1>1 DEF QueueInv

\* Steps after which a queue holds what it held, or one thread more.
LEMMA QueueKept ==
  ASSUME TypeOK, QueueInv,
         \A w \in Queues :
           /\ Distinct(selectors'[w])
           /\ \A j \in 1 .. Len(selectors'[w]) :
                LET v == selectors'[w][j]
                IN  \/ own(v) = w /\ pc'[v] = "wait" /\ select'[v] = "Waiting"
                    \/ /\ \E k \in 1 .. Len(selectors[w]) : v = selectors[w][k]
                       /\ pc'[v] = pc[v]
                       /\ select'[v] # "Operation"
  PROVE  QueueInv'
BY DEF QueueInv

LEMMA Entries ==
  ASSUME TypeOK
  PROVE  \A w \in Queues : \A i \in 1 .. Len(selectors[w]) : selectors[w][i] \in Threads
BY ElementOfSeq DEF TypeOK

LEMMA QueueStep ==
  ASSUME IInv, [Next]_vars
  PROVE  QueueInv'
<1>0. TypeOK /\ QueueInv /\ ContextInv
  BY DEF IInv
<1> USE <1>0 DEF TypeOK
<1>1. ASSUME NEW t \in Threads, call(t) PROVE QueueInv'
  BY <1>1, QueueUnchanged DEF call, Goto, context
<1>2. ASSUME NEW t \in Threads, pair_up(t) PROVE QueueInv'
  <2>1. PICK u \in Threads, i \in Nat : PairsUp(t, u, i)
    BY <1>2, PairEffect
  <2>2. ASSUME NEW w \in Queues
        PROVE  /\ Distinct(selectors'[w])
               /\ \A j \in 1 .. Len(selectors'[w]) :
                    \E k \in 1 .. Len(selectors[w]) :
                      selectors'[w][j] = selectors[w][k] /\ selectors[w][k] # u
    <3>1. CASE w = peer(t)
      <4>1. /\ selectors'[w] = RemoveAt(selectors[w], i) /\ i \in 1 .. Len(selectors[w])
            /\ selectors[w][i] = u /\ selectors[w] \in Seq(Threads)
        BY <2>1, <3>1 DEF PairsUp
      <4>2. Distinct(selectors[w])
        BY DEF QueueInv
      <4>3. /\ Distinct(RemoveAt(selectors[w], i))
            /\ \A j \in 1 .. Len(RemoveAt(selectors[w], i)) :
                 \E k \in 1 .. Len(selectors[w]) :
                   RemoveAt(selectors[w], i)[j] = selectors[w][k] /\ selectors[w][k] # selectors[w][i]
        BY <4>1, <4>2, RemovesOne, SMTT(60)
      <4> QED
        BY <4>1, <4>3
    <3>2. CASE w # peer(t)
      <4>1. selectors'[w] = selectors[w]
        BY <2>1, <3>2 DEF PairsUp
      <4> QED
        BY <2>1, <3>2, <4>1 DEF QueueInv, PairsUp
    <3> QED
      BY <3>1, <3>2
  <2>3. ASSUME NEW w \in Queues, NEW j \in 1 .. Len(selectors'[w])
        PROVE  LET v == selectors'[w][j]
               IN  \/ own(v) = w /\ pc'[v] = "wait" /\ select'[v] = "Waiting"
                   \/ /\ \E k \in 1 .. Len(selectors[w]) : v = selectors[w][k]
                      /\ pc'[v] = pc[v] /\ select'[v] # "Operation"
    <3>1. PICK k \in 1 .. Len(selectors[w]) :
            selectors'[w][j] = selectors[w][k] /\ selectors[w][k] # u
      BY <2>2
    <3>2. selectors[w][k] \in Threads /\ selectors[w][k] # t /\ select[selectors[w][k]] # "Operation"
      BY <2>1, Entries DEF QueueInv, PairsUp
    <3> QED
      BY <2>1, <3>1, <3>2 DEF PairsUp
  <2> QED
    BY <2>2, <2>3, QueueKept
<1>3. ASSUME NEW t \in Threads, block(t) PROVE QueueInv'
  <2>1. pc[t] = "start" /\ UNCHANGED select
    BY <1>3 DEF block, Goto, context
  <2>2. CASE UNCHANGED selectors /\ pc' = [pc EXCEPT ![t] = "refused"]
    BY <2>1, <2>2, QueueUnchanged
  <2>3. CASE push(t) /\ pc' = [pc EXCEPT ![t] = "wait"]
    <3>1. select[t] = "Waiting"
      BY <2>1 DEF ContextInv
    <3>2. ASSUME NEW w \in Queues
          PROVE  /\ Distinct(selectors'[w])
                 /\ \A j \in 1 .. Len(selectors'[w]) :
                      \/ selectors'[w][j] = t /\ own(t) = w
                      \/ \E k \in 1 .. Len(selectors[w]) : selectors'[w][j] = selectors[w][k]
      <4>1. CASE w = own(t)
        <5>1. \A i \in 1 .. Len(selectors[w]) : selectors[w][i] # t
          BY <2>1 DEF QueueInv
        <5>2. selectors'[w] = Append(selectors[w], t)
          BY <2>3, <4>1 DEF push
        <5> QED
          BY <4>1, <5>1, <5>2, PushesOne DEF QueueInv
      <4>2. CASE w # own(t)
        <5>1. selectors'[w] = selectors[w]
          BY <2>3, <4>2 DEF push
        <5> QED
          BY <5>1 DEF QueueInv
      <4> QED
        BY <4>1, <4>2
    <3>3. ASSUME NEW w \in Queues, NEW j \in 1 .. Len(selectors'[w])
          PROVE  LET v == selectors'[w][j]
                 IN  \/ own(v) = w /\ pc'[v] = "wait" /\ select'[v] = "Waiting"
                     \/ /\ \E k \in 1 .. Len(selectors[w]) : v = selectors[w][k]
                        /\ pc'[v] = pc[v] /\ select'[v] # "Operation"
      <4>1. CASE selectors'[w][j] = t /\ own(t) = w
        BY <2>1, <2>3, <3>1, <4>1
      <4>2. ASSUME NEW k \in 1 .. Len(selectors[w]), selectors'[w][j] = selectors[w][k]
            PROVE  /\ pc'[selectors[w][k]] = pc[selectors[w][k]]
                   /\ select'[selectors[w][k]] # "Operation"
        BY <2>1, <2>3, <4>2, Entries DEF QueueInv
      <4>3. CASE \E k \in 1 .. Len(selectors[w]) : selectors'[w][j] = selectors[w][k]
        <5>1. PICK k \in 1 .. Len(selectors[w]) : selectors'[w][j] = selectors[w][k]
          BY <4>3
        <5>2. /\ pc'[selectors'[w][j]] = pc[selectors'[w][j]]
              /\ select'[selectors'[w][j]] # "Operation"
          BY <4>2, <5>1
        <5> QED
          BY <5>1, <5>2, Zenon
      <4>4. \/ selectors'[w][j] = t /\ own(t) = w
            \/ \E k \in 1 .. Len(selectors[w]) : selectors'[w][j] = selectors[w][k]
        BY <3>2, Zenon
      <4> QED
        BY <4>1, <4>3, <4>4, Zenon
    <3> QED
      BY <3>2, <3>3, QueueKept
  <2> QED
    BY <1>3, <2>2, <2>3 DEF block, Goto
<1>4. ASSUME NEW t \in Threads, unpark(t) PROVE QueueInv'
  BY <1>4, QueueUnchanged DEF unpark, Goto, unpark_woken
<1>5. ASSUME NEW t \in Threads, write(t) PROVE QueueInv'
  BY <1>5, QueueUnchanged DEF write, Goto, context
<1>6. ASSUME NEW t \in Threads, read(t) PROVE QueueInv'
  BY <1>6, QueueUnchanged DEF read, Goto, context
<1>7. ASSUME NEW t \in Threads, signal(t) PROVE QueueInv'
  BY <1>7, QueueUnchanged DEF signal, Goto, context
<1>8. ASSUME NEW t \in Threads, wait_until(t) PROVE QueueInv'
  <2>1. Waits(t)
    BY <1>8, WaitEffect
  <2> QED
    BY <2>1, QueueUnchanged DEF Waits
<1>9. ASSUME NEW t \in Threads, expire(t) PROVE QueueInv'
  <2>1. Waits(t)
    BY <1>9, WaitEffect
  <2> QED
    BY <2>1, QueueUnchanged DEF Waits
<1>10. ASSUME NEW t \in Threads, wait_ready(t) PROVE QueueInv'
  BY <1>10, QueueUnchanged DEF wait_ready, Goto, context
<1>11. ASSUME NEW t \in Threads, unregister(t) PROVE QueueInv'
  <2>1. /\ pc' = [pc EXCEPT ![t] = "refused"] /\ select' = [select EXCEPT ![t] = "Waiting"]
        /\ selectors' = [selectors EXCEPT ![own(t)] = RemoveFirst(selectors[own(t)], t)]
    BY <1>11 DEF unregister, remove, Goto, Decided
  <2>2. ASSUME NEW w \in Queues
        PROVE  /\ Distinct(selectors'[w])
               /\ \A j \in 1 .. Len(selectors'[w]) :
                    \E k \in 1 .. Len(selectors[w]) :
                      selectors'[w][j] = selectors[w][k] /\ selectors[w][k] # t
    <3>1. CASE w = own(t)
      <4>1. CASE RemoveFirst(selectors[w], t) = selectors[w] /\ \A i \in 1 .. Len(selectors[w]) : selectors[w][i] # t
        BY <2>1, <3>1, <4>1 DEF QueueInv
      <4>2. CASE \E i \in 1 .. Len(selectors[w]) :
                   selectors[w][i] = t /\ RemoveFirst(selectors[w], t) = RemoveAt(selectors[w], i)
        BY <2>1, <3>1, <4>2, RemovesOne DEF QueueInv
      <4> QED
        BY <4>1, <4>2, RemoveFirstIs
    <3>2. CASE w # own(t)
      <4>1. selectors'[w] = selectors[w]
        BY <2>1, <3>2
      <4> QED
        BY <3>2, <4>1 DEF QueueInv
    <3> QED
      BY <3>1, <3>2
  <2>3. ASSUME NEW w \in Queues, NEW j \in 1 .. Len(selectors'[w])
        PROVE  LET v == selectors'[w][j]
               IN  \/ own(v) = w /\ pc'[v] = "wait" /\ select'[v] = "Waiting"
                   \/ /\ \E k \in 1 .. Len(selectors[w]) : v = selectors[w][k]
                      /\ pc'[v] = pc[v] /\ select'[v] # "Operation"
    <3>1. PICK k \in 1 .. Len(selectors[w]) :
            selectors'[w][j] = selectors[w][k] /\ selectors[w][k] # t
      BY <2>2
    <3>2. selectors[w][k] \in Threads /\ select[selectors[w][k]] # "Operation"
      BY Entries DEF QueueInv
    <3> QED
      BY <2>1, <3>1, <3>2
  <2> QED
    BY <2>2, <2>3, QueueKept
<1>12. ASSUME NEW t \in Threads, return(t) PROVE QueueInv'
  BY <1>12, QueueUnchanged DEF return, Goto, context
<1>13. ASSUME NEW t \in Threads, drop_handle(t) PROVE QueueInv'
  BY <1>13, QueueUnchanged DEF drop_handle, release, Goto, context
<1>14. ASSUME NEW t \in Threads, disconnect(t) PROVE QueueInv'
  <2>1. PICK T \in SUBSET Threads : Disconnects(t, T)
    BY <1>14, DisconnectEffect
  <2> QED
    BY <2>1, QueueUnchanged DEF Disconnects
<1>15. ASSUME NEW t \in Threads, disconnect_unpark(t) PROVE QueueInv'
  BY <1>15, QueueUnchanged DEF disconnect_unpark, Goto, unpark_woken
<1>16. ASSUME NEW t \in Threads, destroy_channel(t) PROVE QueueInv'
  BY <1>16, QueueUnchanged DEF destroy_channel, release_destroy, free_channel, Goto, context
<1>17. CASE UNCHANGED vars
  BY <1>17, QueueUnchanged DEF vars, context
<1> QED
  BY <1>1, <1>2, <1>3, <1>4, <1>5, <1>6, <1>7, <1>8, <1>9,
     <1>10, <1>11, <1>12, <1>13, <1>14, <1>15, <1>16, <1>17
     DEF Next, Step, Done

LEMMA ContextStep ==
  ASSUME IInv, [Next]_vars
  PROVE  ContextInv'
<1>0. TypeOK /\ ContextInv
  BY DEF IInv
<1> USE <1>0 DEF TypeOK, ContextInv
<1>1. ASSUME NEW t \in Threads, call(t) PROVE ContextInv'
  BY <1>1 DEF call, Goto, context
<1>2. ASSUME NEW t \in Threads, pair_up(t) PROVE ContextInv'
  <2>1. PICK u \in Threads, i \in Nat : PairsUp(t, u, i)
    BY <1>2, PairEffect
  <2> QED
    BY <2>1 DEF PairsUp
<1>3. ASSUME NEW t \in Threads, block(t) PROVE ContextInv'
  BY <1>3 DEF block, Goto, context
<1>4. ASSUME NEW t \in Threads, unpark(t) PROVE ContextInv'
  BY <1>4 DEF unpark, Goto, unpark_woken
<1>5. ASSUME NEW t \in Threads, write(t) PROVE ContextInv'
  BY <1>5 DEF write, Goto, context
<1>6. ASSUME NEW t \in Threads, read(t) PROVE ContextInv'
  BY <1>6 DEF read, Goto, context
<1>7. ASSUME NEW t \in Threads, signal(t) PROVE ContextInv'
  BY <1>7 DEF signal, Goto, context
<1>8. ASSUME NEW t \in Threads, wait_until(t) PROVE ContextInv'
  <2>1. Waits(t)
    BY <1>8, WaitEffect
  <2> QED
    BY <2>1 DEF Waits
<1>9. ASSUME NEW t \in Threads, expire(t) PROVE ContextInv'
  <2>1. Waits(t)
    BY <1>9, WaitEffect
  <2> QED
    BY <2>1 DEF Waits
<1>10. ASSUME NEW t \in Threads, wait_ready(t) PROVE ContextInv'
  BY <1>10 DEF wait_ready, Goto, context
<1>11. ASSUME NEW t \in Threads, unregister(t) PROVE ContextInv'
  BY <1>11 DEF unregister, Goto, Decided
<1>12. ASSUME NEW t \in Threads, return(t) PROVE ContextInv'
  BY <1>12 DEF return, Goto, context
<1>13. ASSUME NEW t \in Threads, drop_handle(t) PROVE ContextInv'
  BY <1>13 DEF drop_handle, release, Goto, context
<1>14. ASSUME NEW t \in Threads, disconnect(t) PROVE ContextInv'
  <2>1. PICK T \in SUBSET Threads : Disconnects(t, T)
    BY <1>14, DisconnectEffect
  <2> QED
    BY <2>1 DEF Disconnects
<1>15. ASSUME NEW t \in Threads, disconnect_unpark(t) PROVE ContextInv'
  BY <1>15 DEF disconnect_unpark, Goto, unpark_woken
<1>16. ASSUME NEW t \in Threads, destroy_channel(t) PROVE ContextInv'
  BY <1>16 DEF destroy_channel, release_destroy, free_channel, Goto, context
<1>17. CASE UNCHANGED vars
  BY <1>17 DEF vars, context
<1> QED
  BY <1>1, <1>2, <1>3, <1>4, <1>5, <1>6, <1>7, <1>8, <1>9,
     <1>10, <1>11, <1>12, <1>13, <1>14, <1>15, <1>16, <1>17
     DEF Next, Step, Done

\* Steps that neither make nor end a pair.
LEMMA PairUnchanged ==
  ASSUME TypeOK, PairInv, UNCHANGED <<partner, ready>>,
         \A u \in Threads :
           /\ pc'[u] \in Pairing <=> pc[u] \in Pairing
           /\ pc'[u] \in {"write", "read"} => pc'[u] = pc[u]
           /\ Engaged(u)' <=> Engaged(u)
  PROVE  PairInv'
<1>1. \A u \in Threads : partner[u] # None => partner[u] \in Threads
  BY DEF TypeOK
<1>2. \A u \in Threads : Taken(u)' <=> Taken(u)
  BY DEF Taken
<1> QED
  BY <1>1, <1>2 DEF PairInv

LEMMA PairStep ==
  ASSUME IInv, [Next]_vars
  PROVE  PairInv'
<1>0. TypeOK /\ ContextInv /\ PairInv
  BY DEF IInv
<1>00. None \notin Threads
  BY NoneAssumption DEF Threads
<1> USE <1>0, <1>00 DEF TypeOK, ContextInv, PairInv, Pairing, Engaged, Taken
<1>1. ASSUME NEW t \in Threads, call(t) PROVE PairInv'
  BY <1>1 DEF call, Goto, context
<1>2. ASSUME NEW t \in Threads, pair_up(t) PROVE PairInv'
  <2>1. PICK u \in Threads, i \in Nat : PairsUp(t, u, i)
    BY <1>2, PairEffect
  <2>2. ~Engaged(u) /\ pc[t] = "start"
    BY <2>1 DEF PairsUp
  <2>3. partner[t] = None
    BY <2>2
  <2>4. ~ready[u]
    BY <2>2
  <2>5. ASSUME NEW v \in Threads PROVE partner[v] # u
    BY <2>2
  <2> QED
    BY <2>1, <2>3, <2>4, <2>5 DEF PairsUp
<1>3. ASSUME NEW t \in Threads, block(t) PROVE PairInv'
  BY <1>3 DEF block, Goto, context
<1>4. ASSUME NEW t \in Threads, unpark(t) PROVE PairInv'
  BY <1>4 DEF unpark, Goto, unpark_woken, Threads
<1>5. ASSUME NEW t \in Threads, write(t) PROVE PairInv'
  BY <1>5 DEF write, Goto, context
<1>6. ASSUME NEW t \in Threads, read(t) PROVE PairInv'
  BY <1>6 DEF read, Goto, context
<1>7. ASSUME NEW t \in Threads, signal(t) PROVE PairInv'
  BY <1>7 DEF signal, Goto, context
<1>8. ASSUME NEW t \in Threads, wait_until(t) PROVE PairInv'
  <2>1. Waits(t)
    BY <1>8, WaitEffect
  <2>2. CASE \E to \in {"wait", "park"} : pc' = [pc EXCEPT ![t] = to] /\ UNCHANGED select
    <3>1. \A u \in Threads : Engaged(u)' <=> Engaged(u)
      BY <2>1, <2>2 DEF Waits
    <3> QED
      BY <2>1, <2>2, <3>1, PairUnchanged DEF Waits
  <2>3. CASE /\ select[t] = "Operation" /\ pc' = [pc EXCEPT ![t] = "wait_ready"]
             /\ select' = [select EXCEPT ![t] = "Waiting"]
    BY <2>1, <2>3 DEF Waits
  <2>4. CASE /\ select[t] # "Operation" /\ pc' = [pc EXCEPT ![t] = "unregister"]
             /\ UNCHANGED select \/ select' = [select EXCEPT ![t] = "Aborted"]
    <3>1. \A u \in Threads : Engaged(u)' <=> Engaged(u)
      BY <2>1, <2>4 DEF Waits
    <3> QED
      BY <2>1, <2>4, <3>1, PairUnchanged DEF Waits
  <2> QED
    BY <2>1, <2>2, <2>3, <2>4 DEF Waits
<1>9. ASSUME NEW t \in Threads, expire(t) PROVE PairInv'
  <2>1. Waits(t)
    BY <1>9, WaitEffect
  <2>2. CASE \E to \in {"wait", "park"} : pc' = [pc EXCEPT ![t] = to] /\ UNCHANGED select
    <3>1. \A u \in Threads : Engaged(u)' <=> Engaged(u)
      BY <2>1, <2>2 DEF Waits
    <3> QED
      BY <2>1, <2>2, <3>1, PairUnchanged DEF Waits
  <2>3. CASE /\ select[t] = "Operation" /\ pc' = [pc EXCEPT ![t] = "wait_ready"]
             /\ select' = [select EXCEPT ![t] = "Waiting"]
    BY <2>1, <2>3 DEF Waits
  <2>4. CASE /\ select[t] # "Operation" /\ pc' = [pc EXCEPT ![t] = "unregister"]
             /\ UNCHANGED select \/ select' = [select EXCEPT ![t] = "Aborted"]
    <3>1. \A u \in Threads : Engaged(u)' <=> Engaged(u)
      BY <2>1, <2>4 DEF Waits
    <3> QED
      BY <2>1, <2>4, <3>1, PairUnchanged DEF Waits
  <2> QED
    BY <2>1, <2>2, <2>3, <2>4 DEF Waits
<1>10. ASSUME NEW t \in Threads, wait_ready(t) PROVE PairInv'
  BY <1>10 DEF wait_ready, Goto, context
<1>11. ASSUME NEW t \in Threads, unregister(t) PROVE PairInv'
  BY <1>11 DEF unregister, Goto, Decided
<1>12. ASSUME NEW t \in Threads, return(t) PROVE PairInv'
  <2>1. pc[t] \in {"done", "refused"} /\ pc' = [pc EXCEPT ![t] = "idle"]
    BY <1>12 DEF return, Goto
  <2>2. UNCHANGED <<select, partner, ready>>
    BY <1>12 DEF return, context
  <2> QED
    BY <2>1, <2>2, PairUnchanged
<1>13. ASSUME NEW t \in Threads, drop_handle(t) PROVE PairInv'
  BY <1>13 DEF drop_handle, release, Goto, context
<1>14. ASSUME NEW t \in Threads, disconnect(t) PROVE PairInv'
  <2>1. PICK T \in SUBSET Threads : Disconnects(t, T)
    BY <1>14, DisconnectEffect
  <2> QED
    BY <2>1 DEF Disconnects
<1>15. ASSUME NEW t \in Threads, disconnect_unpark(t) PROVE PairInv'
  BY <1>15 DEF disconnect_unpark, Goto, unpark_woken
<1>16. ASSUME NEW t \in Threads, destroy_channel(t) PROVE PairInv'
  <2>1. PICK to \in {"free", "gone"} : pc[t] \in {"destroy", "free"} /\ pc' = [pc EXCEPT ![t] = to]
    BY <1>16 DEF destroy_channel, release_destroy, free_channel, Goto
  <2>2. UNCHANGED <<select, partner, ready>>
    BY <1>16 DEF destroy_channel, context
  <2> QED
    BY <2>1, <2>2, PairUnchanged
<1>17. CASE UNCHANGED vars
  BY <1>17 DEF vars, context
<1> QED
  BY <1>1, <1>2, <1>3, <1>4, <1>5, <1>6, <1>7, <1>8, <1>9,
     <1>10, <1>11, <1>12, <1>13, <1>14, <1>15, <1>16, <1>17
     DEF Next, Step, Done

LEMMA Inductive == Spec => []IInv
<1>1. Init => IInv
  <2> SUFFICES ASSUME Init PROVE IInv
    OBVIOUS
  <2>1. selectors \in [Queues -> Seq(Threads)] /\ \A w \in Queues : Len(selectors[w]) = 0
    BY EmptySeq DEF Init, MpmcInit, Queues
  <2>2. TypeOK
    BY <2>1, MaxSendsAssumption DEF Init, MpmcInit, TypeOK, Points
  <2>3. QueueInv
    BY <2>1 DEF QueueInv, Distinct
  <2>4. ContextInv
    BY DEF Init, MpmcInit, ContextInv
  <2>5. PairInv
    BY NoneAssumption DEF Init, MpmcInit, PairInv, Pairing, Engaged, Taken, Threads
  <2> QED
    BY <2>2, <2>3, <2>4, <2>5 DEF IInv
<1>2. IInv /\ [Next]_vars => IInv'
  BY TypeStep, QueueStep, ContextStep, PairStep DEF IInv
<1> QED
  BY <1>1, <1>2, PTL DEF Spec

\* A thread that uses the packet of another, which lies on the other's stack,
\* is the only one to do so, and the other cannot leave before the signal:
\* neither by a timeout nor by a disconnection nor by an early ready flag.
THEOREM ZeroPacketOutlivesUse == Spec => []PacketOutlivesUse
<1>1. IInv => PacketOutlivesUse
  BY DEF IInv, PairInv, Engaged, PacketOutlivesUse
<1> QED
  BY <1>1, Inductive, PTL

-----------------------------------------------------------------------------
(***************************************************************************)
(* The refinement.  Whether a call has met its partner, which the mapping  *)
(* says with the packets, shows in the thread's own state; and the message *)
(* of a pair is in one place at a time.                                    *)
(***************************************************************************)
HasMet(t) == pc[t] \in Pairing \cup {"wait_ready", "done"} \/ select[t] = "Operation"

MetShows == \A t \in Threads : Met(t) <=> HasMet(t)

LEMMA MetIs == IInv => MetShows
<1> SUFFICES ASSUME IInv, NEW t \in Threads PROVE Met(t) <=> HasMet(t)
  BY DEF MetShows
<1> USE DEF IInv, TypeOK, PairInv, Pairing
<1>1. ASSUME Taken(t) PROVE Engaged(t)
  <2>1. PICK u \in Threads : partner[u] = t
    BY <1>1 DEF Taken
  <2>2. partner[u] # None
    BY <2>1, NoneAssumption DEF Threads
  <2> QED
    BY <2>1, <2>2
<1>2. Engaged(t) => ready[t] \/ Taken(t)
  OBVIOUS
<1>3. ready[t] => Engaged(t)
  OBVIOUS
<1>4. partner[t] # None <=> pc[t] \in Pairing
  OBVIOUS
<1> QED
  BY <1>1, <1>2, <1>3, <1>4 DEF Met, HasMet, Engaged

LEMMA MetIsNext == IInv' => MetShows'
BY MetIs, PTL

\* Between the selection and the access to the packet: the message of the
\* pair is where it was.
Moving(u) == pc[u] \in {"unpark", "write", "read"}

BoundShows ==
  \A r \in Receivers :
    /\ Moving(r) => Bound(r) = msg[partner[r]]
    /\ \A s \in Senders : Moving(s) /\ partner[s] = r => Bound(r) = msg[s]
    /\ ~Moving(r) /\ (\A s \in Senders : ~(Moving(s) /\ partner[s] = r)) => Bound(r) = msg[r]

LEMMA BoundIs == IInv => BoundShows
<1> SUFFICES ASSUME IInv, NEW r \in Receivers
             PROVE  /\ Moving(r) => Bound(r) = msg[partner[r]]
                    /\ \A s \in Senders : Moving(s) /\ partner[s] = r => Bound(r) = msg[s]
                    /\ ~Moving(r) /\ (\A s \in Senders : ~(Moving(s) /\ partner[s] = r)) => Bound(r) = msg[r]
  BY DEF BoundShows
<1>1. r \in Threads /\ r \notin Senders /\ Senders \subseteq Threads /\ None \notin Threads
  BY SidesAssumption, NoneAssumption DEF Threads
<1> USE <1>1
<1>2. Moving(r) <=> pc[r] = "read" \/ (pc[r] = "unpark" /\ partner[r] # None)
  BY DEF IInv, PairInv, Pairing, Moving
<1>3. \A s \in Senders : Moving(s) <=> pc[s] \in {"unpark", "write"}
  BY SidesAssumption DEF IInv, PairInv, Moving
<1>4. ASSUME NEW s \in Senders, Moving(s), partner[s] = r PROVE ~Moving(r) /\ Bound(r) = msg[s]
  <2>1. Engaged(r)
    BY <1>4 DEF IInv, PairInv
  <2>2. ~Moving(r)
    BY <2>1 DEF IInv, ContextInv, Engaged, Moving
  <2>3. \A v \in Senders : partner[v] = r => v = s
    BY <1>4 DEF IInv, PairInv
  <2>4. (CHOOSE v \in Senders : partner[v] = r /\ pc[v] \in {"unpark", "write"}) = s
    BY <1>3, <1>4, <2>3
  <2> QED
    BY <1>2, <1>3, <1>4, <2>2, <2>4 DEF Bound
<1> QED
  BY <1>2, <1>3, <1>4 DEF Bound

LEMMA BoundIsNext == IInv' => BoundShows'
BY BoundIs, PTL

\* The step in which t makes a pair with somebody else than r.
LEMMA BoundOther ==
  ASSUME IInv, IInv', msg' = msg, NEW r \in Receivers, NEW t \in Threads \ {r},
         \A u \in Threads \ {t} : (Moving(u)' <=> Moving(u)) /\ partner'[u] = partner[u],
         ~Moving(t), partner'[t] # r
  PROVE  Bound(r)' = Bound(r)
<1>1. r \in Threads \ {t} /\ Senders \subseteq Threads
  BY DEF Threads
<1>2. BoundShows /\ BoundShows'
  BY BoundIs, BoundIsNext
<1>3. CASE Moving(r)
  <2>1. Moving(r)' /\ partner'[r] = partner[r]
    BY <1>1, <1>3
  <2> QED
    BY <1>2, <1>3, <2>1 DEF BoundShows
<1>4. ASSUME NEW s \in Senders, Moving(s), partner[s] = r PROVE Bound(r)' = Bound(r)
  <2>1. s # t
    BY <1>4
  <2>2. Moving(s)' /\ partner'[s] = r
    BY <1>1, <1>4, <2>1
  <2> QED
    BY <1>2, <1>4, <2>2 DEF BoundShows
<1>5. CASE ~Moving(r) /\ \A s \in Senders : ~(Moving(s) /\ partner[s] = r)
  <2>1. ~Moving(r)' /\ \A s \in Senders : ~(Moving(s)' /\ partner'[s] = r)
    BY <1>1, <1>5
  <2> QED
    BY <1>2, <1>5, <2>1 DEF BoundShows
<1> QED
  BY <1>3, <1>4, <1>5

\* Steps that move no message and make no pair.
LEMMA BoundSame ==
  ASSUME IInv, IInv', msg' = msg, NEW r \in Receivers,
         \A u \in Threads : /\ Moving(u)' <=> Moving(u)
                            /\ Moving(u) => partner'[u] = partner[u]
  PROVE  Bound(r)' = Bound(r)
<1>1. r \in Threads /\ Senders \subseteq Threads
  BY DEF Threads
<1> USE <1>1, BoundIs, BoundIsNext DEF BoundShows
<1>2. CASE Moving(r)
  BY <1>2
<1>3. CASE \E s \in Senders : Moving(s) /\ partner[s] = r
  BY <1>3
<1>4. CASE ~Moving(r) /\ \A s \in Senders : ~(Moving(s) /\ partner[s] = r)
  BY <1>4
<1> QED
  BY <1>2, <1>3, <1>4

-----------------------------------------------------------------------------
(***************************************************************************)
(* The steps of the abstract specification, thread by thread.              *)
(***************************************************************************)
Same(T, S, R) ==
  /\ \A u \in Threads \ T : Situation(u)' = Situation(u)
  /\ \A s \in Senders \ S : Offer(s)' = Offer(s)
  /\ \A r \in Receivers \ R : Bound(r)' = Bound(r)

LEMMA AbstractStutter ==
  ASSUME Same({}, {}, {})
  PROVE  UNCHANGED Abstract!vars
BY DEF Same, Abstract!vars

LEMMA AbstractCall ==
  ASSUME NEW t \in Threads, Situation(t) = "idle", Situation(t)' = "calling",
         t \in Senders => Offer(t)' \in Senders \X (1 .. MaxSends), Same({t}, {t}, {})
  PROVE  Abstract!Call(t)
<1>1. [u \in Threads |-> Situation(u)]' = [[u \in Threads |-> Situation(u)] EXCEPT ![t] = "calling"]
  BY DEF Same
<1>2. [r \in Receivers |-> Bound(r)]' = [r \in Receivers |-> Bound(r)]
  BY DEF Same
<1>3. CASE t \in Senders
  <2>1. [s \in Senders |-> Offer(s)]' = [[s \in Senders |-> Offer(s)] EXCEPT ![t] = Offer(t)']
    BY <1>3 DEF Same
  <2> QED
    BY <1>1, <1>2, <1>3, <2>1 DEF Abstract!Call
<1>4. CASE t \notin Senders
  <2>1. [s \in Senders |-> Offer(s)]' = [s \in Senders |-> Offer(s)]
    BY <1>4 DEF Same
  <2>2. t \in Receivers
    BY <1>4 DEF Threads
  <2> QED
    BY <1>1, <1>2, <2>1, <2>2 DEF Abstract!Call
<1> QED
  BY <1>3, <1>4

LEMMA AbstractMeet ==
  ASSUME NEW s \in Senders, NEW r \in Receivers,
         Situation(s) = "calling", Situation(r) = "calling",
         Situation(s)' = "met", Situation(r)' = "met",
         Bound(r)' = Offer(s), Offer(s)' = None, Same({s, r}, {s}, {r})
  PROVE  Abstract!Meet(s, r)
<1>1. s \in Threads /\ r \in Threads /\ s # r
  BY SidesAssumption DEF Threads
<1>2. [u \in Threads |-> Situation(u)]'
        = [[u \in Threads |-> Situation(u)] EXCEPT ![s] = "met", ![r] = "met"]
  BY <1>1 DEF Same
<1>3. [v \in Receivers |-> Bound(v)]' = [[v \in Receivers |-> Bound(v)] EXCEPT ![r] = Offer(s)]
  BY DEF Same
<1>4. [v \in Senders |-> Offer(v)]' = [[v \in Senders |-> Offer(v)] EXCEPT ![s] = None]
  BY DEF Same
<1> QED
  BY <1>1, <1>2, <1>3, <1>4 DEF Abstract!Meet

LEMMA AbstractRefuse ==
  ASSUME NEW T \in SUBSET Threads, \A t \in T : Situation(t) = "calling" /\ Situation(t)' = "refused",
         Same(T, {}, {})
  PROVE  Abstract!Refuse(T)
<1>1. [u \in Threads |-> Situation(u)]'
        = [u \in Threads |-> IF u \in T THEN "refused" ELSE Situation(u)]
  BY DEF Same
<1>2. /\ [v \in Receivers |-> Bound(v)]' = [v \in Receivers |-> Bound(v)]
      /\ [v \in Senders |-> Offer(v)]' = [v \in Senders |-> Offer(v)]
  BY DEF Same
<1> QED
  BY <1>1, <1>2 DEF Abstract!Refuse

LEMMA AbstractReturn ==
  ASSUME NEW t \in Threads, Situation(t) \in {"met", "refused"}, Situation(t)' = "idle",
         t \in Senders => Offer(t)' = None, t \in Receivers => Bound(t)' = None, Same({t}, {t}, {t})
  PROVE  Abstract!Return(t)
<1>1. [u \in Threads |-> Situation(u)]' = [[u \in Threads |-> Situation(u)] EXCEPT ![t] = "idle"]
  BY DEF Same
<1>2. [s \in Senders |-> Offer(s)]'
        = [s \in Senders |-> IF s = t THEN None ELSE [v \in Senders |-> Offer(v)][s]]
  BY DEF Same
<1>3. [r \in Receivers |-> Bound(r)]'
        = [r \in Receivers |-> IF r = t THEN None ELSE [v \in Receivers |-> Bound(v)][r]]
  BY DEF Same
<1> QED
  BY <1>1, <1>2, <1>3 DEF Abstract!Return

\* A thread that is at the start or at the end of its call gets a message, or
\* gives it away: nobody's pair is concerned.
LEMMA BoundCaller ==
  ASSUME IInv, IInv', NEW t \in Threads, ~Engaged(t), ~Moving(t), partner' = partner,
         \A u \in Threads : Moving(u)' <=> Moving(u),
         \A u \in Threads \ {t} : msg'[u] = msg[u],
         NEW r \in Receivers, r # t
  PROVE  Bound(r)' = Bound(r)
<1>1. r \in Threads /\ Senders \subseteq Threads
  BY DEF Threads
<1> USE <1>1, BoundIs, BoundIsNext DEF BoundShows
<1>2. CASE Moving(r)
  <2>1. partner[r] \in Threads \ {t}
    BY <1>2 DEF IInv, TypeOK, PairInv, Pairing, Moving
  <2> QED
    BY <1>2, <2>1
<1>3. CASE \E s \in Senders : Moving(s) /\ partner[s] = r
  BY <1>3
<1>4. CASE ~Moving(r) /\ \A s \in Senders : ~(Moving(s) /\ partner[s] = r)
  BY <1>4
<1> QED
  BY <1>2, <1>3, <1>4

\* A thread that does not move does not change its situation.
LEMMA Quiet ==
  ASSUME IInv, IInv', NEW u \in Threads, pc'[u] = pc[u], select'[u] = select[u]
  PROVE  Situation(u)' = Situation(u) /\ (msg'[u] = msg[u] => Offer(u)' = Offer(u))
BY MetIs, MetIsNext DEF MetShows, HasMet, Situation, Offer

\* A pair in the making stays one.
LEMMA StaysMet ==
  ASSUME IInv, IInv', NEW u \in Threads, HasMet(u), HasMet(u)'
  PROVE  Situation(u)' = Situation(u) /\ Offer(u)' = Offer(u)
BY MetIs, MetIsNext DEF MetShows, Situation, Offer

LEMMA NotMet ==
  ASSUME IInv, NEW u \in Threads, ~HasMet(u)
  PROVE  /\ Offer(u) = msg[u]
         /\ pc[u] \in {"start", "wait", "park"} /\ select[u] = "Waiting" => Situation(u) = "calling"
         /\ pc[u] \in {"wait", "park", "unregister", "refused"} /\ select[u] # "Waiting"
              => Situation(u) = "refused"
         /\ pc[u] \in {"unregister", "refused"} => Situation(u) = "refused"
         /\ pc[u] \notin {"start", "wait", "park", "unregister", "refused"} => Situation(u) = "idle"
BY MetIs DEF MetShows, Situation, Offer

LEMMA NotMetNext ==
  ASSUME IInv', NEW u \in Threads, ~HasMet(u)'
  PROVE  /\ Offer(u)' = msg'[u]
         /\ pc'[u] \in {"start", "wait", "park"} /\ select'[u] = "Waiting" => Situation(u)' = "calling"
         /\ pc'[u] \in {"wait", "park", "unregister", "refused"} /\ select'[u] # "Waiting"
              => Situation(u)' = "refused"
         /\ pc'[u] \in {"unregister", "refused"} => Situation(u)' = "refused"
         /\ pc'[u] \notin {"start", "wait", "park", "unregister", "refused"} => Situation(u)' = "idle"
BY MetIsNext DEF MetShows, Situation, Offer

LEMMA IsMet ==
  ASSUME IInv, NEW u \in Threads, HasMet(u)
  PROVE  Situation(u) = "met" /\ Offer(u) = None
BY MetIs DEF MetShows, Situation, Offer

LEMMA IsMetNext ==
  ASSUME IInv', NEW u \in Threads, HasMet(u)'
  PROVE  Situation(u)' = "met" /\ Offer(u)' = None
BY MetIsNext DEF MetShows, Situation, Offer

LEMMA Sub ==
  Senders \subseteq Threads /\ Receivers \subseteq Threads /\ Threads = Senders \cup Receivers
BY DEF Threads

\* Outside of a call nothing happens.
LEMMA IdleRefines ==
  ASSUME IInv, IInv', NEW t \in Threads, UNCHANGED <<select, msg, partner>>,
         pc[t] \in {"idle", "unpark_all", "destroy", "free"},
         NEW to \in {"disconnect_chan", "gone", "destroy", "free"}, pc' = [pc EXCEPT ![t] = to]
  PROVE  UNCHANGED Abstract!vars
<1>0. TypeOK /\ ContextInv
  BY DEF IInv
<1> USE <1>0 DEF TypeOK, ContextInv
<1>1. ~HasMet(t) /\ ~HasMet(t)' /\ pc'[t] = to
  BY DEF HasMet, Pairing
<1>2. Situation(t)' = Situation(t) /\ Offer(t)' = Offer(t)
  <2>1. Situation(t) = "idle" /\ Offer(t) = msg[t]
    BY <1>1, NotMet
  <2>2. Situation(t)' = "idle" /\ Offer(t)' = msg'[t]
    BY <1>1, NotMetNext
  <2> QED
    BY <2>1, <2>2
<1>3. \A u \in Threads : Moving(u)' <=> Moving(u)
  BY DEF Moving
<1>4. \A r \in Receivers : Bound(r)' = Bound(r)
  BY <1>3, BoundSame
<1>5. \A u \in Threads \ {t} : Situation(u)' = Situation(u) /\ Offer(u)' = Offer(u)
  BY Quiet
<1>6. Same({}, {}, {})
  BY <1>2, <1>4, <1>5, Sub DEF Same
<1> QED
  BY <1>6, AbstractStutter

LEMMA WaitRefines ==
  ASSUME IInv, IInv', NEW t \in Threads, Waits(t)
  PROVE  Abstract!Next \/ UNCHANGED Abstract!vars
<1>0. TypeOK /\ ContextInv
  BY DEF IInv
<1>1. UNCHANGED <<msg, partner>> /\ pc[t] \in {"wait", "park"}
  BY DEF Waits
<1>2. \A u \in Threads \ {t} : pc'[u] = pc[u] /\ select'[u] = select[u]
  BY <1>0 DEF Waits, TypeOK
<1>3. pc'[t] \in {"wait", "park", "wait_ready", "unregister"}
  BY <1>0 DEF Waits, TypeOK
<1>4. \A u \in Threads : Moving(u)' <=> Moving(u)
  BY <1>1, <1>2, <1>3 DEF Moving
<1>5. \A r \in Receivers : Bound(r)' = Bound(r)
  BY <1>1, <1>4, BoundSame
<1>6. \A u \in Threads \ {t} : Situation(u)' = Situation(u) /\ Offer(u)' = Offer(u)
  BY <1>1, <1>2, Quiet
<1>7. ASSUME Situation(t)' = Situation(t), Offer(t)' = Offer(t) PROVE UNCHANGED Abstract!vars
  <2>1. Same({}, {}, {})
    BY <1>5, <1>6, <1>7, Sub DEF Same
  <2> QED
    BY <2>1, AbstractStutter
<1>8. CASE select[t] = "Operation"
  <2>1. HasMet(t) /\ HasMet(t)'
    BY <1>0, <1>8 DEF Waits, HasMet, TypeOK
  <2> QED
    BY <1>7, <2>1, StaysMet
<1>9. CASE select[t] # "Operation"
  <2>1. ~HasMet(t)
    BY <1>1, <1>9 DEF HasMet, Pairing
  <2>2. CASE \E to \in {"wait", "park"} : pc' = [pc EXCEPT ![t] = to] /\ UNCHANGED select
    <3>1. pc'[t] \in {"wait", "park"} /\ select'[t] = select[t] /\ ~HasMet(t)'
      BY <1>0, <1>9, <2>2 DEF HasMet, Pairing, TypeOK
    <3>2. Situation(t)' = Situation(t) /\ Offer(t)' = Offer(t)
      BY <1>1, <2>1, <3>1, NotMet, NotMetNext
    <3> QED
      BY <1>7, <3>2
  <2>3. CASE /\ select[t] = "Disconnected" /\ pc' = [pc EXCEPT ![t] = "unregister"] /\ UNCHANGED select
    <3>1. pc'[t] = "unregister" /\ select'[t] = "Disconnected" /\ ~HasMet(t)'
      BY <1>0, <2>3 DEF HasMet, Pairing, TypeOK
    <3>2. Situation(t)' = Situation(t) /\ Offer(t)' = Offer(t)
      BY <1>1, <2>1, <2>3, <3>1, NotMet, NotMetNext
    <3> QED
      BY <1>7, <3>2
  <2>4. CASE /\ select[t] = "Waiting" /\ pc' = [pc EXCEPT ![t] = "unregister"]
             /\ select' = [select EXCEPT ![t] = "Aborted"]
    <3>1. pc'[t] = "unregister" /\ ~HasMet(t)'
      BY <1>0, <2>4 DEF HasMet, Pairing, TypeOK
    <3>2. Situation(t) = "calling" /\ Situation(t)' = "refused" /\ Offer(t)' = Offer(t)
      BY <1>1, <2>1, <2>4, <3>1, NotMet, NotMetNext
    <3>3. Same({t}, {}, {})
      BY <1>5, <1>6, <3>2, Sub DEF Same
    <3>4. Abstract!Refuse({t})
      BY <3>2, <3>3, AbstractRefuse
    <3> QED
      BY <3>4, Sub DEF Abstract!Next
  <2> QED
    BY <1>9, <2>2, <2>3, <2>4 DEF Waits
<1> QED
  BY <1>8, <1>9

LEMMA RefinementStep ==
  ASSUME IInv, IInv', [Next]_vars
  PROVE  Abstract!Next \/ UNCHANGED Abstract!vars
<1>0. TypeOK /\ ContextInv /\ PairInv
  BY DEF IInv
<1> USE <1>0 DEF TypeOK, ContextInv
<1>1. ASSUME NEW t \in Threads, call(t) PROVE Abstract!Next \/ UNCHANGED Abstract!vars
  <2>1. /\ pc[t] = "idle" /\ pc' = [pc EXCEPT ![t] = "start"]
        /\ UNCHANGED <<select, partner>>
        /\ \/ t \in Receivers /\ UNCHANGED msg
           \/ t \in Senders /\ left[t] > 0 /\ msg' = [msg EXCEPT ![t] = <<t, left[t]>>]
    BY <1>1 DEF call, Goto, context
  <2>2. select[t] = "Waiting" /\ ~HasMet(t) /\ ~HasMet(t)' /\ ~Engaged(t)
    BY <2>1 DEF HasMet, Pairing, Engaged
  <2>3. Situation(t) = "idle" /\ Situation(t)' = "calling" /\ Offer(t)' = msg'[t]
    BY <2>1, <2>2, NotMet, NotMetNext
  <2>4. t \in Senders => msg'[t] \in Senders \X (1 .. MaxSends)
    BY <2>1, SidesAssumption, MaxSendsAssumption
  <2>5. \A u \in Threads : Moving(u)' <=> Moving(u)
    BY <2>1 DEF Moving
  <2>6. ~Moving(t)
    BY <2>1 DEF Moving
  <2>7. ASSUME NEW r \in Receivers PROVE Bound(r)' = Bound(r)
    <3>1. CASE UNCHANGED msg
      BY <2>1, <2>5, <3>1, BoundSame
    <3>2. CASE t \in Senders /\ msg' = [msg EXCEPT ![t] = <<t, left[t]>>]
      <4>1. r # t /\ \A u \in Threads \ {t} : msg'[u] = msg[u]
        BY <3>2, SidesAssumption
      <4> QED
        BY <2>1, <2>2, <2>5, <2>6, <4>1, BoundCaller
    <3> QED
      BY <2>1, <3>1, <3>2
  <2>8. Same({t}, {t}, {})
    BY <2>1, <2>7, Quiet, Sub DEF Same
  <2> QED
    BY <2>3, <2>4, <2>8, AbstractCall DEF Abstract!Next, Threads
<1>2. ASSUME NEW t \in Threads, pair_up(t) PROVE Abstract!Next \/ UNCHANGED Abstract!vars
  <2>1. PICK u \in Threads, i \in Nat : PairsUp(t, u, i)
    BY <1>2, PairEffect
  <2>2. /\ u # t /\ own(u) = peer(t) /\ select[u] = "Waiting" /\ pc[u] \in {"wait", "park"}
        /\ pc[t] = "start" /\ pc' = [pc EXCEPT ![t] = "unpark"]
        /\ select' = [select EXCEPT ![u] = "Operation"]
        /\ partner' = [partner EXCEPT ![t] = u] /\ msg' = msg
    BY <2>1 DEF PairsUp
  <2>3. ~HasMet(t) /\ ~HasMet(u) /\ HasMet(t)' /\ HasMet(u)' /\ select[t] = "Waiting"
    BY <2>2 DEF HasMet, Pairing
  <2>4. /\ Situation(t) = "calling" /\ Situation(u) = "calling"
        /\ Offer(t) = msg[t] /\ Offer(u) = msg[u]
    BY <2>2, <2>3, NotMet
  <2>5. /\ Situation(t)' = "met" /\ Situation(u)' = "met" /\ Offer(t)' = None /\ Offer(u)' = None
    BY <2>3, IsMetNext
  <2>6. \A v \in Threads \ {t} : (Moving(v)' <=> Moving(v)) /\ partner'[v] = partner[v]
    BY <2>2 DEF Moving
  <2>7. Moving(t)' /\ partner'[t] = u /\ ~Moving(t) /\ ~Moving(u) /\ ~Moving(u)'
    BY <2>2 DEF Moving
  <2>8. \A v \in Threads \ {t, u} : Situation(v)' = Situation(v) /\ Offer(v)' = Offer(v)
    BY <2>2, Quiet
  <2>9. CASE t \in Senders
    <3>1. u \in Receivers /\ t \notin Receivers /\ u \notin Senders
      BY <2>2, <2>9, SidesAssumption DEF own, peer, Threads
    <3>2. Bound(u)' = msg[t]
      BY <2>2, <2>7, <2>9, <3>1, BoundIsNext DEF BoundShows
    <3>3. \A r \in Receivers \ {u} : Bound(r)' = Bound(r)
      BY <2>2, <2>6, <2>7, <3>1, BoundOther
    <3>4. Same({t, u}, {t}, {u})
      BY <2>8, <3>1, <3>3, Sub DEF Same
    <3>5. Abstract!Meet(t, u)
      BY <2>4, <2>5, <2>9, <3>1, <3>2, <3>4, AbstractMeet
    <3> QED
      BY <2>9, <3>1, <3>5 DEF Abstract!Next
  <2>10. CASE t \in Receivers
    <3>1. u \in Senders /\ u \notin Receivers /\ t \notin Senders
      BY <2>2, <2>10, SidesAssumption DEF own, peer, Threads
    <3>2. Bound(t)' = msg[u]
      BY <2>2, <2>7, <2>10, <3>1, BoundIsNext DEF BoundShows
    <3>3. \A r \in Receivers \ {t} : Bound(r)' = Bound(r)
      BY <2>2, <2>6, <2>7, <3>1, BoundOther
    <3>4. Same({u, t}, {u}, {t})
      BY <2>8, <3>1, <3>3, Sub DEF Same
    <3>5. Abstract!Meet(u, t)
      BY <2>4, <2>5, <2>10, <3>1, <3>2, <3>4, AbstractMeet
    <3> QED
      BY <2>10, <3>1, <3>5 DEF Abstract!Next
  <2> QED
    BY <2>9, <2>10 DEF Threads
<1>3. ASSUME NEW t \in Threads, block(t) PROVE Abstract!Next \/ UNCHANGED Abstract!vars
  <2>1. pc[t] = "start" /\ UNCHANGED <<select, msg, partner>>
    BY <1>3 DEF block, Goto, context
  <2>2. PICK to \in {"wait", "refused"} : pc' = [pc EXCEPT ![t] = to]
    BY <1>3 DEF block, Goto
  <2>3. ~HasMet(t) /\ ~HasMet(t)' /\ select[t] = "Waiting" /\ select'[t] = "Waiting"
    BY <2>1, <2>2 DEF HasMet, Pairing
  <2>4. Situation(t) = "calling" /\ Offer(t)' = Offer(t)
    BY <2>1, <2>3, NotMet, NotMetNext
  <2>5. \A u \in Threads : Moving(u)' <=> Moving(u)
    BY <2>1, <2>2 DEF Moving
  <2>6. Same({t}, {}, {})
    BY <2>1, <2>2, <2>4, <2>5, Quiet, BoundSame, Sub DEF Same
  <2>7. CASE to = "wait"
    <3>1. Situation(t)' = "calling"
      BY <2>2, <2>3, <2>7, NotMetNext
    <3> QED
      BY <2>4, <2>6, <3>1, AbstractStutter DEF Same
  <2>8. CASE to = "refused"
    <3>1. Situation(t)' = "refused"
      BY <2>2, <2>3, <2>8, NotMetNext
    <3>2. Abstract!Refuse({t})
      BY <2>4, <2>6, <3>1, AbstractRefuse
    <3> QED
      BY <3>2, Sub DEF Abstract!Next
  <2> QED
    BY <2>7, <2>8
<1>4. ASSUME NEW t \in Threads, unpark(t) PROVE Abstract!Next \/ UNCHANGED Abstract!vars
  <2>1. pc[t] = "unpark" /\ UNCHANGED <<select, msg, partner>>
    BY <1>4 DEF unpark, Goto
  <2>2. PICK to \in {"write", "read"} : pc' = [pc EXCEPT ![t] = to]
    BY <1>4 DEF unpark, Goto
  <2>3. HasMet(t) /\ HasMet(t)'
    BY <2>1, <2>2 DEF HasMet, Pairing
  <2>4. \A u \in Threads : Moving(u)' <=> Moving(u)
    BY <2>1, <2>2 DEF Moving
  <2>5. Same({}, {}, {})
    BY <2>1, <2>2, <2>3, <2>4, Quiet, StaysMet, BoundSame, Sub DEF Same
  <2> QED
    BY <2>5, AbstractStutter
<1>5. ASSUME NEW t \in Threads, write(t) PROVE Abstract!Next \/ UNCHANGED Abstract!vars
  <2>1. /\ pc[t] = "write" /\ pc' = [pc EXCEPT ![t] = "signal"]
        /\ UNCHANGED <<select, partner>> /\ t \in Senders
        /\ msg' = [msg EXCEPT ![partner[t]] = msg[t], ![t] = None]
    BY <1>5 DEF write, Goto, context, PairInv
  <2>2. PICK u \in Threads : u = partner[t]
    BY <2>1 DEF PairInv, Pairing
  <2>3. Engaged(u) /\ own(u) = peer(t) /\ \A v \in Threads \ {t} : partner[v] # u
    BY <2>2, NoneAssumption DEF PairInv, Threads
  <2>4. u \in Receivers /\ u \notin Senders /\ t \notin Receivers /\ u # t
    BY <2>1, <2>3, SidesAssumption DEF own, peer, Threads
  <2>5. /\ msg'[u] = msg[t] /\ \A v \in Threads \ {t, u} : msg'[v] = msg[v]
    BY <2>1, <2>2, <2>4
  <2>6. HasMet(t) /\ HasMet(t)' /\ HasMet(u) /\ HasMet(u)'
    BY <2>1, <2>3, <2>4 DEF HasMet, Pairing, Engaged
  <2>7. ~Engaged(t) /\ ~Moving(u) /\ ~Moving(u)' /\ Moving(t) /\ ~Moving(t)'
    BY <2>1, <2>3, <2>4 DEF Engaged, Moving
  <2>8. \A v \in Threads \ {t} : Moving(v)' <=> Moving(v)
    BY <2>1 DEF Moving
  <2>9. ASSUME NEW r \in Receivers PROVE Bound(r)' = Bound(r)
    <3>1. CASE r = u
      <4>1. Bound(r) = msg[t]
        BY <2>1, <2>2, <2>7, <3>1, BoundIs DEF BoundShows
      <4>2. \A s \in Senders : ~(Moving(s)' /\ partner'[s] = r)
        BY <2>1, <2>3, <2>7, <3>1, Sub
      <4> QED
        BY <2>5, <2>7, <3>1, <4>1, <4>2, BoundIsNext DEF BoundShows
    <3>2. CASE r # u
      <4>1. r \in Threads \ {t, u} /\ \A s \in Senders : s \in Threads \ {u}
        BY <2>4, <3>2, Sub
      <4>2. CASE Moving(r)
        <5>1. partner[r] \in Threads /\ partner[r] # u /\ partner[r] # t
          BY <2>3, <2>7, <4>1, <4>2 DEF PairInv, Pairing, Moving
        <5> QED
          BY <2>1, <2>5, <2>8, <4>1, <4>2, <5>1, BoundIs, BoundIsNext DEF BoundShows
      <4>3. ASSUME NEW s \in Senders, Moving(s), partner[s] = r PROVE Bound(r)' = Bound(r)
        <5>1. s # t
          BY <2>2, <3>2, <4>3
        <5> QED
          BY <2>1, <2>5, <2>8, <4>1, <4>3, <5>1, BoundIs, BoundIsNext DEF BoundShows
      <4>4. CASE ~Moving(r) /\ \A s \in Senders : ~(Moving(s) /\ partner[s] = r)
        <5>1. ~Moving(r)' /\ \A s \in Senders : ~(Moving(s)' /\ partner'[s] = r)
          BY <2>1, <2>7, <2>8, <4>1, <4>4, Sub
        <5> QED
          BY <2>5, <4>1, <4>4, <5>1, BoundIs, BoundIsNext DEF BoundShows
      <4> QED
        BY <4>2, <4>3, <4>4
    <3> QED
      BY <3>1, <3>2
  <2>10. \A v \in Threads \ {t, u} : Situation(v)' = Situation(v) /\ Offer(v)' = Offer(v)
    BY <2>1, <2>5, Quiet
  <2>11. Same({}, {}, {})
    BY <2>6, <2>9, <2>10, StaysMet, Sub DEF Same
  <2> QED
    BY <2>11, AbstractStutter
<1>6. ASSUME NEW t \in Threads, read(t) PROVE Abstract!Next \/ UNCHANGED Abstract!vars
  <2>1. /\ pc[t] = "read" /\ pc' = [pc EXCEPT ![t] = "signal"]
        /\ UNCHANGED <<select, partner>> /\ t \in Receivers
        /\ msg' = [msg EXCEPT ![t] = msg[partner[t]], ![partner[t]] = None]
    BY <1>6 DEF read, Goto, context, PairInv
  <2>2. PICK u \in Threads : u = partner[t]
    BY <2>1 DEF PairInv, Pairing
  <2>3. Engaged(u) /\ own(u) = peer(t) /\ \A v \in Threads \ {t} : partner[v] # u
    BY <2>2, NoneAssumption DEF PairInv, Threads
  <2>4. u \in Senders /\ u \notin Receivers /\ t \notin Senders /\ u # t
    BY <2>1, <2>3, SidesAssumption DEF own, peer, Threads
  <2>5. /\ msg'[t] = msg[u] /\ \A v \in Threads \ {t, u} : msg'[v] = msg[v]
    BY <2>1, <2>2, <2>4
  <2>6. HasMet(t) /\ HasMet(t)' /\ HasMet(u) /\ HasMet(u)'
    BY <2>1, <2>3, <2>4 DEF HasMet, Pairing, Engaged
  <2>7. ~Engaged(t) /\ ~Moving(u) /\ ~Moving(u)' /\ Moving(t) /\ ~Moving(t)'
    BY <2>1, <2>3, <2>4 DEF Engaged, Moving
  <2>8. \A v \in Threads \ {t} : Moving(v)' <=> Moving(v)
    BY <2>1 DEF Moving
  <2>9. ASSUME NEW r \in Receivers PROVE Bound(r)' = Bound(r)
    <3>1. CASE r = t
      <4>1. Bound(r) = msg[u]
        BY <2>2, <2>7, <3>1, BoundIs DEF BoundShows
      <4>2. ASSUME NEW s \in Senders PROVE partner[s] # t
        <5>1. s \in Threads /\ t # None
          BY NoneAssumption DEF Threads
        <5> QED
          BY <2>7, <5>1 DEF PairInv
      <4> QED
        BY <2>1, <2>5, <2>7, <3>1, <4>1, <4>2, BoundIsNext DEF BoundShows
    <3>2. CASE r # t
      <4>1. r \in Threads \ {t, u} /\ \A s \in Senders : s \in Threads \ {t}
        BY <2>4, <3>2, Sub
      <4>2. CASE Moving(r)
        <5>1. partner[r] \in Threads /\ partner[r] # u /\ partner[r] # t
          BY <2>3, <2>7, <4>1, <4>2 DEF PairInv, Pairing, Moving
        <5> QED
          BY <2>1, <2>5, <2>8, <4>1, <4>2, <5>1, BoundIs, BoundIsNext DEF BoundShows
      <4>3. ASSUME NEW s \in Senders, Moving(s), partner[s] = r PROVE Bound(r)' = Bound(r)
        <5>1. s # u
          BY <2>7, <4>3
        <5> QED
          BY <2>1, <2>5, <2>8, <4>1, <4>3, <5>1, BoundIs, BoundIsNext DEF BoundShows
      <4>4. CASE ~Moving(r) /\ \A s \in Senders : ~(Moving(s) /\ partner[s] = r)
        <5>1. ~Moving(r)' /\ \A s \in Senders : ~(Moving(s)' /\ partner'[s] = r)
          BY <2>1, <2>8, <4>1, <4>4
        <5> QED
          BY <2>5, <4>1, <4>4, <5>1, BoundIs, BoundIsNext DEF BoundShows
      <4> QED
        BY <4>2, <4>3, <4>4
    <3> QED
      BY <3>1, <3>2
  <2>10. \A v \in Threads \ {t, u} : Situation(v)' = Situation(v) /\ Offer(v)' = Offer(v)
    BY <2>1, <2>5, Quiet
  <2>11. Same({}, {}, {})
    BY <2>6, <2>9, <2>10, StaysMet, Sub DEF Same
  <2> QED
    BY <2>11, AbstractStutter
<1>7. ASSUME NEW t \in Threads, signal(t) PROVE Abstract!Next \/ UNCHANGED Abstract!vars
  <2>1. /\ pc[t] = "signal" /\ pc' = [pc EXCEPT ![t] = "done"]
        /\ partner' = [partner EXCEPT ![t] = None] /\ UNCHANGED <<select, msg>>
    BY <1>7 DEF signal, Goto, context
  <2>2. HasMet(t) /\ HasMet(t)'
    BY <2>1 DEF HasMet, Pairing
  <2>3. \A u \in Threads : (Moving(u)' <=> Moving(u)) /\ (Moving(u) => partner'[u] = partner[u])
    BY <2>1 DEF Moving
  <2>4. Same({}, {}, {})
    BY <2>1, <2>2, <2>3, Quiet, StaysMet, BoundSame, Sub DEF Same
  <2> QED
    BY <2>4, AbstractStutter
<1>8. ASSUME NEW t \in Threads, wait_until(t) PROVE Abstract!Next \/ UNCHANGED Abstract!vars
  <2>1. Waits(t)
    BY <1>8, WaitEffect
  <2> QED
    BY <2>1, WaitRefines
<1>9. ASSUME NEW t \in Threads, expire(t) PROVE Abstract!Next \/ UNCHANGED Abstract!vars
  <2>1. Waits(t)
    BY <1>9, WaitEffect
  <2> QED
    BY <2>1, WaitRefines
<1>10. ASSUME NEW t \in Threads, wait_ready(t) PROVE Abstract!Next \/ UNCHANGED Abstract!vars
  <2>1. /\ pc[t] = "wait_ready" /\ pc' = [pc EXCEPT ![t] = "done"]
        /\ UNCHANGED <<select, msg, partner>>
    BY <1>10 DEF wait_ready, Goto, context
  <2>2. HasMet(t) /\ HasMet(t)'
    BY <2>1 DEF HasMet, Pairing
  <2>3. \A u \in Threads : (Moving(u)' <=> Moving(u)) /\ (Moving(u) => partner'[u] = partner[u])
    BY <2>1 DEF Moving
  <2>4. Same({}, {}, {})
    BY <2>1, <2>2, <2>3, Quiet, StaysMet, BoundSame, Sub DEF Same
  <2> QED
    BY <2>4, AbstractStutter
<1>11. ASSUME NEW t \in Threads, unregister(t) PROVE Abstract!Next \/ UNCHANGED Abstract!vars
  <2>1. /\ pc[t] = "unregister" /\ pc' = [pc EXCEPT ![t] = "refused"]
        /\ select' = [select EXCEPT ![t] = "Waiting"] /\ UNCHANGED <<msg, partner>>
    BY <1>11 DEF unregister, Goto, Decided
  <2>2. ~HasMet(t) /\ ~HasMet(t)'
    BY <2>1 DEF HasMet, Pairing
  <2>3. Situation(t) = "refused" /\ Situation(t)' = "refused" /\ Offer(t)' = Offer(t)
    BY <2>1, <2>2, NotMet, NotMetNext
  <2>4. \A u \in Threads : Moving(u)' <=> Moving(u)
    BY <2>1 DEF Moving
  <2>5. Same({}, {}, {})
    BY <2>1, <2>3, <2>4, Quiet, BoundSame, Sub DEF Same
  <2> QED
    BY <2>5, AbstractStutter
<1>12. ASSUME NEW t \in Threads, return(t) PROVE Abstract!Next \/ UNCHANGED Abstract!vars
  <2>1. /\ pc[t] \in {"done", "refused"} /\ pc' = [pc EXCEPT ![t] = "idle"]
        /\ msg' = [msg EXCEPT ![t] = None] /\ UNCHANGED <<select, partner>>
    BY <1>12 DEF return, Goto, context
  <2>2. Situation(t) \in {"met", "refused"}
    BY <2>1, IsMet, NotMet DEF HasMet, Pairing
  <2>3. ~HasMet(t)' /\ ~Engaged(t) /\ ~Moving(t) /\ \A u \in Threads : Moving(u)' <=> Moving(u)
    BY <2>1 DEF HasMet, Pairing, Engaged, Moving
  <2>4. Situation(t)' = "idle" /\ Offer(t)' = None
    BY <2>1, <2>3, NotMetNext
  <2>5. ASSUME t \in Receivers PROVE Bound(t)' = None
    <3>1. ASSUME NEW s \in Senders PROVE partner'[s] # t
      <4>1. s \in Threads /\ t # None
        BY NoneAssumption DEF Threads
      <4> QED
        BY <2>1, <2>3, <4>1 DEF PairInv
    <3>2. ~Moving(t)' /\ msg'[t] = None
      BY <2>1, <2>3
    <3> QED
      BY <2>5, <3>1, <3>2, BoundIsNext DEF BoundShows
  <2>6. \A u \in Threads \ {t} : msg'[u] = msg[u] /\ pc'[u] = pc[u] /\ select'[u] = select[u]
    BY <2>1
  <2>7. Same({t}, {t}, {t})
    BY <2>1, <2>3, <2>6, Quiet, BoundCaller, Sub DEF Same
  <2> QED
    BY <2>2, <2>4, <2>5, <2>7, AbstractReturn DEF Abstract!Next, Threads
<1>13. ASSUME NEW t \in Threads, drop_handle(t) PROVE Abstract!Next \/ UNCHANGED Abstract!vars
  <2>1. UNCHANGED <<select, msg, partner>>
    BY <1>13 DEF drop_handle, context
  <2>2. PICK to \in {"disconnect_chan", "gone"} : pc[t] \in {"idle"} /\ pc' = [pc EXCEPT ![t] = to]
    BY <1>13 DEF drop_handle, release, Goto
  <2> QED
    BY <2>1, <2>2, IdleRefines
<1>14. ASSUME NEW t \in Threads, disconnect(t) PROVE Abstract!Next \/ UNCHANGED Abstract!vars
  <2>1. PICK T \in SUBSET Threads : Disconnects(t, T)
    BY <1>14, DisconnectEffect
  <2>2. /\ pc[t] = "disconnect_chan" /\ UNCHANGED <<msg, partner>>
        /\ \A u \in T : select[u] = "Waiting" /\ pc[u] \in {"wait", "park"}
        /\ select' = [u \in Threads |-> IF u \in T THEN "Disconnected" ELSE select[u]]
    BY <2>1 DEF Disconnects
  <2>3. PICK to \in {"unpark_all", "destroy"} : pc' = [pc EXCEPT ![t] = to]
    BY <2>1 DEF Disconnects
  <2>4. ASSUME NEW u \in T
        PROVE  /\ Situation(u) = "calling" /\ Situation(u)' = "refused" /\ Offer(u)' = Offer(u)
               /\ Moving(u)' <=> Moving(u)
    <3>1. u \in Threads /\ pc'[u] = pc[u] /\ select'[u] = "Disconnected"
      BY <2>2, <2>3
    <3>2. ~HasMet(u) /\ ~HasMet(u)' /\ ~Moving(u) /\ ~Moving(u)'
      BY <2>2, <3>1 DEF HasMet, Pairing, Moving
    <3> QED
      BY <2>2, <3>1, <3>2, NotMet, NotMetNext
  <2>5. /\ ~HasMet(t) /\ ~HasMet(t)' /\ Situation(t) = "idle" /\ Situation(t)' = "idle"
        /\ Offer(t)' = Offer(t) /\ ~Moving(t) /\ ~Moving(t)'
    <3>1. ~HasMet(t) /\ ~HasMet(t)' /\ ~Moving(t) /\ ~Moving(t)'
      BY <2>2, <2>3 DEF HasMet, Pairing, Moving
    <3> QED
      BY <2>2, <2>3, <3>1, NotMet, NotMetNext
  <2>6. ASSUME NEW u \in Threads \ T, u # t
        PROVE  Situation(u)' = Situation(u) /\ Offer(u)' = Offer(u) /\ (Moving(u)' <=> Moving(u))
    <3>1. pc'[u] = pc[u] /\ select'[u] = select[u]
      BY <2>2, <2>3, <2>6
    <3> QED
      BY <2>2, <3>1, Quiet DEF Moving
  <2>7. \A u \in Threads : Moving(u)' <=> Moving(u)
    BY <2>4, <2>5, <2>6
  <2>8. \A r \in Receivers : Bound(r)' = Bound(r)
    BY <2>2, <2>7, BoundSame
  <2>9. Same(T, {}, {})
    BY <2>4, <2>5, <2>6, <2>8, Sub DEF Same
  <2>10. Abstract!Refuse(T)
    BY <2>4, <2>9, AbstractRefuse
  <2> QED
    BY <2>10, Sub DEF Abstract!Next
<1>15. ASSUME NEW t \in Threads, disconnect_unpark(t) PROVE Abstract!Next \/ UNCHANGED Abstract!vars
  <2>1. UNCHANGED <<select, msg, partner>>
    BY <1>15 DEF disconnect_unpark
  <2>2. PICK to \in {"destroy"} : pc[t] \in {"unpark_all"} /\ pc' = [pc EXCEPT ![t] = to]
    BY <1>15 DEF disconnect_unpark, Goto
  <2> QED
    BY <2>1, <2>2, IdleRefines
<1>16. ASSUME NEW t \in Threads, destroy_channel(t) PROVE Abstract!Next \/ UNCHANGED Abstract!vars
  <2>1. UNCHANGED <<select, msg, partner>>
    BY <1>16 DEF destroy_channel, context
  <2>2. PICK to \in {"free", "gone"} : pc[t] \in {"destroy", "free"} /\ pc' = [pc EXCEPT ![t] = to]
    BY <1>16 DEF destroy_channel, release_destroy, free_channel, Goto
  <2> QED
    BY <2>1, <2>2, IdleRefines
<1>17. CASE UNCHANGED vars
  <2>1. UNCHANGED <<pc, select, msg, partner>>
    BY <1>17 DEF vars, context
  <2>2. \A u \in Threads : Moving(u)' <=> Moving(u)
    BY <2>1 DEF Moving
  <2>3. Same({}, {}, {})
    BY <2>1, <2>2, Quiet, BoundSame, Sub DEF Same
  <2> QED
    BY <2>3, AbstractStutter
<1> QED
  BY <1>1, <1>2, <1>3, <1>4, <1>5, <1>6, <1>7, <1>8, <1>9,
     <1>10, <1>11, <1>12, <1>13, <1>14, <1>15, <1>16, <1>17
     DEF Next, Step, Done

\* A message changes hands in the same step in which both calls succeed,
\* however timeouts, disconnections and selections race.
THEOREM ZeroRefinesRendezvous == Spec => ImplementsRendezvous
<1>1. Init /\ IInv => Abstract!Init
  <2> SUFFICES ASSUME Init, IInv PROVE Abstract!Init
    OBVIOUS
  <2>1. \A u \in Threads : pc[u] = "idle" /\ select[u] = "Waiting" /\ msg[u] = None /\ partner[u] = None
    BY DEF Init, MpmcInit
  <2>2. \A u \in Threads : Situation(u) = "idle" /\ Offer(u) = None
    BY <2>1, NotMet DEF HasMet, Pairing
  <2>3. \A r \in Receivers : Bound(r) = None
    BY <2>1, Sub, BoundIs DEF BoundShows, Moving
  <2> QED
    BY <2>2, <2>3, Sub DEF Abstract!Init
<1>2. IInv /\ IInv' /\ [Next]_vars => [Abstract!Next]_(Abstract!vars)
  BY RefinementStep
<1> QED
  BY <1>1, <1>2, Inductive, PTL DEF Spec, ImplementsRendezvous, Abstract!Spec
=============================================================================
