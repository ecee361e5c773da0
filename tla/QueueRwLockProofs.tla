------------------------- MODULE QueueRwLockProofs -------------------------
(***************************************************************************)
(* Proofs about QueueRwLock for any finite sets of readers and writers and *)
(* any number of calls: the owners are exact, the links of the queue are   *)
(* complete, and no node is used after its thread has left.                *)
(*                                                                         *)
(* All three are about a list of unbounded length, so none is inductive as *)
(* it stands.  The invariant IInv numbers the nodes in the order in which  *)
(* they were put into the queue: node i belongs to thread at[i], the queue *)
(* of the word are the nodes lo .. hi, those that thread t has taken to    *)
(* complete them dl[t] .. dh[t].  A claim about a chain of links is then a *)
(* claim about every number of an interval, and a step changes one node or *)
(* one end of an interval.  The numbering is bound by Shaped; the lock has *)
(* no such variable.  Further bound names: k is a node that knows the tail *)
(* (the lowest that a walk may need), and for thread t, h[t] is the node   *)
(* where its walk started, c[t] where it has come to, f[t] the k of the    *)
(* nodes it has taken.                                                     *)
(*                                                                         *)
(* The parts of IInv: TypeOK, CallInv (which function is at which point),  *)
(* OwnerInv (the owners against the word), HolderInv (one thread has the   *)
(* queue lock) and Shaped (the nodes).  Each is shown to be kept by every  *)
(* step (TypeStep, CallStep, OwnerStep, HolderStep, ShapeStep); the lemmas *)
(* <action>_does, <action>_owners and <action>_shape are the cases.        *)
(***************************************************************************)
EXTENDS QueueRwLock, WellFoundedInduction, FiniteSetTheorems, TLAPS

\* The points of a call and the functions that walk over the queue.
Points ==
  {"idle", "load", "attempt", "wait", "park", "find", "cache_tail", "reading", "decrement", "writing",
   "unlock", "downgrade", "unlock_queue", "split", "undo", "complete", "complete_all", "unpark"}

Flags == {"LOCKED", "QUEUED", "QUEUE_LOCKED", "DOWNGRADED"}

Words == [flags : SUBSET Flags, rest : Nat \cup Threads]

Links == Threads \cup {null}

\* The variables have their types.
TypeOK ==
  /\ pc \in [Threads -> Points]
  /\ word \in Words
  /\ node \in [Threads -> [next : Nat \cup Threads, prev : Links, tail : Links, completed : BOOLEAN]]
  /\ token \in [Threads -> BOOLEAN]
  /\ loc \in [Threads -> [state : Words, current : Links, prev : Links, tail : Links,
                          caller : {"none", "lock", "unlock", "read_unlock", "downgrade"}]]
  /\ left \in Nat

\* Which function may be at which point; who may have a node in the queue.
CallOK(t) ==
  /\ pc[t] \in {"find", "cache_tail"} => loc[t].caller # "none"
  /\ pc[t] = "decrement" => loc[t].caller = "read_unlock"
  /\ pc[t] \in {"unlock_queue", "split", "undo", "complete"} => loc[t].caller \in {"lock", "unlock"}
  /\ pc[t] \in {"complete_all", "unpark"} => loc[t].caller \in {"lock", "unlock", "downgrade"}
  /\ pc[t] \in {"idle", "load", "attempt", "wait", "park", "reading", "writing", "unlock", "downgrade"}
       => loc[t].caller = "none"
  /\ pc[t] # "unpark" => loc[t].prev = null
  /\ ~node[t].completed => pc[t] \in {"wait", "park"} \/ loc[t].caller = "lock"

CallInv == \A t \in Threads : CallOK(t)

\* The thread has the queue lock; it adds back links in read_unlock, without
\* the lock; it has taken the queue and adds back links to that.
Holds(t) ==
  pc[t] \in {"find", "cache_tail", "unlock_queue", "split", "undo"} /\ loc[t].caller \in {"lock", "unlock"}

Decrements(t) == loc[t].caller = "read_unlock"

Takes(t) == pc[t] \in {"find", "cache_tail"} /\ loc[t].caller = "downgrade"

Locking == {t \in Threads : pc[t] \in {"writing", "downgrade", "unlock"}}

\* The owners against the word: one writer and nobody else, or readers, counted
\* in the word while there is no queue; readers that decrement have a queue.
OwnerInv ==
  /\ "QUEUED" \notin word.flags => word.flags \subseteq {"LOCKED"} /\ word.rest \in Nat
  /\ \A t \in Locking :
       /\ Locking = {t} /\ Reading = {}
       /\ "LOCKED" \in word.flags /\ "DOWNGRADED" \notin word.flags
       /\ pc[t] # "writing" =>
            "QUEUED" \in word.flags /\ loc[t].state.flags \ {"QUEUE_LOCKED"} = {"QUEUED", "LOCKED"}
  /\ Reading # {} => "LOCKED" \in word.flags
  /\ "QUEUED" \notin word.flags => word.rest = Cardinality(Reading)
  /\ "DOWNGRADED" \in word.flags => Cardinality(Reading) = 1
  /\ \A t \in Threads : Decrements(t) =>
       /\ "QUEUED" \in word.flags /\ "DOWNGRADED" \notin word.flags
       /\ loc[t].state.flags \ {"QUEUE_LOCKED"} = {"QUEUED", "LOCKED"}

\* There are readers, and they are counted in the tail of the queue.
Counted == "QUEUED" \in word.flags /\ "DOWNGRADED" \notin word.flags /\ Reading # {}

\* At most one thread has the queue lock, and the word says so; while it is
\* about to hand the lock over, no readers are counted in the tail.
HolderInv ==
  /\ \A t \in Threads : Holds(t) =>
       /\ {"QUEUED", "QUEUE_LOCKED"} \subseteq word.flags
       /\ {"QUEUED", "QUEUE_LOCKED"} \subseteq loc[t].state.flags
       /\ pc[t] = "split" => "LOCKED" \notin loc[t].state.flags
       /\ pc[t] \in {"split", "undo"} \/ ~LockedBy(loc[t].state) => ~Counted
  /\ \A t, u \in Threads : Holds(t) /\ Holds(u) => t = u

\* at[i] is the thread of the i-th node that was ever put into the queue.  The
\* queue are the nodes lo .. hi, from the tail to the head, and dl[t] .. dh[t]
\* those that t has taken and will complete.
Live(lo, hi, dl, dh, i) == (lo <= i /\ i <= hi) \/ \E t \in Threads : dl[t] <= i /\ i <= dh[t]

\* The nodes of the queue and the taken ones are different, waiting nodes.
NodeInv(at, lo, hi, dl, dh) ==
  /\ lo <= hi + 1
  /\ \A i \in Nat : Live(lo, hi, dl, dh, i) => at[i] \in Threads /\ ~node[at[i]].completed
  /\ \A i, j \in Nat : Live(lo, hi, dl, dh, i) /\ Live(lo, hi, dl, dh, j) /\ at[i] = at[j] => i = j
  /\ \A t \in Threads : dh[t] < lo
  /\ \A t, u \in Threads : \A i \in Nat :
       dl[t] <= i /\ i <= dh[t] /\ dl[u] <= i /\ i <= dh[u] => t = u

\* The back links from node i to node j are there.
Back(at, i, j) == \A m \in i .. j - 1 : node[at[m]].prev = at[m + 1]

\* The nodes from u down to l are linked, node k knows the tail e, and so do
\* others above it; the nodes below such a node have their back links.
Linked(at, l, k, u, e) ==
  /\ l <= k /\ k <= u
  /\ \A i \in l + 1 .. u : node[at[i]].next = at[i - 1]
  /\ node[at[k]].tail = e
  /\ \A i \in k .. u : node[at[i]].tail # null => node[at[i]].tail = e /\ Back(at, l, i)
  /\ \A i \in l .. u - 1 : node[at[i]].prev \in {null, at[i + 1]}
  /\ node[at[u]].prev = null

\* The next owner is being split off from the tail of the queue.
Splitting == \E t \in Threads : pc[t] \in {"split", "undo"}

\* The word points to the head; while the tail is being split off, the nodes
\* know the one before it; the count of the readers is in the tail.
QueueInv(at, lo, hi, k) ==
  /\ "QUEUED" \notin word.flags => lo = hi + 1
  /\ "QUEUED" \in word.flags =>
       /\ word.rest = at[hi]
       /\ ~Splitting => Linked(at, lo, k, hi, at[lo])
       /\ Splitting => Linked(at, lo, k, hi, at[lo + 1])
  /\ Counted => node[at[lo]].next = Cardinality(Reading)

\* Thread t walks down from node h, has come to node c, and will find node k.
Walk(t, at, l, k, h, c) ==
  /\ loc[t].state.rest = at[h] /\ k <= h
  /\ pc[t] = "find" => loc[t].current = at[c] /\ k <= c /\ c <= h /\ Back(at, c, h)
  /\ pc[t] # "find" => loc[t].tail = at[l]
  /\ pc[t] \in {"cache_tail", "unlock_queue", "split"} => Back(at, l, h)

\* Thread t has the queue lock, and started from node h.
Holder(t, at, lo, hi, k, h) ==
  /\ ~LockedBy(loc[t].state) =>
       /\ \A i \in h .. hi : node[at[i]].prev = null
       /\ \A i \in h + 1 .. hi : node[at[i]].tail = null
  /\ pc[t] = "split" => k = h
  /\ pc[t] \in {"split", "undo"} =>
       /\ lo < k /\ loc[t].current = at[k]
       /\ \A i \in k + 1 .. hi : node[at[i]].tail = null

\* Every thread on its way over the queue of the word.
WalkInv(at, lo, hi, k, h, c) ==
  \A t \in Threads :
    /\ Holds(t) \/ Decrements(t) => Walk(t, at, lo, k, h[t], c[t]) /\ h[t] <= hi
    /\ Holds(t) => Holder(t, at, lo, hi, k, h[t])

\* Thread t has taken the nodes l .. u, and node k of them knows the tail.
Taken(t, at, l, u, k, c) ==
  /\ Takes(t) => Linked(at, l, k, u, at[l]) /\ Walk(t, at, l, k, u, c)
  /\ pc[t] \in {"complete", "complete_all"} => l <= u /\ loc[t].current = at[l]
  /\ pc[t] = "complete" => l = u
  /\ pc[t] = "unpark" => loc[t].current \in Threads /\ loc[t].prev = IF l <= u THEN at[l] ELSE null
  /\ pc[t] \in {"complete_all", "unpark"} => Back(at, l, u) /\ (l <= u => node[at[u]].prev = null)
  /\ ~Takes(t) /\ pc[t] \notin {"complete", "complete_all", "unpark"} => l > u

TakenInv(at, dl, dh, f, c) == \A t \in Threads : Taken(t, at, dl[t], dh[t], f[t], c[t])

Inv(at, lo, hi, k, dl, dh, h, c, f) ==
  /\ at \in [Nat -> Links] /\ lo \in Nat /\ hi \in Nat /\ k \in Nat
  /\ dl \in [Threads -> Nat] /\ dh \in [Threads -> Nat]
  /\ h \in [Threads -> Nat] /\ c \in [Threads -> Nat] /\ f \in [Threads -> Nat]
  /\ NodeInv(at, lo, hi, dl, dh) /\ QueueInv(at, lo, hi, k)
  /\ WalkInv(at, lo, hi, k, h, c) /\ TakenInv(at, dl, dh, f, c)

Shaped == \E at, lo, hi, k, dl, dh, h, c, f : Inv(at, lo, hi, k, dl, dh, h, c, f)

IInv == TypeOK /\ CallInv /\ OwnerInv /\ HolderInv /\ Shaped

-----------------------------------------------------------------------------
\* A node is neither null nor a number.
LEMMA NoNull == null \notin Threads /\ Threads \cap Nat = {} /\ IsFiniteSet(Threads)
BY ThreadsAssumption, NodesAssumption DEF Threads, null

\* The readers can be counted.
LEMMA OwnersFinite ==
  /\ IsFiniteSet(Reading) /\ Cardinality(Reading) \in Nat
  /\ Cardinality(Reading) = 0 <=> Reading = {}
<1>1. Reading \subseteq Threads
  BY DEF Reading
<1> QED
  BY <1>1, NoNull, FS_Subset, FS_CardinalityType, FS_EmptySet

\* The nodes of the queue and of the taken ones are registered, ...
LEMMA LiveNodes ==
  ASSUME NEW at, NEW lo, NEW hi, NEW k, NEW dl, NEW dh, NEW h, NEW c, NEW f,
         Inv(at, lo, hi, k, dl, dh, h, c, f)
  PROVE  /\ \A i \in lo .. hi : i \in Nat /\ Live(lo, hi, dl, dh, i) /\ Registered(at[i])
         /\ \A t \in Threads : \A i \in dl[t] .. dh[t] : i \in Nat /\ Live(lo, hi, dl, dh, i) /\ Registered(at[i])
<1> USE DEF Inv
<1>1. ASSUME NEW i \in lo .. hi PROVE i \in Nat /\ Live(lo, hi, dl, dh, i) /\ Registered(at[i])
  <2>1. i \in Nat /\ Live(lo, hi, dl, dh, i)
    BY DEF Live
  <2> QED
    BY <2>1 DEF NodeInv, Registered
<1>2. ASSUME NEW t \in Threads, NEW i \in dl[t] .. dh[t]
      PROVE  i \in Nat /\ Live(lo, hi, dl, dh, i) /\ Registered(at[i])
  <2>1. dl[t] \in Nat /\ dh[t] \in Nat
    OBVIOUS
  <2>2. i \in Nat /\ Live(lo, hi, dl, dh, i)
    BY <2>1 DEF Live
  <2> QED
    BY <2>2 DEF NodeInv, Registered
<1> QED
  BY <1>1, <1>2

\* The end of the queue that its nodes know of.
End(at, lo) == IF Splitting THEN at[lo + 1] ELSE at[lo]

\* ... and those of the queue are linked.
LEMMA MainQueue ==
  ASSUME NEW at, NEW lo, NEW hi, NEW k, NEW dl, NEW dh, NEW h, NEW c, NEW f,
         TypeOK, CallInv, HolderInv, Inv(at, lo, hi, k, dl, dh, h, c, f), "QUEUED" \in word.flags
  PROVE  /\ Linked(at, lo, k, hi, End(at, lo)) /\ End(at, lo) # null
         /\ lo \in Nat /\ hi \in Nat /\ k \in Nat /\ lo \in lo .. hi /\ hi \in lo .. hi /\ k \in lo .. hi
         /\ \A i \in lo .. hi : Registered(at[i])
<1>1. Linked(at, lo, k, hi, End(at, lo))
  <2>1. CASE Splitting
    BY <2>1 DEF Inv, QueueInv, End
  <2>2. CASE ~Splitting
    BY <2>2 DEF Inv, QueueInv, End
  <2> QED
    BY <2>1, <2>2
<1>2. lo \in Nat /\ hi \in Nat /\ k \in Nat /\ lo \in lo .. hi /\ hi \in lo .. hi /\ k \in lo .. hi
  BY <1>1 DEF Inv, Linked
<1>3. \A i \in lo .. hi : Registered(at[i])
  BY LiveNodes
<1>4. End(at, lo) # null
  <2>1. CASE Splitting
    <3>1. PICK t \in Threads : pc[t] \in {"split", "undo"}
      BY <2>1 DEF Splitting
    <3>2. Holds(t)
      BY <3>1 DEF Holds, CallInv, CallOK
    <3>3. lo < k
      BY <3>1, <3>2 DEF Inv, WalkInv, Holder
    <3>4. lo + 1 \in lo .. hi
      BY <1>2, <3>3
    <3> QED
      BY <1>3, <2>1, <3>4, NoNull DEF End, Registered
  <2>2. CASE ~Splitting
    BY <1>2, <1>3, <2>2, NoNull DEF End, Registered
  <2> QED
    BY <2>1, <2>2
<1> QED
  BY <1>1, <1>2, <1>3, <1>4

\* What a thread on its way over the queue of the word may rely on.
LEMMA MainWalk ==
  ASSUME NEW at, NEW lo, NEW hi, NEW k, NEW dl, NEW dh, NEW h, NEW c, NEW f,
         TypeOK, CallInv, OwnerInv, HolderInv, Inv(at, lo, hi, k, dl, dh, h, c, f),
         NEW t \in Threads, Holds(t) \/ Decrements(t)
  PROVE  /\ "QUEUED" \in word.flags
         /\ h[t] \in lo .. hi /\ c[t] \in Nat /\ k <= h[t] /\ Walk(t, at, lo, k, h[t], c[t])
         /\ Registered(at[lo]) /\ Registered(at[h[t]]) /\ loc[t].state.rest = at[h[t]]
         /\ pc[t] = "find" =>
              /\ loc[t].current = at[c[t]] /\ c[t] \in lo .. hi /\ Registered(at[c[t]])
              /\ node[at[c[t]]].tail = null =>
                   /\ c[t] - 1 \in lo .. hi /\ k <= c[t] - 1
                   /\ node[at[c[t]]].next = at[c[t] - 1] /\ Registered(at[c[t] - 1])
<1>1. "QUEUED" \in word.flags
  BY DEF HolderInv, OwnerInv
<1>2. Walk(t, at, lo, k, h[t], c[t]) /\ h[t] <= hi /\ h[t] \in Nat /\ c[t] \in Nat
  BY DEF Inv, WalkInv, Holder
<1>3. /\ Linked(at, lo, k, hi, End(at, lo)) /\ End(at, lo) # null
      /\ lo \in Nat /\ hi \in Nat /\ k \in Nat /\ k \in lo .. hi
      /\ \A i \in lo .. hi : Registered(at[i])
  BY <1>1, MainQueue
<1>4. k <= h[t] /\ h[t] \in lo .. hi
  BY <1>2, <1>3 DEF Walk
<1>5. /\ Registered(at[lo]) /\ Registered(at[h[t]]) /\ loc[t].state.rest = at[h[t]]
      /\ pc[t] = "find" =>
           /\ loc[t].current = at[c[t]] /\ c[t] \in lo .. hi /\ Registered(at[c[t]])
           /\ node[at[c[t]]].tail = null =>
                /\ c[t] - 1 \in lo .. hi /\ k <= c[t] - 1
                /\ node[at[c[t]]].next = at[c[t] - 1] /\ Registered(at[c[t] - 1])
  <2>1. lo <= k /\ k <= hi /\ k <= h[t] /\ node[at[k]].tail = End(at, lo)
    BY <1>2, <1>3, <1>4 DEF Linked, Walk
  <2>2. Registered(at[lo]) /\ Registered(at[h[t]]) /\ loc[t].state.rest = at[h[t]]
    BY <1>2, <1>3, <1>4, <2>1 DEF Walk
  <2>3. ASSUME pc[t] = "find"
        PROVE  loc[t].current = at[c[t]] /\ c[t] \in lo .. hi /\ Registered(at[c[t]])
    BY <1>2, <1>3, <1>4, <2>1, <2>3 DEF Walk
  <2>4. ASSUME pc[t] = "find", node[at[c[t]]].tail = null
        PROVE  /\ c[t] - 1 \in lo .. hi /\ k <= c[t] - 1
               /\ node[at[c[t]]].next = at[c[t] - 1] /\ Registered(at[c[t] - 1])
    <3>1. k <= c[t] /\ k # c[t]
      BY <1>2, <1>3, <1>4, <2>1, <2>4 DEF Walk
    <3>2. c[t] - 1 \in lo .. hi /\ c[t] \in lo + 1 .. hi /\ k <= c[t] - 1
      BY <1>2, <1>3, <1>4, <2>1, <2>3, <2>4, <3>1
    <3> QED
      BY <1>2, <1>3, <1>4, <3>2 DEF Linked
  <2> QED
    BY <2>2, <2>3, <2>4
<1> QED
  BY <1>1, <1>2, <1>4, <1>5

\* And over the queue that it has taken.
LEMMA TakenWalk ==
  ASSUME NEW at, NEW lo, NEW hi, NEW k, NEW dl, NEW dh, NEW h, NEW c, NEW f,
         TypeOK, Inv(at, lo, hi, k, dl, dh, h, c, f), NEW t \in Threads, Takes(t)
  PROVE  /\ Linked(at, dl[t], f[t], dh[t], at[dl[t]]) /\ Walk(t, at, dl[t], f[t], dh[t], c[t])
         /\ dl[t] \in Nat /\ dh[t] \in Nat /\ f[t] \in Nat /\ c[t] \in Nat /\ f[t] \in dl[t] .. dh[t]
         /\ dl[t] \in dl[t] .. dh[t] /\ dh[t] \in dl[t] .. dh[t]
         /\ Registered(at[dl[t]]) /\ Registered(at[dh[t]]) /\ loc[t].state.rest = at[dh[t]]
         /\ pc[t] = "find" =>
              /\ loc[t].current = at[c[t]] /\ c[t] \in dl[t] .. dh[t] /\ Registered(at[c[t]])
              /\ node[at[c[t]]].tail = null =>
                   /\ c[t] - 1 \in dl[t] .. dh[t] /\ f[t] <= c[t] - 1
                   /\ node[at[c[t]]].next = at[c[t] - 1] /\ Registered(at[c[t] - 1])
<1>1. Linked(at, dl[t], f[t], dh[t], at[dl[t]]) /\ Walk(t, at, dl[t], f[t], dh[t], c[t])
  BY DEF Inv, TakenInv, Taken
<1>2. dl[t] \in Nat /\ dh[t] \in Nat /\ f[t] \in Nat /\ c[t] \in Nat
  BY DEF Inv
<1>3. f[t] \in dl[t] .. dh[t] /\ dl[t] \in dl[t] .. dh[t] /\ dh[t] \in dl[t] .. dh[t]
  BY <1>1, <1>2 DEF Linked
<1>4. \A i \in dl[t] .. dh[t] : Registered(at[i])
  BY LiveNodes
<1>5. at[dl[t]] # null
  BY <1>3, <1>4, NoNull DEF Registered
<1>6. /\ Registered(at[dl[t]]) /\ Registered(at[dh[t]]) /\ loc[t].state.rest = at[dh[t]]
      /\ pc[t] = "find" =>
           /\ loc[t].current = at[c[t]] /\ c[t] \in dl[t] .. dh[t] /\ Registered(at[c[t]])
           /\ node[at[c[t]]].tail = null =>
                /\ c[t] - 1 \in dl[t] .. dh[t] /\ f[t] <= c[t] - 1
                /\ node[at[c[t]]].next = at[c[t] - 1] /\ Registered(at[c[t] - 1])
  <2>1. dl[t] <= f[t] /\ f[t] <= dh[t] /\ f[t] <= dh[t] /\ node[at[f[t]]].tail = at[dl[t]]
    BY <1>1, <1>2, <1>3, <1>4, <1>5 DEF Linked, Walk
  <2>2. Registered(at[dl[t]]) /\ Registered(at[dh[t]]) /\ loc[t].state.rest = at[dh[t]]
    BY <1>1, <1>2, <1>3, <1>4, <1>5, <2>1 DEF Walk
  <2>3. ASSUME pc[t] = "find"
        PROVE  loc[t].current = at[c[t]] /\ c[t] \in dl[t] .. dh[t] /\ Registered(at[c[t]])
    BY <1>1, <1>2, <1>3, <1>4, <1>5, <2>1, <2>3 DEF Walk
  <2>4. ASSUME pc[t] = "find", node[at[c[t]]].tail = null
        PROVE  /\ c[t] - 1 \in dl[t] .. dh[t] /\ f[t] <= c[t] - 1
               /\ node[at[c[t]]].next = at[c[t] - 1] /\ Registered(at[c[t] - 1])
    <3>1. f[t] <= c[t] /\ f[t] # c[t]
      BY <1>1, <1>2, <1>3, <1>4, <1>5, <2>1, <2>4 DEF Walk
    <3>2. c[t] - 1 \in dl[t] .. dh[t] /\ c[t] \in dl[t] + 1 .. dh[t] /\ f[t] <= c[t] - 1
      BY <1>1, <1>2, <1>3, <1>4, <1>5, <2>1, <2>3, <2>4, <3>1
    <3> QED
      BY <1>1, <1>2, <1>3, <1>4, <1>5, <3>2 DEF Linked
  <2> QED
    BY <2>2, <2>3, <2>4
<1> QED
  BY <1>1, <1>2, <1>3, <1>6

\* Every node that a thread is about to use is registered, and the count that
\* it decrements is there.
LEMMA Uses ==
  ASSUME IInv
  PROVE  NodesOutliveUse /\ \A t \in Threads : pc[t] = "decrement" => node[loc[t].tail].next \in Nat \ {0}
<1>1. PICK at, lo, hi, k, dl, dh, h, c, f : Inv(at, lo, hi, k, dl, dh, h, c, f)
  BY DEF IInv, Shaped
<1>2. TypeOK /\ CallInv /\ OwnerInv /\ HolderInv
  BY DEF IInv
<1> SUFFICES ASSUME NEW t \in Threads
             PROVE  /\ \A n \in Touches(t) : Registered(n)
                    /\ pc[t] \in {"unlock", "downgrade"} => loc[t].state.flags \ {"QUEUE_LOCKED"} = {"QUEUED", "LOCKED"}
                    /\ pc[t] = "unlock_queue" => {"QUEUED", "QUEUE_LOCKED"} \subseteq loc[t].state.flags
                    /\ pc[t] = "decrement" => node[loc[t].tail].next \in Nat \ {0}
  BY DEF NodesOutliveUse
<1>3. pc[t] \in {"unlock", "downgrade"} => loc[t].state.flags \ {"QUEUE_LOCKED"} = {"QUEUED", "LOCKED"}
  BY <1>2 DEF OwnerInv, Locking
<1>4. pc[t] = "unlock_queue" => {"QUEUED", "QUEUE_LOCKED"} \subseteq loc[t].state.flags
  BY <1>2 DEF HolderInv, Holds, CallInv, CallOK
<1>5. CASE pc[t] \in {"find", "cache_tail"}
  <2>1. Holds(t) \/ Decrements(t) \/ Takes(t)
    BY <1>2, <1>5 DEF Holds, Decrements, Takes, CallInv, CallOK, TypeOK
  <2>2. \A n \in Touches(t) : Registered(n)
    <3>1. CASE Holds(t) \/ Decrements(t)
      <4>1. Registered(loc[t].state.rest) /\ (pc[t] = "find" =>
              /\ Registered(loc[t].current)
              /\ node[loc[t].current].tail = null => Registered(node[loc[t].current].next))
        BY <1>1, <1>2, <3>1, MainWalk
      <4> QED
        BY <1>5, <4>1 DEF Touches
    <3>2. CASE Takes(t)
      <4>1. Registered(loc[t].state.rest) /\ (pc[t] = "find" =>
              /\ Registered(loc[t].current)
              /\ node[loc[t].current].tail = null => Registered(node[loc[t].current].next))
        BY <1>1, <1>2, <3>2, TakenWalk
      <4> QED
        BY <1>5, <4>1 DEF Touches
    <3> QED
      BY <2>1, <3>1, <3>2
  <2> QED
    BY <1>3, <1>4, <1>5, <2>2
<1>6. CASE pc[t] = "decrement"
  <2>1. Decrements(t) /\ t \in Reading
    BY <1>2, <1>6 DEF Decrements, CallInv, CallOK, Reading
  <2>2. Registered(at[lo]) /\ Walk(t, at, lo, k, h[t], c[t])
    BY <1>1, <1>2, <2>1, MainWalk
  <2>3. loc[t].tail = at[lo]
    BY <1>6, <2>2 DEF Walk
  <2>4. Counted
    BY <1>2, <2>1 DEF Counted, OwnerInv
  <2>5. node[at[lo]].next \in Nat \ {0}
    BY <1>1, <2>1, <2>4, OwnersFinite DEF Inv, QueueInv
  <2>6. Touches(t) = {loc[t].tail}
    BY <1>6 DEF Touches
  <2> QED
    BY <1>3, <1>4, <1>6, <2>2, <2>3, <2>5, <2>6
<1>7. CASE pc[t] \in {"unlock_queue", "undo"}
  <2>1. Holds(t)
    BY <1>2, <1>7 DEF Holds, CallInv, CallOK
  <2>2. /\ Registered(at[lo]) /\ Registered(loc[t].state.rest) /\ Walk(t, at, lo, k, h[t], c[t])
        /\ "QUEUED" \in word.flags
    BY <1>1, <1>2, <2>1, MainWalk
  <2>3. loc[t].tail = at[lo]
    BY <1>7, <2>2 DEF Walk
  <2>4. pc[t] = "undo" => loc[t].current = at[k]
    BY <1>1, <1>7, <2>1 DEF Inv, WalkInv, Holder
  <2>5. Registered(at[k])
    BY <1>1, <1>2, <2>2, MainQueue
  <2>6. pc[t] = "undo" => Touches(t) = {loc[t].current}
    BY DEF Touches
  <2>7. pc[t] = "unlock_queue" => Touches(t) \subseteq {loc[t].tail, loc[t].state.rest}
    BY DEF Touches
  <2> QED
    BY <1>3, <1>4, <1>7, <2>2, <2>3, <2>4, <2>5, <2>6, <2>7
<1>8. CASE pc[t] \in {"complete", "complete_all"}
  <2>1. dl[t] <= dh[t] /\ loc[t].current = at[dl[t]] /\ dl[t] \in Nat /\ dh[t] \in Nat
    BY <1>1, <1>8 DEF Inv, TakenInv, Taken
  <2>2. dl[t] \in dl[t] .. dh[t]
    BY <2>1
  <2>3. Registered(at[dl[t]])
    BY <1>1, <2>2, LiveNodes
  <2>4. Touches(t) = {loc[t].current}
    BY <1>8 DEF Touches
  <2> QED
    BY <1>3, <1>4, <1>8, <2>1, <2>3, <2>4
<1>9. CASE pc[t] \notin {"find", "cache_tail", "decrement", "unlock_queue", "undo", "complete", "complete_all"}
  <2>1. Touches(t) = {}
    BY <1>9 DEF Touches
  <2> QED
    BY <1>3, <1>4, <1>9, <2>1
<1> QED
  BY <1>5, <1>6, <1>7, <1>8, <1>9

-----------------------------------------------------------------------------
(***************************************************************************)
(* What the actions do, field by field                                     *)
(***************************************************************************)
\* Thread t goes from one point to another; the others stay where they are.
Moves(t, from, to) ==
  /\ pc[t] = from /\ pc'[t] = to
  /\ \A u \in Threads \ {t} : pc'[u] = pc[u] /\ loc'[u] = loc[u]

LocalIs(t, s, cu, pr, ta, ca) ==
  /\ loc'[t].state = s /\ loc'[t].current = cu /\ loc'[t].prev = pr
  /\ loc'[t].tail = ta /\ loc'[t].caller = ca

NodeIs(n, ne, pr, ta, co) ==
  /\ node'[n].next = ne /\ node'[n].prev = pr /\ node'[n].tail = ta /\ node'[n].completed = co
  /\ \A u \in Threads \ {n} : node'[u] = node[u]

Nodes == [next : Nat \cup Threads, prev : Links, tail : Links, completed : BOOLEAN]

Locals == [state : Words, current : Links, prev : Links, tail : Links,
           caller : {"none", "lock", "unlock", "read_unlock", "downgrade"}]

\* TypeOK with names for its records.
LEMMA Types ==
  ASSUME TypeOK
  PROVE  /\ pc \in [Threads -> Points] /\ word \in Words /\ node \in [Threads -> Nodes]
         /\ token \in [Threads -> BOOLEAN] /\ loc \in [Threads -> Locals] /\ left \in Nat
BY DEF TypeOK, Nodes, Locals

\* One lemma for each action: where the thread goes, its locals, the word and
\* the one node that changes.
LEMMA lock_does ==
  ASSUME TypeOK, NEW t \in Threads, lock(t)
  PROVE  \/ /\ Moves(t, "idle", held(t))
            /\ Lockable(t, word)
            /\ loc' = loc
            /\ node' = node
            /\ word' = Lock(t, word)
         \/ /\ Moves(t, "idle", "load")
            /\ loc' = loc
            /\ node' = node
            /\ word' = word
BY Types DEF lock, Goto, Moves, LocalIs, NodeIs, Locals, Nodes, NoLocals, NoNode

LEMMA load_does ==
  ASSUME TypeOK, NEW t \in Threads, load(t)
  PROVE  /\ Moves(t, "load", "attempt")
         /\ LocalIs(t, word, loc[t].current, loc[t].prev, loc[t].tail, loc[t].caller)
         /\ node' = node
         /\ word' = word
BY Types DEF load, Goto, Moves, LocalIs, NodeIs, Locals, Nodes, NoLocals, NoNode

LEMMA reload_does ==
  ASSUME TypeOK, NEW t \in Threads, reload(t)
  PROVE  /\ Moves(t, "attempt", "attempt")
         /\ LocalIs(t, word, loc[t].current, loc[t].prev, loc[t].tail, loc[t].caller)
         /\ node' = node
         /\ word' = word
BY Types DEF reload, Reload, Goto, Moves, LocalIs, NodeIs, Locals, Nodes, NoLocals, NoNode

LEMMA lock_contended_does ==
  ASSUME TypeOK, NEW t \in Threads, lock_contended(t)
  PROVE  /\ Moves(t, "attempt", held(t))
         /\ Lockable(t, word)
         /\ LocalIs(t, UNLOCKED, null, null, null, "none")
         /\ node' = node
         /\ word' = Lock(t, word)
BY Types DEF lock_contended, Exchange, Leave, Goto, Moves, LocalIs, NodeIs, Locals, Nodes, NoLocals, NoNode

LEMMA enqueue_does ==
  ASSUME TypeOK, NEW t \in Threads, enqueue(t)
  PROVE  \/ /\ Moves(t, "attempt", "wait")
            /\ "QUEUED" \notin word.flags
            /\ ~Lockable(t, word)
            /\ LocalIs(t, UNLOCKED, null, null, null, "none")
            /\ NodeIs(t, word.rest, null, t, FALSE)
            /\ word' = S((word.flags \cap {"DOWNGRADED", "LOCKED"}) \cup {"QUEUED"}, t)
         \/ /\ Moves(t, "attempt", "wait")
            /\ "QUEUED" \in word.flags /\ "QUEUE_LOCKED" \in word.flags
            /\ LocalIs(t, UNLOCKED, null, null, null, "none")
            /\ NodeIs(t, word.rest, null, null, FALSE)
            /\ word' = S((word.flags \cap {"DOWNGRADED", "LOCKED"}) \cup {"QUEUED", "QUEUE_LOCKED"}, t)
         \/ /\ Moves(t, "attempt", "find")
            /\ "QUEUED" \in word.flags /\ "QUEUE_LOCKED" \notin word.flags
            /\ LocalIs(t, word', t, null, null, "lock")
            /\ NodeIs(t, word.rest, null, null, FALSE)
            /\ word' = S((word.flags \cap {"DOWNGRADED", "LOCKED"}) \cup {"QUEUED", "QUEUE_LOCKED"}, t)
<1> DEFINE fl == (word.flags \cap {"DOWNGRADED", "LOCKED"}) \cup {"QUEUED"}
           n0 == [next |-> word.rest, prev |-> null, completed |-> FALSE,
                  tail |-> IF "QUEUED" \in word.flags THEN null ELSE t]
<1>1. /\ word = loc[t].state /\ ~Lockable(t, word)
      /\ word' = S(fl \cup (IF "QUEUED" \in word.flags THEN {"QUEUE_LOCKED"} ELSE {}), t)
      /\ node' = [node EXCEPT ![t] = n0]
  BY DEF enqueue, Exchange
<1>2. NodeIs(t, word.rest, null, IF "QUEUED" \in word.flags THEN null ELSE t, FALSE)
  BY <1>1, Types DEF NodeIs
<1> HIDE DEF n0
<1>3. CASE "QUEUED" \notin word.flags
  <2>1. Goto(t, "attempt", "wait") /\ Leave(t)
    BY <1>1, <1>3 DEF enqueue
  <2>2. Moves(t, "attempt", "wait") /\ LocalIs(t, UNLOCKED, null, null, null, "none")
    BY <2>1, Types DEF Goto, Leave, Moves, LocalIs, NoLocals
  <2>3. word' = S(fl, t)
    BY <1>1, <1>3 DEF S
  <2> QED
    BY <1>1, <1>2, <1>3, <2>2, <2>3
<1>4. ASSUME "QUEUED" \in word.flags
      PROVE  word' = S((word.flags \cap {"DOWNGRADED", "LOCKED"}) \cup {"QUEUED", "QUEUE_LOCKED"}, t)
  <2>1. fl \cup {"QUEUE_LOCKED"} = (word.flags \cap {"DOWNGRADED", "LOCKED"}) \cup {"QUEUED", "QUEUE_LOCKED"}
    OBVIOUS
  <2> HIDE DEF fl
  <2> QED
    BY <1>1, <1>4, <2>1
<1>5. CASE "QUEUED" \in word.flags /\ "QUEUE_LOCKED" \in word.flags
  <2>1. Goto(t, "attempt", "wait") /\ Leave(t)
    BY <1>1, <1>5 DEF enqueue
  <2>2. Moves(t, "attempt", "wait") /\ LocalIs(t, UNLOCKED, null, null, null, "none")
    BY <2>1, Types DEF Goto, Leave, Moves, LocalIs, NoLocals
  <2> QED
    BY <1>2, <1>4, <1>5, <2>2
<1>6. CASE "QUEUED" \in word.flags /\ "QUEUE_LOCKED" \notin word.flags
  <2>1. Find(t, "attempt", word', "lock")
    BY <1>1, <1>6 DEF enqueue, S
  <2>2. Moves(t, "attempt", "find") /\ LocalIs(t, word', word'.rest, null, null, "lock")
    BY <2>1, Types DEF Find, Goto, Moves, LocalIs, NoLocals
  <2>3. word'.rest = t
    BY <1>4, <1>6 DEF S
  <2>4. LocalIs(t, word', t, null, null, "lock")
    BY <2>2, <2>3 DEF LocalIs
  <2> QED
    BY <1>2, <1>4, <1>6, <2>2, <2>4
<1> QED
  BY <1>3, <1>5, <1>6

LEMMA wait_does ==
  ASSUME TypeOK, NEW t \in Threads, wait(t)
  PROVE  \/ /\ Moves(t, "wait", "load")
            /\ node[t].completed
            /\ loc' = loc
            /\ NodeIs(t, null, null, null, TRUE)
            /\ word' = word
         \/ /\ Moves(t, "wait", "park")
            /\ loc' = loc
            /\ node' = node
            /\ word' = word
BY Types DEF wait, Goto, Moves, LocalIs, NodeIs, Locals, Nodes, NoLocals, NoNode

LEMMA park_does ==
  ASSUME TypeOK, NEW t \in Threads, park(t)
  PROVE  /\ Moves(t, "park", "wait")
         /\ loc' = loc
         /\ node' = node
         /\ word' = word
BY Types DEF park, Goto, Moves, LocalIs, NodeIs, Locals, Nodes, NoLocals, NoNode

LEMMA park_spuriously_does ==
  ASSUME TypeOK, NEW t \in Threads, park_spuriously(t)
  PROVE  /\ Moves(t, "park", "wait")
         /\ loc' = loc
         /\ node' = node
         /\ word' = word
BY Types DEF park_spuriously, Goto, Moves, LocalIs, NodeIs, Locals, Nodes, NoLocals, NoNode

LEMMA find_tail_does ==
  ASSUME TypeOK, NEW t \in Threads, find_tail(t), NEW n \in Threads, pc[t] = "find" /\ node[loc[t].current].tail = null => n = node[loc[t].current].next
  PROVE  \/ /\ Moves(t, "find", "cache_tail")
            /\ node[loc[t].current].tail # null
            /\ LocalIs(t, loc[t].state, null, loc[t].prev, node[loc[t].current].tail, loc[t].caller)
            /\ node' = node
            /\ word' = word
         \/ /\ Moves(t, "find", "find")
            /\ node[loc[t].current].tail = null
            /\ LocalIs(t, loc[t].state, node[loc[t].current].next, loc[t].prev, loc[t].tail, loc[t].caller)
            /\ NodeIs(n, node[n].next, loc[t].current, node[n].tail, node[n].completed)
            /\ word' = word
BY Types DEF find_tail, Goto, Moves, LocalIs, NodeIs, Locals, Nodes, NoLocals, NoNode

LEMMA cache_tail_does ==
  ASSUME TypeOK, NEW t \in Threads, cache_tail(t), NEW n \in Threads, n = loc[t].state.rest
  PROVE  /\ Moves(t, "cache_tail", Found[loc[t].caller])
         /\ LocalIs(t, loc[t].state, IF loc[t].caller = "downgrade" THEN loc[t].tail ELSE null, loc[t].prev, loc[t].tail, loc[t].caller)
         /\ NodeIs(n, node[n].next, node[n].prev, loc[t].tail, node[n].completed)
         /\ word' = word
BY Types DEF cache_tail, Goto, Moves, LocalIs, NodeIs, Locals, Nodes, NoLocals, NoNode

LEMMA read_unlock_does ==
  ASSUME TypeOK, NEW t \in Threads, read_unlock(t)
  PROVE  \/ /\ Moves(t, "reading", "idle")
            /\ "QUEUED" \notin word.flags
            /\ loc' = loc
            /\ node' = node
            /\ word' = IF word.rest > 1 THEN S({"LOCKED"}, word.rest - 1) ELSE UNLOCKED
         \/ /\ Moves(t, "reading", "idle")
            /\ {"QUEUED", "DOWNGRADED"} \subseteq word.flags
            /\ loc' = loc
            /\ node' = node
            /\ word' = S(word.flags \ {"DOWNGRADED", "LOCKED"}, word.rest)
         \/ /\ Moves(t, "reading", "find")
            /\ "QUEUED" \in word.flags /\ "DOWNGRADED" \notin word.flags
            /\ LocalIs(t, word, word.rest, null, null, "read_unlock")
            /\ node' = node
            /\ word' = word
BY Types DEF read_unlock, Find, Goto, Moves, LocalIs, NodeIs, Locals, Nodes, NoLocals, NoNode

LEMMA decrement_does ==
  ASSUME TypeOK, NEW t \in Threads, decrement(t), NEW n \in Threads, n = loc[t].tail
  PROVE  \/ /\ Moves(t, "decrement", "unlock")
            /\ node[n].next = 1
            /\ LocalIs(t, loc[t].state, null, null, null, "none")
            /\ NodeIs(n, node[n].next - 1, node[n].prev, node[n].tail, node[n].completed)
            /\ word' = word
         \/ /\ Moves(t, "decrement", "idle")
            /\ node[n].next # 1
            /\ LocalIs(t, UNLOCKED, null, null, null, "none")
            /\ NodeIs(n, node[n].next - 1, node[n].prev, node[n].tail, node[n].completed)
            /\ word' = word
BY Types DEF decrement, Leave, Goto, Moves, LocalIs, NodeIs, Locals, Nodes, NoLocals, NoNode

LEMMA write_unlock_does ==
  ASSUME TypeOK, NEW t \in Threads, write_unlock(t)
  PROVE  \/ /\ Moves(t, "writing", "idle")
            /\ word = S({"LOCKED"}, null)
            /\ loc' = loc
            /\ node' = node
            /\ word' = UNLOCKED
         \/ /\ Moves(t, "writing", "unlock")
            /\ word # S({"LOCKED"}, null)
            /\ LocalIs(t, word, loc[t].current, loc[t].prev, loc[t].tail, loc[t].caller)
            /\ node' = node
            /\ word' = word
BY Types DEF write_unlock, Goto, Moves, LocalIs, NodeIs, Locals, Nodes, NoLocals, NoNode

LEMMA unlock_contended_does ==
  ASSUME TypeOK, NEW t \in Threads, unlock_contended(t)
  PROVE  \/ /\ Moves(t, "unlock", "idle")
            /\ "QUEUE_LOCKED" \in word.flags
            /\ LocalIs(t, UNLOCKED, null, null, null, "none")
            /\ node' = node
            /\ word' = S((word.flags \ {"LOCKED"}) \cup {"QUEUE_LOCKED"}, word.rest)
         \/ /\ Moves(t, "unlock", "find")
            /\ "QUEUE_LOCKED" \notin word.flags
            /\ LocalIs(t, word', word.rest, null, null, "unlock")
            /\ node' = node
            /\ word' = S((word.flags \ {"LOCKED"}) \cup {"QUEUE_LOCKED"}, word.rest)
<1> DEFINE new == S((word.flags \ {"LOCKED"}) \cup {"QUEUE_LOCKED"}, word.rest)
<1>1. word = loc[t].state /\ word' = new /\ node' = node
  BY DEF unlock_contended, Exchange
<1>2. new.rest = word.rest
  BY DEF S
<1> HIDE DEF new
<1>3. CASE "QUEUE_LOCKED" \in word.flags
  <2>1. Goto(t, "unlock", "idle") /\ Leave(t)
    BY <1>1, <1>3 DEF unlock_contended
  <2>2. Moves(t, "unlock", "idle") /\ LocalIs(t, UNLOCKED, null, null, null, "none")
    BY <2>1, Types DEF Leave, Goto, Moves, LocalIs, NoLocals
  <2> QED
    BY <1>1, <1>3, <2>2 DEF new
<1>4. CASE "QUEUE_LOCKED" \notin word.flags
  <2>1. Find(t, "unlock", new, "unlock")
    BY <1>1, <1>4 DEF unlock_contended, new
  <2>2. Moves(t, "unlock", "find") /\ LocalIs(t, new, new.rest, null, null, "unlock")
    BY <2>1, Types DEF Find, Goto, Moves, LocalIs, NoLocals
  <2> QED
    BY <1>1, <1>2, <1>4, <2>2 DEF LocalIs, new
<1> QED
  BY <1>1, <1>3, <1>4 DEF new

LEMMA reunlock_does ==
  ASSUME TypeOK, NEW t \in Threads, reunlock(t)
  PROVE  /\ Moves(t, "unlock", "unlock")
         /\ LocalIs(t, word, loc[t].current, loc[t].prev, loc[t].tail, loc[t].caller)
         /\ node' = node
         /\ word' = word
BY Types DEF reunlock, Reload, Goto, Moves, LocalIs, NodeIs, Locals, Nodes, NoLocals, NoNode

LEMMA downgrade_does ==
  ASSUME TypeOK, NEW t \in Threads, downgrade(t)
  PROVE  \/ /\ Moves(t, "writing", "reading")
            /\ word = S({"LOCKED"}, null)
            /\ loc' = loc
            /\ node' = node
            /\ word' = S({"LOCKED"}, 1)
         \/ /\ Moves(t, "writing", "downgrade")
            /\ word # S({"LOCKED"}, null)
            /\ LocalIs(t, word, loc[t].current, loc[t].prev, loc[t].tail, loc[t].caller)
            /\ node' = node
            /\ word' = word
BY Types DEF downgrade, Goto, Moves, LocalIs, NodeIs, Locals, Nodes, NoLocals, NoNode

LEMMA downgrade_slow_does ==
  ASSUME TypeOK, NEW t \in Threads, downgrade_slow(t)
  PROVE  \/ /\ Moves(t, "downgrade", "reading")
            /\ "QUEUE_LOCKED" \in word.flags
            /\ LocalIs(t, UNLOCKED, null, null, null, "none")
            /\ node' = node
            /\ word' = S(word.flags \cup {"DOWNGRADED"}, word.rest)
         \/ /\ Moves(t, "downgrade", "find")
            /\ "QUEUE_LOCKED" \notin word.flags
            /\ LocalIs(t, word, word.rest, null, null, "downgrade")
            /\ node' = node
            /\ word' = S({"LOCKED"}, 1)
<1>1. word = loc[t].state /\ node' = node
  BY DEF downgrade_slow, Exchange
<1>3. CASE "QUEUE_LOCKED" \in word.flags
  BY <1>1, <1>3, Types DEF downgrade_slow, Exchange, Leave, Goto, Moves, LocalIs, NoLocals
<1>4. CASE "QUEUE_LOCKED" \notin word.flags
  <2>1. Find(t, "downgrade", word, "downgrade") /\ word' = S({"LOCKED"}, 1)
    BY <1>1, <1>4 DEF downgrade_slow, Exchange
  <2>2. Moves(t, "downgrade", "find") /\ LocalIs(t, word, word.rest, null, null, "downgrade")
    BY <2>1, Types DEF Find, Goto, Moves, LocalIs, NoLocals
  <2> QED
    BY <1>1, <1>4, <2>1, <2>2
<1> QED
  BY <1>3, <1>4

LEMMA redowngrade_does ==
  ASSUME TypeOK, NEW t \in Threads, redowngrade(t)
  PROVE  /\ Moves(t, "downgrade", "downgrade")
         /\ LocalIs(t, word, loc[t].current, loc[t].prev, loc[t].tail, loc[t].caller)
         /\ node' = node
         /\ word' = word
BY Types DEF redowngrade, Reload, Goto, Moves, LocalIs, NodeIs, Locals, Nodes, NoLocals, NoNode

LEMMA release_queue_does ==
  ASSUME TypeOK, NEW t \in Threads, release_queue(t)
  PROVE  /\ Moves(t, "unlock_queue", Return[loc[t].caller])
         /\ LockedBy(word)
         /\ word = loc[t].state
         /\ LocalIs(t, UNLOCKED, null, null, null, "none")
         /\ node' = node
         /\ word' = S(word.flags \ {"QUEUE_LOCKED"}, word.rest)
BY Types DEF release_queue, Exchange, Leave, Goto, Moves, LocalIs, NodeIs, Locals, Nodes, NoLocals, NoNode

LEMMA split_does ==
  ASSUME TypeOK, NEW t \in Threads, split(t), NEW n \in Threads, n = loc[t].state.rest
  PROVE  /\ Moves(t, "unlock_queue", "split")
         /\ ~LockedBy(loc[t].state)
         /\ WakesWriter(t)
         /\ LocalIs(t, loc[t].state, loc[t].state.rest, loc[t].prev, loc[t].tail, loc[t].caller)
         /\ NodeIs(n, node[n].next, node[n].prev, node[loc[t].tail].prev, node[n].completed)
         /\ word' = word
BY Types DEF split, Goto, Moves, LocalIs, NodeIs, Locals, Nodes, NoLocals, NoNode

LEMMA split_release_does ==
  ASSUME TypeOK, NEW t \in Threads, split_release(t)
  PROVE  /\ Moves(t, "split", "complete")
         /\ word = loc[t].state
         /\ LocalIs(t, loc[t].state, loc[t].tail, loc[t].prev, loc[t].tail, loc[t].caller)
         /\ node' = node
         /\ word' = S(word.flags \ {"QUEUE_LOCKED"}, word.rest)
BY Types DEF split_release, Exchange, Goto, Moves, LocalIs, NodeIs, Locals, Nodes, NoLocals, NoNode

LEMMA split_fail_does ==
  ASSUME TypeOK, NEW t \in Threads, split_fail(t)
  PROVE  /\ Moves(t, "split", "undo")
         /\ LocalIs(t, word, loc[t].current, loc[t].prev, loc[t].tail, loc[t].caller)
         /\ node' = node
         /\ word' = word
BY Types DEF split_fail, Reload, Goto, Moves, LocalIs, NodeIs, Locals, Nodes, NoLocals, NoNode

LEMMA undo_does ==
  ASSUME TypeOK, NEW t \in Threads, undo(t), NEW n \in Threads, n = loc[t].current
  PROVE  /\ Moves(t, "undo", "find")
         /\ LocalIs(t, loc[t].state, loc[t].state.rest, null, null, loc[t].caller)
         /\ NodeIs(n, node[n].next, node[n].prev, loc[t].tail, node[n].completed)
         /\ word' = word
BY Types DEF undo, Find, Goto, Moves, LocalIs, NodeIs, Locals, Nodes, NoLocals, NoNode

LEMMA wake_queue_does ==
  ASSUME TypeOK, NEW t \in Threads, wake_queue(t)
  PROVE  /\ Moves(t, "unlock_queue", "complete_all")
         /\ ~LockedBy(word)
         /\ word = loc[t].state
         /\ LocalIs(t, loc[t].state, loc[t].tail, loc[t].prev, loc[t].tail, loc[t].caller)
         /\ node' = node
         /\ word' = IF "DOWNGRADED" \in word.flags THEN S({"LOCKED"}, 1) ELSE UNLOCKED
BY Types DEF wake_queue, Exchange, Goto, Moves, LocalIs, NodeIs, Locals, Nodes, NoLocals, NoNode

LEMMA requeue_does ==
  ASSUME TypeOK, NEW t \in Threads, requeue(t)
  PROVE  /\ Moves(t, "unlock_queue", "find")
         /\ LocalIs(t, word, word.rest, null, null, loc[t].caller)
         /\ node' = node
         /\ word' = word
BY Types DEF requeue, Find, Goto, Moves, LocalIs, NodeIs, Locals, Nodes, NoLocals, NoNode

LEMMA complete_does ==
  ASSUME TypeOK, NEW t \in Threads, complete(t), NEW n \in Threads, n = loc[t].current
  PROVE  \/ /\ Moves(t, "complete", "unpark")
            /\ loc' = loc
            /\ NodeIs(n, node[n].next, node[n].prev, node[n].tail, TRUE)
            /\ word' = word
         \/ /\ Moves(t, "complete_all", "unpark")
            /\ LocalIs(t, loc[t].state, loc[t].current, node[n].prev, loc[t].tail, loc[t].caller)
            /\ NodeIs(n, node[n].next, node[n].prev, node[n].tail, TRUE)
            /\ word' = word
BY Types DEF complete, Goto, Moves, LocalIs, NodeIs, Locals, Nodes, NoLocals, NoNode

LEMMA unpark_does ==
  ASSUME TypeOK, NEW t \in Threads, unpark(t)
  PROVE  \/ /\ Moves(t, "unpark", Return[loc[t].caller])
            /\ loc[t].prev = null
            /\ LocalIs(t, UNLOCKED, null, null, null, "none")
            /\ node' = node
            /\ word' = word
         \/ /\ Moves(t, "unpark", "complete_all")
            /\ loc[t].prev # null
            /\ LocalIs(t, loc[t].state, loc[t].prev, null, loc[t].tail, loc[t].caller)
            /\ node' = node
            /\ word' = word
BY Types DEF unpark, Leave, Goto, Moves, LocalIs, NodeIs, Locals, Nodes, NoLocals, NoNode

-----------------------------------------------------------------------------
(***************************************************************************)
(* Types                                                                   *)
(***************************************************************************)
\* What a step must know about the nodes it uses to keep the types.
LEMMA StepNodes ==
  ASSUME IInv, NEW t \in Threads
  PROVE  /\ pc[t] = "find" =>
              /\ loc[t].current \in Threads
              /\ node[loc[t].current].tail = null => node[loc[t].current].next \in Threads
         /\ pc[t] = "decrement" => loc[t].tail \in Threads /\ node[loc[t].tail].next \in Nat \ {0}
         /\ pc[t] = "unlock_queue" /\ ~LockedBy(loc[t].state) => loc[t].tail \in Threads
         /\ pc[t] \in {"complete", "complete_all"} => loc[t].current \in Threads
         /\ "QUEUED" \notin word.flags => word.rest \in Nat
         /\ "QUEUED" \in word.flags => word.rest \in Threads
         /\ pc[t] \in {"undo", "unlock_queue", "split"} => loc[t].state.rest \in Threads /\ "QUEUED" \in word.flags
         /\ pc[t] \in {"unlock", "downgrade"} => "QUEUED" \in word.flags
         /\ pc[t] = "cache_tail" => loc[t].state.rest \in Threads
         /\ pc[t] = "undo" => loc[t].current \in Threads
         /\ pc[t] = "decrement" => Counted /\ node[loc[t].tail].next = Cardinality(Reading)
<1>1. NodesOutliveUse /\ \A u \in Threads : pc[u] = "decrement" => node[loc[u].tail].next \in Nat \ {0}
  BY Uses
<1>2. ASSUME NEW n \in Touches(t) PROVE n \in Threads /\ Registered(n)
  BY <1>1 DEF NodesOutliveUse, Registered
<1>3. ASSUME pc[t] = "find"
      PROVE  /\ loc[t].current \in Threads
             /\ node[loc[t].current].tail = null => node[loc[t].current].next \in Threads
  <2>1. Touches(t) = {loc[t].current} \cup
         (IF Registered(loc[t].current) /\ node[loc[t].current].tail = null
          THEN {node[loc[t].current].next} ELSE {})
    BY <1>3 DEF Touches
  <2>2. Registered(loc[t].current)
    BY <1>2, <2>1
  <2> QED
    BY <1>2, <2>1, <2>2
<1>4. pc[t] = "decrement" => loc[t].tail \in Threads
  BY <1>2 DEF Touches
<1>5. pc[t] = "unlock_queue" /\ ~LockedBy(loc[t].state) => loc[t].tail \in Threads
  BY <1>2 DEF Touches
<1>6. pc[t] \in {"complete", "complete_all"} => loc[t].current \in Threads
  BY <1>2 DEF Touches
<1>7. "QUEUED" \notin word.flags => word.rest \in Nat
  BY DEF IInv, OwnerInv
<1>8. PICK at, lo, hi, k, dl, dh, h, c, f : Inv(at, lo, hi, k, dl, dh, h, c, f)
  BY DEF IInv, Shaped
<1>9. TypeOK /\ CallInv /\ OwnerInv /\ HolderInv
  BY DEF IInv
<1>10. ASSUME "QUEUED" \in word.flags PROVE word.rest \in Threads
  <2>1. word.rest = at[hi]
    BY <1>8, <1>10 DEF Inv, QueueInv
  <2>2. Registered(at[hi])
    BY <1>8, <1>9, <1>10, MainQueue
  <2> QED
    BY <2>1, <2>2 DEF Registered
<1>11. ASSUME pc[t] \in {"undo", "unlock_queue", "split"} PROVE loc[t].state.rest \in Threads /\ "QUEUED" \in word.flags
  <2>1. Holds(t)
    BY <1>9, <1>11 DEF Holds, CallInv, CallOK
  <2>2. Registered(loc[t].state.rest) /\ "QUEUED" \in word.flags
    BY <1>8, <1>9, <2>1, MainWalk
  <2> QED
    BY <2>2 DEF Registered
<1>12. pc[t] \in {"unlock", "downgrade"} => "QUEUED" \in word.flags
  BY <1>9 DEF OwnerInv, Locking
<1>13. pc[t] = "cache_tail" => loc[t].state.rest \in Threads
  BY <1>2 DEF Touches
<1>14. pc[t] = "undo" => loc[t].current \in Threads
  BY <1>2 DEF Touches
<1>15. ASSUME pc[t] = "decrement" PROVE Counted /\ node[loc[t].tail].next = Cardinality(Reading)
  <2>1. Decrements(t) /\ t \in Reading
    BY <1>9, <1>15 DEF Decrements, CallInv, CallOK, Reading
  <2>2. Walk(t, at, lo, k, h[t], c[t])
    BY <1>8, <1>9, <2>1, MainWalk
  <2>3. loc[t].tail = at[lo]
    BY <1>15, <2>2 DEF Walk
  <2>4. Counted
    BY <1>9, <2>1 DEF Counted, OwnerInv
  <2> QED
    BY <1>8, <2>3, <2>4 DEF Inv, QueueInv
<1> QED
  BY <1>1, <1>3, <1>4, <1>5, <1>6, <1>7, <1>10, <1>11, <1>12, <1>13, <1>14, <1>15

\* The types are kept.  A link that is followed leads to a node (StepNodes).
LEMMA TypeStep ==
  ASSUME IInv, [Next]_vars
  PROVE  TypeOK'
<1> DEFINE Goal == /\ pc' \in [Threads -> Points] /\ word' \in Words /\ node' \in [Threads -> Nodes]
                   /\ token' \in [Threads -> BOOLEAN] /\ loc' \in [Threads -> Locals] /\ left' \in Nat
<1>0. TypeOK /\ CallInv
  BY DEF IInv
<1>a. /\ pc \in [Threads -> Points] /\ word \in Words /\ node \in [Threads -> Nodes]
      /\ token \in [Threads -> BOOLEAN] /\ loc \in [Threads -> Locals] /\ left \in Nat
  BY <1>0, Types
<1>b. /\ UNLOCKED \in Words /\ null \in Links /\ Threads \subseteq Links /\ null \in Nat
      /\ \A t \in Threads : /\ loc[t].state \in Words /\ loc[t].current \in Links
                            /\ loc[t].prev \in Links /\ loc[t].tail \in Links
                            /\ node[t].prev \in Links /\ node[t].tail \in Links
      /\ \A s \in Words : s.rest \in Nat \cup Threads
  BY <1>a DEF UNLOCKED, S, Words, Links, Locals, Nodes, null
<1>1. ASSUME NEW t \in Threads, lock(t) PROVE Goal
  <2>1. pc' \in [Threads -> Points]
    BY <1>0, <1>a, <1>1 DEF lock, Goto, Points, CallInv, CallOK, held
  <2>2. word' \in Words
    BY <1>0, <1>a, <1>b, <1>1, StepNodes DEF lock, Goto, S, Words, Flags, Lock, Lockable, UNLOCKED, null
  <2>3. left' \in Nat
    BY <1>0, <1>a, <1>b, <1>1, StepNodes DEF lock, Goto
  <2> QED
    BY <1>a, <1>1, <2>1, <2>2, <2>3 DEF lock
<1>2. ASSUME NEW t \in Threads, load(t) PROVE Goal
  <2>1. pc' \in [Threads -> Points]
    BY <1>0, <1>a, <1>2 DEF load, Goto, Points, CallInv, CallOK
  <2>2. loc' \in [Threads -> Locals]
    <3>1. \/ loc' = [loc EXCEPT ![t].state = word]
      BY <1>b, <1>2, StepNodes DEF load, Goto
    <3>2. t \in Threads /\ loc \in [Threads -> Locals] /\ UNLOCKED \in Words /\ null \in Links /\ Threads \subseteq Links
      BY <1>a, <1>b
    <3>3. word \in Words
      BY <1>0, <1>a, <1>b, <1>2, StepNodes DEF load, Goto
    <3> QED
      BY ONLY <3>1, <3>2, <3>3 DEF Locals, NoLocals
  <2> QED
    BY <1>a, <1>2, <2>1, <2>2 DEF load
<1>3. ASSUME NEW t \in Threads, reload(t) PROVE Goal
  <2>1. pc' \in [Threads -> Points]
    BY <1>0, <1>a, <1>3 DEF reload, Reload, Goto, Points, CallInv, CallOK
  <2>2. loc' \in [Threads -> Locals]
    <3>1. \/ loc' = [loc EXCEPT ![t].state = word]
      BY <1>b, <1>3, StepNodes DEF reload, Reload, Goto
    <3>2. t \in Threads /\ loc \in [Threads -> Locals] /\ UNLOCKED \in Words /\ null \in Links /\ Threads \subseteq Links
      BY <1>a, <1>b
    <3>3. word \in Words
      BY <1>0, <1>a, <1>b, <1>3, StepNodes DEF reload, Goto
    <3> QED
      BY ONLY <3>1, <3>2, <3>3 DEF Locals, NoLocals
  <2> QED
    BY <1>a, <1>3, <2>1, <2>2 DEF reload, Reload
<1>4. ASSUME NEW t \in Threads, lock_contended(t) PROVE Goal
  <2>1. pc' \in [Threads -> Points]
    BY <1>0, <1>a, <1>4 DEF lock_contended, Exchange, Leave, Goto, Points, CallInv, CallOK, held
  <2>2. word' \in Words
    BY <1>0, <1>a, <1>b, <1>4, StepNodes DEF lock_contended, Exchange, Leave, Goto, S, Words, Flags, Lock, Lockable, UNLOCKED, null
  <2>3. loc' \in [Threads -> Locals]
    <3>1. \/ loc' = [loc EXCEPT ![t] = NoLocals]
      BY <1>b, <1>4, StepNodes DEF lock_contended, Exchange, Leave, Goto
    <3>2. t \in Threads /\ loc \in [Threads -> Locals] /\ UNLOCKED \in Words /\ null \in Links /\ Threads \subseteq Links
      BY <1>a, <1>b
    <3> QED
      BY ONLY <3>1, <3>2 DEF Locals, NoLocals
  <2> QED
    BY <1>a, <1>4, <2>1, <2>2, <2>3 DEF lock_contended
<1>5. ASSUME NEW t \in Threads, enqueue(t) PROVE Goal
  <2>1. pc' \in [Threads -> Points]
    BY <1>0, <1>a, <1>5 DEF enqueue, Exchange, Find, Leave, Goto, Points, CallInv, CallOK
  <2>2. word' \in Words
    BY <1>0, <1>a, <1>b, <1>5, StepNodes DEF enqueue, Exchange, Find, Leave, Goto, S, Words, Flags, Lock, Lockable, UNLOCKED, null
  <2>3. node' \in [Threads -> Nodes]
    BY <1>0, <1>a, <1>b, <1>5, StepNodes DEF enqueue, Exchange, Find, Leave, Goto, Nodes
  <2>4. loc' \in [Threads -> Locals]
    <3>1. \/ loc' = [loc EXCEPT ![t] = NoLocals]
          \/ loc' = [loc EXCEPT ![t] = [NoLocals EXCEPT !.state = word', !.current = word'.rest, !.caller = "lock"]] /\ word'.rest \in Threads
      BY <1>b, <1>5, StepNodes DEF enqueue, Exchange, Find, Leave, Goto, S
    <3>2. t \in Threads /\ loc \in [Threads -> Locals] /\ UNLOCKED \in Words /\ null \in Links /\ Threads \subseteq Links
      BY <1>a, <1>b
    <3>3. word' \in Words
      BY <1>0, <1>a, <1>b, <2>2, <1>5, StepNodes DEF enqueue, Find, Exchange, Goto
    <3>4. CASE loc' = [loc EXCEPT ![t] = NoLocals]
      BY ONLY <3>4, <3>2, <3>3 DEF Locals, NoLocals
    <3>5. CASE loc' = [loc EXCEPT ![t] = [NoLocals EXCEPT !.state = word', !.current = word'.rest, !.caller = "lock"]] /\ word'.rest \in Threads
      BY ONLY <3>5, <3>2, <3>3 DEF Locals, NoLocals
    <3> QED
      BY <3>1, <3>4, <3>5
  <2> QED
    BY <1>a, <1>5, <2>1, <2>2, <2>3, <2>4 DEF enqueue
<1>6. ASSUME NEW t \in Threads, wait(t) PROVE Goal
  <2>1. pc' \in [Threads -> Points]
    BY <1>0, <1>a, <1>6 DEF wait, Goto, Points, CallInv, CallOK
  <2>2. node' \in [Threads -> Nodes]
    <3>1. \/ node' = node
          \/ node' = [node EXCEPT ![t] = NoNode]
      BY <1>b, <1>6, StepNodes DEF wait, Goto
    <3>2. t \in Threads /\ node \in [Threads -> Nodes] /\ UNLOCKED \in Words /\ null \in Links /\ Threads \subseteq Links
      BY <1>a, <1>b
    <3>4. CASE node' = node
      BY ONLY <3>4, <3>2 DEF Nodes, NoNode, null
    <3>5. CASE node' = [node EXCEPT ![t] = NoNode]
      BY ONLY <3>5, <3>2 DEF Nodes, NoNode, null
    <3> QED
      BY <3>1, <3>4, <3>5
  <2> QED
    BY <1>a, <1>6, <2>1, <2>2 DEF wait
<1>7. ASSUME NEW t \in Threads, park(t) PROVE Goal
  <2>1. pc' \in [Threads -> Points]
    BY <1>0, <1>a, <1>7 DEF park, Goto, Points, CallInv, CallOK
  <2>2. token' \in [Threads -> BOOLEAN]
    BY <1>0, <1>a, <1>b, <1>7, StepNodes DEF park, Goto
  <2> QED
    BY <1>a, <1>7, <2>1, <2>2 DEF park
<1>8. ASSUME NEW t \in Threads, park_spuriously(t) PROVE Goal
  <2>1. pc' \in [Threads -> Points]
    BY <1>0, <1>a, <1>8 DEF park_spuriously, Goto, Points, CallInv, CallOK
  <2> QED
    BY <1>a, <1>8, <2>1 DEF park_spuriously
<1>9. ASSUME NEW t \in Threads, find_tail(t) PROVE Goal
  <2>1. pc' \in [Threads -> Points]
    BY <1>0, <1>a, <1>9 DEF find_tail, Goto, Points, CallInv, CallOK
  <2>2. loc' \in [Threads -> Locals]
    <3>1. \/ loc' = [loc EXCEPT ![t].tail = node[loc[t].current].tail, ![t].current = null]
          \/ loc' = [loc EXCEPT ![t].current = node[loc[t].current].next] /\ node[loc[t].current].next \in Threads
      BY <1>b, <1>9, StepNodes DEF find_tail, Goto
    <3>2. t \in Threads /\ loc \in [Threads -> Locals] /\ UNLOCKED \in Words /\ null \in Links /\ Threads \subseteq Links
      BY <1>a, <1>b
    <3>3. node[loc[t].current].tail \in Links
      BY <1>0, <1>a, <1>b, <1>9, StepNodes DEF find_tail, Goto
    <3>4. CASE loc' = [loc EXCEPT ![t].tail = node[loc[t].current].tail, ![t].current = null]
      BY ONLY <3>4, <3>2, <3>3 DEF Locals, NoLocals
    <3>5. CASE loc' = [loc EXCEPT ![t].current = node[loc[t].current].next] /\ node[loc[t].current].next \in Threads
      BY ONLY <3>5, <3>2, <3>3 DEF Locals, NoLocals
    <3> QED
      BY <3>1, <3>4, <3>5
  <2>3. node' \in [Threads -> Nodes]
    <3>1. \/ node' = node
          \/ node' = [node EXCEPT ![node[loc[t].current].next].prev = loc[t].current] /\ node[loc[t].current].next \in Threads
      BY <1>b, <1>9, StepNodes DEF find_tail, Goto
    <3>2. t \in Threads /\ node \in [Threads -> Nodes] /\ UNLOCKED \in Words /\ null \in Links /\ Threads \subseteq Links
      BY <1>a, <1>b
    <3>3. loc[t].current \in Links
      BY <1>0, <1>a, <1>b, <1>9, StepNodes DEF find_tail, Goto
    <3>4. CASE node' = node
      BY ONLY <3>4, <3>2, <3>3 DEF Nodes, NoNode, null
    <3>5. CASE node' = [node EXCEPT ![node[loc[t].current].next].prev = loc[t].current] /\ node[loc[t].current].next \in Threads
      BY ONLY <3>5, <3>2, <3>3 DEF Nodes, NoNode, null
    <3> QED
      BY <3>1, <3>4, <3>5
  <2> QED
    BY <1>a, <1>9, <2>1, <2>2, <2>3 DEF find_tail
<1>10. ASSUME NEW t \in Threads, cache_tail(t) PROVE Goal
  <2>1. pc' \in [Threads -> Points]
    <3>1. loc[t].caller \in {"lock", "unlock", "read_unlock", "downgrade"}
      BY <1>0, <1>a, <1>10 DEF cache_tail, Goto, CallInv, CallOK, Locals
    <3>2. Found[loc[t].caller] \in Points
      BY <3>1 DEF Found, Points
    <3> QED
      BY <1>a, <1>10, <3>2 DEF cache_tail, Goto
  <2>2. loc' \in [Threads -> Locals]
    <3>1. \/ \E n \in Links : loc' = [loc EXCEPT ![t].current = n]
      BY <1>b, <1>10, StepNodes DEF cache_tail, Goto
    <3>2. t \in Threads /\ loc \in [Threads -> Locals] /\ UNLOCKED \in Words /\ null \in Links /\ Threads \subseteq Links
      BY <1>a, <1>b
    <3> QED
      BY ONLY <3>1, <3>2 DEF Locals, NoLocals
  <2>3. node' \in [Threads -> Nodes]
    <3>1. \/ node' = [node EXCEPT ![loc[t].state.rest].tail = loc[t].tail]
      BY <1>b, <1>10, StepNodes DEF cache_tail, Goto
    <3>2. t \in Threads /\ node \in [Threads -> Nodes] /\ UNLOCKED \in Words /\ null \in Links /\ Threads \subseteq Links
      BY <1>a, <1>b
    <3>3. loc[t].tail \in Links
      BY <1>0, <1>a, <1>b, <1>10, StepNodes DEF cache_tail, Goto, CallInv, CallOK, Locals
    <3> QED
      BY ONLY <3>1, <3>2, <3>3 DEF Nodes, NoNode, null
  <2> QED
    BY <1>a, <1>10, <2>1, <2>2, <2>3 DEF cache_tail
<1>11. ASSUME NEW t \in Threads, read_unlock(t) PROVE Goal
  <2>1. pc' \in [Threads -> Points]
    BY <1>0, <1>a, <1>11 DEF read_unlock, Find, Goto, Points, CallInv, CallOK
  <2>2. word' \in Words
    BY <1>0, <1>a, <1>b, <1>11, StepNodes DEF read_unlock, Find, Goto, S, Words, Flags, Lock, Lockable, UNLOCKED, null
  <2>3. loc' \in [Threads -> Locals]
    <3>1. \/ loc' = loc
          \/ loc' = [loc EXCEPT ![t] = [NoLocals EXCEPT !.state = word, !.current = word.rest, !.caller = "read_unlock"]] /\ word.rest \in Threads
      BY <1>b, <1>11, StepNodes DEF read_unlock, Find, Goto
    <3>2. t \in Threads /\ loc \in [Threads -> Locals] /\ UNLOCKED \in Words /\ null \in Links /\ Threads \subseteq Links
      BY <1>a, <1>b
    <3>3. word \in Words
      BY <1>0, <1>a, <1>b, <1>11, StepNodes DEF read_unlock, Find, Goto
    <3>4. CASE loc' = loc
      BY ONLY <3>4, <3>2, <3>3 DEF Locals, NoLocals
    <3>5. CASE loc' = [loc EXCEPT ![t] = [NoLocals EXCEPT !.state = word, !.current = word.rest, !.caller = "read_unlock"]] /\ word.rest \in Threads
      BY ONLY <3>5, <3>2, <3>3 DEF Locals, NoLocals
    <3> QED
      BY <3>1, <3>4, <3>5
  <2> QED
    BY <1>a, <1>11, <2>1, <2>2, <2>3 DEF read_unlock
<1>12. ASSUME NEW t \in Threads, decrement(t) PROVE Goal
  <2>1. pc' \in [Threads -> Points]
    BY <1>0, <1>a, <1>12 DEF decrement, Leave, Goto, Points, CallInv, CallOK
  <2>2. loc' \in [Threads -> Locals]
    <3>1. \/ loc' = [loc EXCEPT ![t] = [NoLocals EXCEPT !.state = loc[t].state]]
          \/ loc' = [loc EXCEPT ![t] = NoLocals]
      BY <1>b, <1>12, StepNodes DEF decrement, Leave, Goto
    <3>2. t \in Threads /\ loc \in [Threads -> Locals] /\ UNLOCKED \in Words /\ null \in Links /\ Threads \subseteq Links
      BY <1>a, <1>b
    <3>3. loc[t].state \in Words
      BY <1>0, <1>a, <1>b, <1>12, StepNodes DEF decrement, Goto
    <3>4. CASE loc' = [loc EXCEPT ![t] = [NoLocals EXCEPT !.state = loc[t].state]]
      BY ONLY <3>4, <3>2, <3>3 DEF Locals, NoLocals
    <3>5. CASE loc' = [loc EXCEPT ![t] = NoLocals]
      BY ONLY <3>5, <3>2, <3>3 DEF Locals, NoLocals
    <3> QED
      BY <3>1, <3>4, <3>5
  <2>3. node' \in [Threads -> Nodes]
    <3>1. \/ node' = [node EXCEPT ![loc[t].tail].next = node[loc[t].tail].next - 1]
      BY <1>b, <1>12, StepNodes DEF decrement, Leave, Goto
    <3>2. t \in Threads /\ node \in [Threads -> Nodes] /\ UNLOCKED \in Words /\ null \in Links /\ Threads \subseteq Links
      BY <1>a, <1>b
    <3>3. node[loc[t].tail].next - 1 \in Nat /\ loc[t].tail \in Threads
      <4>1. pc[t] = "decrement"
        BY <1>12 DEF decrement
      <4>2. loc[t].tail \in Threads /\ node[loc[t].tail].next \in Nat \ {0}
        BY <4>1, StepNodes
      <4> QED
        BY ONLY <4>2
    <3> QED
      BY ONLY <3>1, <3>2, <3>3 DEF Nodes, NoNode, null
  <2> QED
    BY <1>a, <1>12, <2>1, <2>2, <2>3 DEF decrement
<1>13. ASSUME NEW t \in Threads, write_unlock(t) PROVE Goal
  <2>1. pc' \in [Threads -> Points]
    BY <1>0, <1>a, <1>13 DEF write_unlock, Goto, Points, CallInv, CallOK
  <2>2. word' \in Words
    BY <1>0, <1>a, <1>b, <1>13, StepNodes DEF write_unlock, Goto, S, Words, Flags, Lock, Lockable, UNLOCKED, null
  <2>3. loc' \in [Threads -> Locals]
    <3>1. \/ loc' = loc
          \/ loc' = [loc EXCEPT ![t].state = word]
      BY <1>b, <1>13, StepNodes DEF write_unlock, Goto
    <3>2. t \in Threads /\ loc \in [Threads -> Locals] /\ UNLOCKED \in Words /\ null \in Links /\ Threads \subseteq Links
      BY <1>a, <1>b
    <3>3. word \in Words
      BY <1>0, <1>a, <1>b, <1>13, StepNodes DEF write_unlock, Goto
    <3>4. CASE loc' = loc
      BY ONLY <3>4, <3>2, <3>3 DEF Locals, NoLocals
    <3>5. CASE loc' = [loc EXCEPT ![t].state = word]
      BY ONLY <3>5, <3>2, <3>3 DEF Locals, NoLocals
    <3> QED
      BY <3>1, <3>4, <3>5
  <2> QED
    BY <1>a, <1>13, <2>1, <2>2, <2>3 DEF write_unlock
<1>14. ASSUME NEW t \in Threads, unlock_contended(t) PROVE Goal
  <2>1. pc' \in [Threads -> Points]
    BY <1>0, <1>a, <1>14 DEF unlock_contended, Exchange, Find, Leave, Goto, Points, CallInv, CallOK
  <2>2. word' \in Words
    BY <1>0, <1>a, <1>b, <1>14, StepNodes DEF unlock_contended, Exchange, Find, Leave, Goto, S, Words, Flags, Lock, Lockable, UNLOCKED, null
  <2>3. loc' \in [Threads -> Locals]
    <3>1. \/ loc' = [loc EXCEPT ![t] = NoLocals]
          \/ loc' = [loc EXCEPT ![t] = [NoLocals EXCEPT !.state = word', !.current = word'.rest, !.caller = "unlock"]] /\ word'.rest \in Threads
      BY <1>b, <1>14, StepNodes DEF unlock_contended, Exchange, Find, Leave, Goto, S
    <3>2. t \in Threads /\ loc \in [Threads -> Locals] /\ UNLOCKED \in Words /\ null \in Links /\ Threads \subseteq Links
      BY <1>a, <1>b
    <3>3. word' \in Words
      BY <1>0, <1>a, <1>b, <2>2, <1>14, StepNodes DEF unlock_contended, Find, Exchange, Goto
    <3>4. CASE loc' = [loc EXCEPT ![t] = NoLocals]
      BY ONLY <3>4, <3>2, <3>3 DEF Locals, NoLocals
    <3>5. CASE loc' = [loc EXCEPT ![t] = [NoLocals EXCEPT !.state = word', !.current = word'.rest, !.caller = "unlock"]] /\ word'.rest \in Threads
      BY ONLY <3>5, <3>2, <3>3 DEF Locals, NoLocals
    <3> QED
      BY <3>1, <3>4, <3>5
  <2> QED
    BY <1>a, <1>14, <2>1, <2>2, <2>3 DEF unlock_contended
<1>15. ASSUME NEW t \in Threads, reunlock(t) PROVE Goal
  <2>1. pc' \in [Threads -> Points]
    BY <1>0, <1>a, <1>15 DEF reunlock, Reload, Goto, Points, CallInv, CallOK
  <2>2. loc' \in [Threads -> Locals]
    <3>1. \/ loc' = [loc EXCEPT ![t].state = word]
      BY <1>b, <1>15, StepNodes DEF reunlock, Reload, Goto
    <3>2. t \in Threads /\ loc \in [Threads -> Locals] /\ UNLOCKED \in Words /\ null \in Links /\ Threads \subseteq Links
      BY <1>a, <1>b
    <3>3. word \in Words
      BY <1>0, <1>a, <1>b, <1>15, StepNodes DEF reunlock, Goto
    <3> QED
      BY ONLY <3>1, <3>2, <3>3 DEF Locals, NoLocals
  <2> QED
    BY <1>a, <1>15, <2>1, <2>2 DEF reunlock, Reload
<1>16. ASSUME NEW t \in Threads, downgrade(t) PROVE Goal
  <2>1. pc' \in [Threads -> Points]
    BY <1>0, <1>a, <1>16 DEF downgrade, Goto, Points, CallInv, CallOK
  <2>2. word' \in Words
    BY <1>0, <1>a, <1>b, <1>16, StepNodes DEF downgrade, Goto, S, Words, Flags, Lock, Lockable, UNLOCKED, null
  <2>3. loc' \in [Threads -> Locals]
    <3>1. \/ loc' = loc
          \/ loc' = [loc EXCEPT ![t].state = word]
      BY <1>b, <1>16, StepNodes DEF downgrade, Goto
    <3>2. t \in Threads /\ loc \in [Threads -> Locals] /\ UNLOCKED \in Words /\ null \in Links /\ Threads \subseteq Links
      BY <1>a, <1>b
    <3>3. word \in Words
      BY <1>0, <1>a, <1>b, <1>16, StepNodes DEF downgrade, Goto
    <3>4. CASE loc' = loc
      BY ONLY <3>4, <3>2, <3>3 DEF Locals, NoLocals
    <3>5. CASE loc' = [loc EXCEPT ![t].state = word]
      BY ONLY <3>5, <3>2, <3>3 DEF Locals, NoLocals
    <3> QED
      BY <3>1, <3>4, <3>5
  <2> QED
    BY <1>a, <1>16, <2>1, <2>2, <2>3 DEF downgrade
<1>17. ASSUME NEW t \in Threads, downgrade_slow(t) PROVE Goal
  <2>1. pc' \in [Threads -> Points]
    BY <1>0, <1>a, <1>17 DEF downgrade_slow, Exchange, Find, Leave, Goto, Points, CallInv, CallOK
  <2>2. word' \in Words
    BY <1>0, <1>a, <1>b, <1>17, StepNodes DEF downgrade_slow, Exchange, Find, Leave, Goto, S, Words, Flags, Lock, Lockable, UNLOCKED, null
  <2>3. loc' \in [Threads -> Locals]
    <3>1. \/ loc' = [loc EXCEPT ![t] = NoLocals]
          \/ loc' = [loc EXCEPT ![t] = [NoLocals EXCEPT !.state = word, !.current = word.rest, !.caller = "downgrade"]] /\ word.rest \in Threads
      BY <1>b, <1>17, StepNodes DEF downgrade_slow, Exchange, Find, Leave, Goto
    <3>2. t \in Threads /\ loc \in [Threads -> Locals] /\ UNLOCKED \in Words /\ null \in Links /\ Threads \subseteq Links
      BY <1>a, <1>b
    <3>3. word \in Words
      BY <1>0, <1>a, <1>b, <1>17, StepNodes DEF downgrade_slow, Find, Exchange, Goto
    <3>4. CASE loc' = [loc EXCEPT ![t] = NoLocals]
      BY ONLY <3>4, <3>2, <3>3 DEF Locals, NoLocals
    <3>5. CASE loc' = [loc EXCEPT ![t] = [NoLocals EXCEPT !.state = word, !.current = word.rest, !.caller = "downgrade"]] /\ word.rest \in Threads
      BY ONLY <3>5, <3>2, <3>3 DEF Locals, NoLocals
    <3> QED
      BY <3>1, <3>4, <3>5
  <2> QED
    BY <1>a, <1>17, <2>1, <2>2, <2>3 DEF downgrade_slow
<1>18. ASSUME NEW t \in Threads, redowngrade(t) PROVE Goal
  <2>1. pc' \in [Threads -> Points]
    BY <1>0, <1>a, <1>18 DEF redowngrade, Reload, Goto, Points, CallInv, CallOK
  <2>2. loc' \in [Threads -> Locals]
    <3>1. \/ loc' = [loc EXCEPT ![t].state = word]
      BY <1>b, <1>18, StepNodes DEF redowngrade, Reload, Goto
    <3>2. t \in Threads /\ loc \in [Threads -> Locals] /\ UNLOCKED \in Words /\ null \in Links /\ Threads \subseteq Links
      BY <1>a, <1>b
    <3>3. word \in Words
      BY <1>0, <1>a, <1>b, <1>18, StepNodes DEF redowngrade, Goto
    <3> QED
      BY ONLY <3>1, <3>2, <3>3 DEF Locals, NoLocals
  <2> QED
    BY <1>a, <1>18, <2>1, <2>2 DEF redowngrade, Reload
<1>19. ASSUME NEW t \in Threads, release_queue(t) PROVE Goal
  <2>1. pc' \in [Threads -> Points]
    BY <1>0, <1>a, <1>19 DEF release_queue, Exchange, Leave, Goto, Points, CallInv, CallOK, Return
  <2>2. word' \in Words
    BY <1>0, <1>a, <1>b, <1>19, StepNodes DEF release_queue, Exchange, Leave, Goto, S, Words, Flags, Lock, Lockable, UNLOCKED, null
  <2>3. loc' \in [Threads -> Locals]
    <3>1. \/ loc' = [loc EXCEPT ![t] = NoLocals]
      BY <1>b, <1>19, StepNodes DEF release_queue, Exchange, Leave, Goto
    <3>2. t \in Threads /\ loc \in [Threads -> Locals] /\ UNLOCKED \in Words /\ null \in Links /\ Threads \subseteq Links
      BY <1>a, <1>b
    <3> QED
      BY ONLY <3>1, <3>2 DEF Locals, NoLocals
  <2> QED
    BY <1>a, <1>19, <2>1, <2>2, <2>3 DEF release_queue
<1>20. ASSUME NEW t \in Threads, split(t) PROVE Goal
  <2>1. pc' \in [Threads -> Points]
    BY <1>0, <1>a, <1>20 DEF split, Goto, Points, CallInv, CallOK
  <2>2. loc' \in [Threads -> Locals]
    <3>1. \/ loc' = [loc EXCEPT ![t].current = loc[t].state.rest]
      BY <1>b, <1>20, StepNodes DEF split, Goto
    <3>2. t \in Threads /\ loc \in [Threads -> Locals] /\ UNLOCKED \in Words /\ null \in Links /\ Threads \subseteq Links
      BY <1>a, <1>b
    <3>3. loc[t].state.rest \in Links
      BY <1>0, <1>a, <1>b, <1>20, StepNodes DEF split, Goto
    <3> QED
      BY ONLY <3>1, <3>2, <3>3 DEF Locals, NoLocals
  <2>3. node' \in [Threads -> Nodes]
    <3>1. \/ node' = [node EXCEPT ![loc[t].state.rest].tail = node[loc[t].tail].prev]
      BY <1>b, <1>20, StepNodes DEF split, Goto
    <3>2. t \in Threads /\ node \in [Threads -> Nodes] /\ UNLOCKED \in Words /\ null \in Links /\ Threads \subseteq Links
      BY <1>a, <1>b
    <3>3. node[loc[t].tail].prev \in Links
      BY <1>0, <1>a, <1>b, <1>20, StepNodes DEF split, Goto
    <3> QED
      BY ONLY <3>1, <3>2, <3>3 DEF Nodes, NoNode, null
  <2> QED
    BY <1>a, <1>20, <2>1, <2>2, <2>3 DEF split
<1>21. ASSUME NEW t \in Threads, split_release(t) PROVE Goal
  <2>1. pc' \in [Threads -> Points]
    BY <1>0, <1>a, <1>21 DEF split_release, Exchange, Goto, Points, CallInv, CallOK
  <2>2. word' \in Words
    BY <1>0, <1>a, <1>b, <1>21, StepNodes DEF split_release, Exchange, Goto, S, Words, Flags, Lock, Lockable, UNLOCKED, null
  <2>3. loc' \in [Threads -> Locals]
    <3>1. \/ loc' = [loc EXCEPT ![t].current = loc[t].tail]
      BY <1>b, <1>21, StepNodes DEF split_release, Exchange, Goto
    <3>2. t \in Threads /\ loc \in [Threads -> Locals] /\ UNLOCKED \in Words /\ null \in Links /\ Threads \subseteq Links
      BY <1>a, <1>b
    <3>3. loc[t].tail \in Links
      BY <1>0, <1>a, <1>b, <1>21, StepNodes DEF split_release, Exchange, Goto
    <3> QED
      BY ONLY <3>1, <3>2, <3>3 DEF Locals, NoLocals
  <2> QED
    BY <1>a, <1>21, <2>1, <2>2, <2>3 DEF split_release
<1>22. ASSUME NEW t \in Threads, split_fail(t) PROVE Goal
  <2>1. pc' \in [Threads -> Points]
    BY <1>0, <1>a, <1>22 DEF split_fail, Reload, Goto, Points, CallInv, CallOK
  <2>2. loc' \in [Threads -> Locals]
    <3>1. \/ loc' = [loc EXCEPT ![t].state = word]
      BY <1>b, <1>22, StepNodes DEF split_fail, Reload, Goto
    <3>2. t \in Threads /\ loc \in [Threads -> Locals] /\ UNLOCKED \in Words /\ null \in Links /\ Threads \subseteq Links
      BY <1>a, <1>b
    <3>3. word \in Words
      BY <1>0, <1>a, <1>b, <1>22, StepNodes DEF split_fail, Goto
    <3> QED
      BY ONLY <3>1, <3>2, <3>3 DEF Locals, NoLocals
  <2> QED
    BY <1>a, <1>22, <2>1, <2>2 DEF split_fail, Reload
<1>23. ASSUME NEW t \in Threads, undo(t) PROVE Goal
  <2>1. pc' \in [Threads -> Points]
    BY <1>0, <1>a, <1>23 DEF undo, Find, Goto, Points, CallInv, CallOK
  <2>2. loc' \in [Threads -> Locals]
    <3>1. \/ loc' = [loc EXCEPT ![t] = [NoLocals EXCEPT !.state = loc[t].state, !.current = loc[t].state.rest, !.caller = loc[t].caller]]
      BY <1>b, <1>23, StepNodes DEF undo, Find, Goto
    <3>2. t \in Threads /\ loc \in [Threads -> Locals] /\ UNLOCKED \in Words /\ null \in Links /\ Threads \subseteq Links
      BY <1>a, <1>b
    <3>3. loc[t].state \in Words /\ loc[t].state.rest \in Links /\ loc[t].caller \in {"lock", "unlock", "read_unlock", "downgrade"}
      BY <1>0, <1>a, <1>b, <1>23, StepNodes DEF undo, Find, Goto, CallInv, CallOK, Locals
    <3> QED
      BY ONLY <3>1, <3>2, <3>3 DEF Locals, NoLocals
  <2>3. node' \in [Threads -> Nodes]
    <3>1. \/ node' = [node EXCEPT ![loc[t].current].tail = loc[t].tail]
      BY <1>b, <1>23, StepNodes DEF undo, Find, Goto
    <3>2. t \in Threads /\ node \in [Threads -> Nodes] /\ UNLOCKED \in Words /\ null \in Links /\ Threads \subseteq Links
      BY <1>a, <1>b
    <3>3. loc[t].tail \in Links
      BY <1>0, <1>a, <1>b, <1>23, StepNodes DEF undo, Find, Goto, CallInv, CallOK, Locals
    <3> QED
      BY ONLY <3>1, <3>2, <3>3 DEF Nodes, NoNode, null
  <2> QED
    BY <1>a, <1>23, <2>1, <2>2, <2>3 DEF undo
<1>24. ASSUME NEW t \in Threads, wake_queue(t) PROVE Goal
  <2>1. pc' \in [Threads -> Points]
    BY <1>0, <1>a, <1>24 DEF wake_queue, Exchange, Goto, Points, CallInv, CallOK
  <2>2. word' \in Words
    BY <1>0, <1>a, <1>b, <1>24, StepNodes DEF wake_queue, Exchange, Goto, S, Words, Flags, Lock, Lockable, UNLOCKED, null
  <2>3. loc' \in [Threads -> Locals]
    <3>1. \/ loc' = [loc EXCEPT ![t].current = loc[t].tail]
      BY <1>b, <1>24, StepNodes DEF wake_queue, Exchange, Goto
    <3>2. t \in Threads /\ loc \in [Threads -> Locals] /\ UNLOCKED \in Words /\ null \in Links /\ Threads \subseteq Links
      BY <1>a, <1>b
    <3>3. loc[t].tail \in Links
      BY <1>0, <1>a, <1>b, <1>24, StepNodes DEF wake_queue, Exchange, Goto
    <3> QED
      BY ONLY <3>1, <3>2, <3>3 DEF Locals, NoLocals
  <2> QED
    BY <1>a, <1>24, <2>1, <2>2, <2>3 DEF wake_queue
<1>25. ASSUME NEW t \in Threads, requeue(t) PROVE Goal
  <2>1. pc' \in [Threads -> Points]
    BY <1>0, <1>a, <1>25 DEF requeue, Find, Goto, Points, CallInv, CallOK
  <2>2. loc' \in [Threads -> Locals]
    <3>1. \/ loc' = [loc EXCEPT ![t] = [NoLocals EXCEPT !.state = word, !.current = word.rest, !.caller = loc[t].caller]] /\ word.rest \in Threads
      BY <1>b, <1>25, StepNodes DEF requeue, Find, Goto
    <3>2. t \in Threads /\ loc \in [Threads -> Locals] /\ UNLOCKED \in Words /\ null \in Links /\ Threads \subseteq Links
      BY <1>a, <1>b
    <3>3. word \in Words /\ loc[t].caller \in {"lock", "unlock", "read_unlock", "downgrade"}
      BY <1>0, <1>a, <1>b, <1>25, StepNodes DEF requeue, Find, Goto, CallInv, CallOK, Locals
    <3> QED
      BY ONLY <3>1, <3>2, <3>3 DEF Locals, NoLocals
  <2> QED
    BY <1>a, <1>25, <2>1, <2>2 DEF requeue
<1>26. ASSUME NEW t \in Threads, complete(t) PROVE Goal
  <2>1. pc' \in [Threads -> Points]
    BY <1>0, <1>a, <1>26 DEF complete, Goto, Points, CallInv, CallOK
  <2>2. loc' \in [Threads -> Locals]
    <3>1. \/ loc' = loc
          \/ loc' = [loc EXCEPT ![t].prev = node[loc[t].current].prev] /\ pc[t] = "complete_all"
      BY <1>b, <1>26, StepNodes DEF complete, Goto
    <3>2. t \in Threads /\ loc \in [Threads -> Locals] /\ UNLOCKED \in Words /\ null \in Links /\ Threads \subseteq Links
      BY <1>a, <1>b
    <3>3. pc[t] = "complete_all" => node[loc[t].current].prev \in Links
      BY <1>0, <1>a, <1>b, <1>26, StepNodes DEF complete, Goto
    <3>4. CASE loc' = loc
      BY ONLY <3>4, <3>2, <3>3 DEF Locals, NoLocals
    <3>5. CASE loc' = [loc EXCEPT ![t].prev = node[loc[t].current].prev] /\ pc[t] = "complete_all"
      BY ONLY <3>5, <3>2, <3>3 DEF Locals, NoLocals
    <3> QED
      BY <3>1, <3>4, <3>5
  <2>3. node' \in [Threads -> Nodes]
    <3>1. \/ node' = [node EXCEPT ![loc[t].current].completed = TRUE]
      BY <1>b, <1>26, StepNodes DEF complete, Goto
    <3>2. t \in Threads /\ node \in [Threads -> Nodes] /\ UNLOCKED \in Words /\ null \in Links /\ Threads \subseteq Links
      BY <1>a, <1>b
    <3> QED
      BY ONLY <3>1, <3>2 DEF Nodes, NoNode, null
  <2> QED
    BY <1>a, <1>26, <2>1, <2>2, <2>3 DEF complete
<1>27. ASSUME NEW t \in Threads, unpark(t) PROVE Goal
  <2>1. pc' \in [Threads -> Points]
    BY <1>0, <1>a, <1>27 DEF unpark, Leave, Goto, Points, CallInv, CallOK, Return
  <2>2. token' \in [Threads -> BOOLEAN]
    BY <1>0, <1>a, <1>b, <1>27, StepNodes DEF unpark, Leave, Goto
  <2>3. loc' \in [Threads -> Locals]
    <3>1. \/ loc' = [loc EXCEPT ![t] = NoLocals]
          \/ loc' = [loc EXCEPT ![t].current = loc[t].prev, ![t].prev = null]
      BY <1>b, <1>27, StepNodes DEF unpark, Leave, Goto
    <3>2. t \in Threads /\ loc \in [Threads -> Locals] /\ UNLOCKED \in Words /\ null \in Links /\ Threads \subseteq Links
      BY <1>a, <1>b
    <3>3. loc[t].prev \in Links
      BY <1>0, <1>a, <1>b, <1>27, StepNodes DEF unpark, Goto
    <3>4. CASE loc' = [loc EXCEPT ![t] = NoLocals]
      BY ONLY <3>4, <3>2, <3>3 DEF Locals, NoLocals
    <3>5. CASE loc' = [loc EXCEPT ![t].current = loc[t].prev, ![t].prev = null]
      BY ONLY <3>5, <3>2, <3>3 DEF Locals, NoLocals
    <3> QED
      BY <3>1, <3>4, <3>5
  <2> QED
    BY <1>a, <1>27, <2>1, <2>2, <2>3 DEF unpark
<1>28. ASSUME AllDone \/ UNCHANGED vars PROVE Goal
  BY <1>a, <1>28 DEF AllDone, vars
<1>29. Goal
  BY <1>1, <1>2, <1>3, <1>4, <1>5, <1>6, <1>7, <1>8, <1>9, <1>10, <1>11, <1>12, <1>13, <1>14, <1>15, <1>16, <1>17, <1>18, <1>19, <1>20, <1>21, <1>22, <1>23, <1>24, <1>25, <1>26, <1>27, <1>28 DEF Next, Inside
<1> QED
  BY <1>29 DEF TypeOK, Nodes, Locals

-----------------------------------------------------------------------------
(***************************************************************************)
(* Points of calls                                                         *)
(***************************************************************************)
\* Only the thread that takes the step can change its own point.
LEMMA CallFrame ==
  ASSUME CallInv, NEW t \in Threads, CallOK(t)',
         \A u \in Threads \ {t} : pc'[u] = pc[u] /\ loc'[u] = loc[u],
         \A u \in Threads \ {t} : node[u].completed => node'[u].completed
  PROVE  CallInv'
BY DEF CallInv, CallOK

\* add_backlinks_and_find_tail returns to the function that called it.
LEMMA cache_tail_goes ==
  ASSUME TypeOK, CallInv, NEW t \in Threads, cache_tail(t)
  PROVE  /\ pc[t] = "cache_tail" /\ loc[t].caller \in {"lock", "unlock", "read_unlock", "downgrade"}
         /\ loc[t].caller \in {"lock", "unlock"} => pc'[t] = "unlock_queue"
         /\ loc[t].caller = "read_unlock" => pc'[t] = "decrement"
         /\ loc[t].caller = "downgrade" => pc'[t] = "complete_all"
         /\ pc'[t] \in {"unlock_queue", "decrement", "complete_all"}
<1>1. pc[t] = "cache_tail" /\ pc'[t] = Found[loc[t].caller]
  BY Types DEF cache_tail, Goto
<1>2. loc[t].caller \in {"lock", "unlock", "read_unlock", "downgrade"}
  BY <1>1 DEF CallInv, CallOK, TypeOK
<1> QED
  BY <1>1, <1>2 DEF Found

\* No function is at a point of another one.
LEMMA CallStep ==
  ASSUME IInv, [Next]_vars
  PROVE  CallInv'
<1>0. TypeOK /\ CallInv
  BY DEF IInv
<1>1. ASSUME NEW t \in Threads, lock(t) PROVE CallInv'
  <2>1. \A u \in Threads \ {t} : pc'[u] = pc[u] /\ loc'[u] = loc[u] /\ (node[u].completed => node'[u].completed)
    BY <1>0, <1>1, lock_does DEF Moves, LocalIs, held
  <2>2. CallOK(t)'
    BY <1>0, <1>1, lock_does DEF Moves, LocalIs, held, CallInv, CallOK
  <2> QED
    BY <1>0, <2>1, <2>2, CallFrame
<1>2. ASSUME NEW t \in Threads, load(t) PROVE CallInv'
  <2>1. \A u \in Threads \ {t} : pc'[u] = pc[u] /\ loc'[u] = loc[u] /\ (node[u].completed => node'[u].completed)
    BY <1>0, <1>2, load_does DEF Moves, LocalIs
  <2>2. CallOK(t)'
    BY <1>0, <1>2, load_does DEF Moves, LocalIs, CallInv, CallOK
  <2> QED
    BY <1>0, <2>1, <2>2, CallFrame
<1>3. ASSUME NEW t \in Threads, reload(t) PROVE CallInv'
  <2>1. \A u \in Threads \ {t} : pc'[u] = pc[u] /\ loc'[u] = loc[u] /\ (node[u].completed => node'[u].completed)
    BY <1>0, <1>3, reload_does DEF Moves, LocalIs
  <2>2. CallOK(t)'
    BY <1>0, <1>3, reload_does DEF Moves, LocalIs, CallInv, CallOK
  <2> QED
    BY <1>0, <2>1, <2>2, CallFrame
<1>4. ASSUME NEW t \in Threads, lock_contended(t) PROVE CallInv'
  <2>1. \A u \in Threads \ {t} : pc'[u] = pc[u] /\ loc'[u] = loc[u] /\ (node[u].completed => node'[u].completed)
    BY <1>0, <1>4, lock_contended_does DEF Moves, LocalIs, held
  <2>2. CallOK(t)'
    BY <1>0, <1>4, lock_contended_does DEF Moves, LocalIs, held, CallInv, CallOK
  <2> QED
    BY <1>0, <2>1, <2>2, CallFrame
<1>5. ASSUME NEW t \in Threads, enqueue(t) PROVE CallInv'
  <2>1. \A u \in Threads \ {t} : pc'[u] = pc[u] /\ loc'[u] = loc[u] /\ (node[u].completed => node'[u].completed)
    BY <1>0, <1>5, enqueue_does DEF Moves, LocalIs, NodeIs
  <2>2. CallOK(t)'
    BY <1>0, <1>5, enqueue_does DEF Moves, LocalIs, NodeIs, CallInv, CallOK
  <2> QED
    BY <1>0, <2>1, <2>2, CallFrame
<1>6. ASSUME NEW t \in Threads, wait(t) PROVE CallInv'
  <2>1. \A u \in Threads \ {t} : pc'[u] = pc[u] /\ loc'[u] = loc[u] /\ (node[u].completed => node'[u].completed)
    BY <1>0, <1>6, wait_does DEF Moves, LocalIs, NodeIs
  <2>2. CallOK(t)'
    BY <1>0, <1>6, wait_does DEF Moves, LocalIs, NodeIs, CallInv, CallOK
  <2> QED
    BY <1>0, <2>1, <2>2, CallFrame
<1>7. ASSUME NEW t \in Threads, park(t) PROVE CallInv'
  <2>1. \A u \in Threads \ {t} : pc'[u] = pc[u] /\ loc'[u] = loc[u] /\ (node[u].completed => node'[u].completed)
    BY <1>0, <1>7, park_does DEF Moves, LocalIs
  <2>2. CallOK(t)'
    BY <1>0, <1>7, park_does DEF Moves, LocalIs, CallInv, CallOK
  <2> QED
    BY <1>0, <2>1, <2>2, CallFrame
<1>8. ASSUME NEW t \in Threads, park_spuriously(t) PROVE CallInv'
  <2>1. \A u \in Threads \ {t} : pc'[u] = pc[u] /\ loc'[u] = loc[u] /\ (node[u].completed => node'[u].completed)
    BY <1>0, <1>8, park_spuriously_does DEF Moves, LocalIs
  <2>2. CallOK(t)'
    BY <1>0, <1>8, park_spuriously_does DEF Moves, LocalIs, CallInv, CallOK
  <2> QED
    BY <1>0, <2>1, <2>2, CallFrame
<1>9. ASSUME NEW t \in Threads, find_tail(t) PROVE CallInv'
  <2>0. PICK n \in Threads : pc[t] = "find" /\ node[loc[t].current].tail = null => n = node[loc[t].current].next
    BY StepNodes
  <2>1. \A u \in Threads \ {t} : pc'[u] = pc[u] /\ loc'[u] = loc[u] /\ (node[u].completed => node'[u].completed)
    BY <1>0, <1>9, <2>0, find_tail_does DEF Moves, LocalIs, NodeIs
  <2>2. CallOK(t)'
    BY <1>0, <1>9, <2>0, find_tail_does DEF Moves, LocalIs, NodeIs, CallInv, CallOK
  <2> QED
    BY <1>0, <2>1, <2>2, CallFrame
<1>10. ASSUME NEW t \in Threads, cache_tail(t) PROVE CallInv'
  <2>0. loc[t].state.rest \in Threads
    BY <1>10, StepNodes DEF cache_tail, Goto
  <2>1. \A u \in Threads \ {t} : pc'[u] = pc[u] /\ loc'[u] = loc[u] /\ (node[u].completed => node'[u].completed)
    BY <1>0, <1>10, <2>0, cache_tail_does DEF Moves, LocalIs, NodeIs
  <2>2. /\ loc'[t].caller = loc[t].caller
        /\ loc'[t].prev = loc[t].prev
        /\ node[t].completed => node'[t].completed
    BY <1>0, <1>10, <2>0, cache_tail_does DEF Moves, LocalIs, NodeIs
  <2>3. CallOK(t)'
    BY <1>0, <1>10, <2>2, cache_tail_goes DEF CallInv, CallOK
  <2> QED
    BY <1>0, <2>1, <2>3, CallFrame
<1>11. ASSUME NEW t \in Threads, read_unlock(t) PROVE CallInv'
  <2>1. \A u \in Threads \ {t} : pc'[u] = pc[u] /\ loc'[u] = loc[u] /\ (node[u].completed => node'[u].completed)
    BY <1>0, <1>11, read_unlock_does DEF Moves, LocalIs
  <2>2. CallOK(t)'
    BY <1>0, <1>11, read_unlock_does DEF Moves, LocalIs, CallInv, CallOK
  <2> QED
    BY <1>0, <2>1, <2>2, CallFrame
<1>12. ASSUME NEW t \in Threads, decrement(t) PROVE CallInv'
  <2>0. loc[t].tail \in Threads
    BY <1>12, StepNodes DEF decrement
  <2>1. \A u \in Threads \ {t} : pc'[u] = pc[u] /\ loc'[u] = loc[u] /\ (node[u].completed => node'[u].completed)
    BY <1>0, <1>12, <2>0, decrement_does DEF Moves, LocalIs, NodeIs
  <2>2. CallOK(t)'
    BY <1>0, <1>12, <2>0, decrement_does DEF Moves, LocalIs, NodeIs, CallInv, CallOK
  <2> QED
    BY <1>0, <2>1, <2>2, CallFrame
<1>13. ASSUME NEW t \in Threads, write_unlock(t) PROVE CallInv'
  <2>1. \A u \in Threads \ {t} : pc'[u] = pc[u] /\ loc'[u] = loc[u] /\ (node[u].completed => node'[u].completed)
    BY <1>0, <1>13, write_unlock_does DEF Moves, LocalIs
  <2>2. CallOK(t)'
    BY <1>0, <1>13, write_unlock_does DEF Moves, LocalIs, CallInv, CallOK
  <2> QED
    BY <1>0, <2>1, <2>2, CallFrame
<1>14. ASSUME NEW t \in Threads, unlock_contended(t) PROVE CallInv'
  <2>1. \A u \in Threads \ {t} : pc'[u] = pc[u] /\ loc'[u] = loc[u] /\ (node[u].completed => node'[u].completed)
    BY <1>0, <1>14, unlock_contended_does DEF Moves, LocalIs
  <2>2. CallOK(t)'
    BY <1>0, <1>14, unlock_contended_does DEF Moves, LocalIs, CallInv, CallOK
  <2> QED
    BY <1>0, <2>1, <2>2, CallFrame
<1>15. ASSUME NEW t \in Threads, reunlock(t) PROVE CallInv'
  <2>1. \A u \in Threads \ {t} : pc'[u] = pc[u] /\ loc'[u] = loc[u] /\ (node[u].completed => node'[u].completed)
    BY <1>0, <1>15, reunlock_does DEF Moves, LocalIs
  <2>2. CallOK(t)'
    BY <1>0, <1>15, reunlock_does DEF Moves, LocalIs, CallInv, CallOK
  <2> QED
    BY <1>0, <2>1, <2>2, CallFrame
<1>16. ASSUME NEW t \in Threads, downgrade(t) PROVE CallInv'
  <2>1. \A u \in Threads \ {t} : pc'[u] = pc[u] /\ loc'[u] = loc[u] /\ (node[u].completed => node'[u].completed)
    BY <1>0, <1>16, downgrade_does DEF Moves, LocalIs
  <2>2. CallOK(t)'
    BY <1>0, <1>16, downgrade_does DEF Moves, LocalIs, CallInv, CallOK
  <2> QED
    BY <1>0, <2>1, <2>2, CallFrame
<1>17. ASSUME NEW t \in Threads, downgrade_slow(t) PROVE CallInv'
  <2>1. \A u \in Threads \ {t} : pc'[u] = pc[u] /\ loc'[u] = loc[u] /\ (node[u].completed => node'[u].completed)
    BY <1>0, <1>17, downgrade_slow_does DEF Moves, LocalIs
  <2>2. CallOK(t)'
    BY <1>0, <1>17, downgrade_slow_does DEF Moves, LocalIs, CallInv, CallOK
  <2> QED
    BY <1>0, <2>1, <2>2, CallFrame
<1>18. ASSUME NEW t \in Threads, redowngrade(t) PROVE CallInv'
  <2>1. \A u \in Threads \ {t} : pc'[u] = pc[u] /\ loc'[u] = loc[u] /\ (node[u].completed => node'[u].completed)
    BY <1>0, <1>18, redowngrade_does DEF Moves, LocalIs
  <2>2. CallOK(t)'
    BY <1>0, <1>18, redowngrade_does DEF Moves, LocalIs, CallInv, CallOK
  <2> QED
    BY <1>0, <2>1, <2>2, CallFrame
<1>19. ASSUME NEW t \in Threads, release_queue(t) PROVE CallInv'
  <2>1. \A u \in Threads \ {t} : pc'[u] = pc[u] /\ loc'[u] = loc[u] /\ (node[u].completed => node'[u].completed)
    BY <1>0, <1>19, release_queue_does DEF Moves, LocalIs, Return
  <2>2. CallOK(t)'
    BY <1>0, <1>19, release_queue_does DEF Moves, LocalIs, Return, CallInv, CallOK
  <2> QED
    BY <1>0, <2>1, <2>2, CallFrame
<1>20. ASSUME NEW t \in Threads, split(t) PROVE CallInv'
  <2>0. loc[t].state.rest \in Threads
    BY <1>20, StepNodes DEF split, Goto
  <2>1. \A u \in Threads \ {t} : pc'[u] = pc[u] /\ loc'[u] = loc[u] /\ (node[u].completed => node'[u].completed)
    BY <1>0, <1>20, <2>0, split_does DEF Moves, LocalIs, NodeIs
  <2>2. CallOK(t)'
    BY <1>0, <1>20, <2>0, split_does DEF Moves, LocalIs, NodeIs, CallInv, CallOK
  <2> QED
    BY <1>0, <2>1, <2>2, CallFrame
<1>21. ASSUME NEW t \in Threads, split_release(t) PROVE CallInv'
  <2>1. \A u \in Threads \ {t} : pc'[u] = pc[u] /\ loc'[u] = loc[u] /\ (node[u].completed => node'[u].completed)
    BY <1>0, <1>21, split_release_does DEF Moves, LocalIs
  <2>2. CallOK(t)'
    BY <1>0, <1>21, split_release_does DEF Moves, LocalIs, CallInv, CallOK
  <2> QED
    BY <1>0, <2>1, <2>2, CallFrame
<1>22. ASSUME NEW t \in Threads, split_fail(t) PROVE CallInv'
  <2>1. \A u \in Threads \ {t} : pc'[u] = pc[u] /\ loc'[u] = loc[u] /\ (node[u].completed => node'[u].completed)
    BY <1>0, <1>22, split_fail_does DEF Moves, LocalIs
  <2>2. CallOK(t)'
    BY <1>0, <1>22, split_fail_does DEF Moves, LocalIs, CallInv, CallOK
  <2> QED
    BY <1>0, <2>1, <2>2, CallFrame
<1>23. ASSUME NEW t \in Threads, undo(t) PROVE CallInv'
  <2>0. loc[t].current \in Threads
    BY <1>23, StepNodes DEF undo, Find, Goto
  <2>1. \A u \in Threads \ {t} : pc'[u] = pc[u] /\ loc'[u] = loc[u] /\ (node[u].completed => node'[u].completed)
    BY <1>0, <1>23, <2>0, undo_does DEF Moves, LocalIs, NodeIs
  <2>2. CallOK(t)'
    BY <1>0, <1>23, <2>0, undo_does DEF Moves, LocalIs, NodeIs, CallInv, CallOK
  <2> QED
    BY <1>0, <2>1, <2>2, CallFrame
<1>24. ASSUME NEW t \in Threads, wake_queue(t) PROVE CallInv'
  <2>1. \A u \in Threads \ {t} : pc'[u] = pc[u] /\ loc'[u] = loc[u] /\ (node[u].completed => node'[u].completed)
    BY <1>0, <1>24, wake_queue_does DEF Moves, LocalIs
  <2>2. CallOK(t)'
    BY <1>0, <1>24, wake_queue_does DEF Moves, LocalIs, CallInv, CallOK
  <2> QED
    BY <1>0, <2>1, <2>2, CallFrame
<1>25. ASSUME NEW t \in Threads, requeue(t) PROVE CallInv'
  <2>1. \A u \in Threads \ {t} : pc'[u] = pc[u] /\ loc'[u] = loc[u] /\ (node[u].completed => node'[u].completed)
    BY <1>0, <1>25, requeue_does DEF Moves, LocalIs
  <2>2. CallOK(t)'
    BY <1>0, <1>25, requeue_does DEF Moves, LocalIs, CallInv, CallOK
  <2> QED
    BY <1>0, <2>1, <2>2, CallFrame
<1>26. ASSUME NEW t \in Threads, complete(t) PROVE CallInv'
  <2>0. loc[t].current \in Threads
    BY <1>26, StepNodes DEF complete, Goto
  <2>1. \A u \in Threads \ {t} : pc'[u] = pc[u] /\ loc'[u] = loc[u] /\ (node[u].completed => node'[u].completed)
    BY <1>0, <1>26, <2>0, complete_does DEF Moves, LocalIs, NodeIs
  <2>2. /\ pc[t] \in {"complete", "complete_all"} /\ pc'[t] = "unpark" /\ loc'[t].caller = loc[t].caller
        /\ node[t].completed => node'[t].completed
    BY <1>0, <1>26, <2>0, complete_does DEF Moves, LocalIs, NodeIs
  <2>3. CallOK(t)'
    BY <1>0, <2>2 DEF CallInv, CallOK
  <2> QED
    BY <1>0, <2>1, <2>3, CallFrame
<1>27. ASSUME NEW t \in Threads, unpark(t) PROVE CallInv'
  <2>1. \A u \in Threads \ {t} : pc'[u] = pc[u] /\ loc'[u] = loc[u] /\ (node[u].completed => node'[u].completed)
    BY <1>0, <1>27, unpark_does DEF Moves, LocalIs, Return
  <2>2. CallOK(t)'
    BY <1>0, <1>27, unpark_does DEF Moves, LocalIs, Return, CallInv, CallOK
  <2> QED
    BY <1>0, <2>1, <2>2, CallFrame
<1>28. ASSUME AllDone \/ UNCHANGED vars PROVE CallInv'
  BY <1>0, <1>28 DEF AllDone, vars, CallInv, CallOK
<1> QED
  BY <1>1, <1>2, <1>3, <1>4, <1>5, <1>6, <1>7, <1>8, <1>9, <1>10, <1>11, <1>12, <1>13, <1>14, <1>15, <1>16, <1>17, <1>18, <1>19, <1>20, <1>21, <1>22, <1>23, <1>24, <1>25, <1>26, <1>27, <1>28 DEF Next, Inside

-----------------------------------------------------------------------------
(***************************************************************************)
(* Owners                                                                  *)
(***************************************************************************)
Reads(t) == pc[t] \in {"reading", "decrement"} \/ loc[t].caller \in {"read_unlock", "downgrade"}

Locks(t) == pc[t] \in {"writing", "downgrade", "unlock"}

\* The owners after a step of t.
LEMMA OwnersMove ==
  ASSUME NEW t \in Threads, \A u \in Threads \ {t} : pc'[u] = pc[u] /\ loc'[u] = loc[u]
  PROVE  /\ t \in Reading <=> Reads(t)
         /\ t \in Locking <=> Locks(t)
         /\ (Reads(t)' <=> Reads(t)) => Reading' = Reading
         /\ Reads(t)' /\ ~Reads(t) => Reading' = Reading \cup {t} /\ Cardinality(Reading)' = Cardinality(Reading) + 1
         /\ ~Reads(t)' /\ Reads(t) => Reading' = Reading \ {t} /\ Cardinality(Reading)' = Cardinality(Reading) - 1
         /\ (Locks(t)' <=> Locks(t)) => Locking' = Locking
         /\ Locks(t)' /\ ~Locks(t) => Locking' = Locking \cup {t}
         /\ ~Locks(t)' /\ Locks(t) => Locking' = Locking \ {t}
<1>1. Reading = {u \in Threads : Reads(u)} /\ Locking = {u \in Threads : Locks(u)}
  BY DEF Reading, Locking, Reads, Locks, Walks
<1>2. Reading' = {u \in Threads : Reads(u)'} /\ Locking' = {u \in Threads : Locks(u)'}
  BY DEF Reading, Locking, Reads, Locks, Walks
<1>3. \A u \in Threads \ {t} : (Reads(u)' <=> Reads(u)) /\ (Locks(u)' <=> Locks(u))
  BY DEF Reads, Locks
<1>4. t \in Reading <=> Reads(t)
  BY <1>1
<1>5. t \in Locking <=> Locks(t)
  BY <1>1
<1> HIDE DEF Reads, Locks
<1>6. (Reads(t)' <=> Reads(t)) => Reading' = Reading
  BY <1>1, <1>2, <1>3
<1>7. Reads(t)' /\ ~Reads(t) => Reading' = Reading \cup {t}
  BY <1>1, <1>2, <1>3
<1>8. ~Reads(t)' /\ Reads(t) => Reading' = Reading \ {t}
  BY <1>1, <1>2, <1>3
<1>9. (Locks(t)' <=> Locks(t)) => Locking' = Locking
  BY <1>1, <1>2, <1>3
<1>10. Locks(t)' /\ ~Locks(t) => Locking' = Locking \cup {t}
  BY <1>1, <1>2, <1>3
<1>11. ~Locks(t)' /\ Locks(t) => Locking' = Locking \ {t}
  BY <1>1, <1>2, <1>3
<1>12. Reads(t)' /\ ~Reads(t) => Cardinality(Reading)' = Cardinality(Reading) + 1
  BY <1>4, <1>7, OwnersFinite, FS_AddElement
<1>13. ~Reads(t)' /\ Reads(t) => Cardinality(Reading)' = Cardinality(Reading) - 1
  BY <1>4, <1>8, OwnersFinite, FS_RemoveElement
<1> QED
  BY <1>4, <1>5, <1>6, <1>7, <1>8, <1>9, <1>10, <1>11, <1>12, <1>13

\* The word keeps its flags, but for the queue lock.
SameFlags ==
  /\ "LOCKED" \in word'.flags <=> "LOCKED" \in word.flags
  /\ "QUEUED" \in word'.flags <=> "QUEUED" \in word.flags
  /\ "DOWNGRADED" \in word'.flags <=> "DOWNGRADED" \in word.flags
  /\ "QUEUED" \notin word.flags => word' = word

Contended(s) == s.flags \ {"QUEUE_LOCKED"} = {"QUEUED", "LOCKED"}

\* Steps after which the same threads own the lock.
LEMMA OwnerFrame ==
  ASSUME OwnerInv, SameFlags, NEW t \in Threads,
         \A u \in Threads \ {t} : pc'[u] = pc[u] /\ loc'[u] = loc[u],
         Reads(t)' <=> Reads(t), Locks(t)' <=> Locks(t),
         Locks(t)' /\ pc'[t] # "writing" => "QUEUED" \in word.flags /\ Contended(loc'[t].state),
         Decrements(t)' => "QUEUED" \in word.flags /\ "DOWNGRADED" \notin word.flags /\ Contended(loc'[t].state)
  PROVE  OwnerInv' /\ Reading' = Reading /\ Locking' = Locking
<1>1. Reading' = Reading /\ Locking' = Locking /\ (t \in Locking <=> Locks(t))
  BY OwnersMove
<1>2. "QUEUED" \notin word'.flags => word'.flags \subseteq {"LOCKED"} /\ word'.rest \in Nat /\ word'.rest = Cardinality(Reading')
  BY <1>1 DEF OwnerInv, SameFlags
<1>3. ASSUME NEW u \in Locking'
      PROVE  /\ Locking' = {u} /\ Reading' = {}
             /\ "LOCKED" \in word'.flags /\ "DOWNGRADED" \notin word'.flags
             /\ pc'[u] # "writing" => "QUEUED" \in word'.flags /\ Contended(loc'[u].state)
  <2>1. u \in Locking /\ u \in Threads
    BY <1>1 DEF Locking
  <2>2. CASE u = t
    BY <1>1, <2>1, <2>2 DEF OwnerInv, SameFlags
  <2>3. CASE u # t
    BY <1>1, <2>1, <2>3 DEF OwnerInv, SameFlags, Contended
  <2> QED
    BY <2>2, <2>3
<1>4. ASSUME NEW u \in Threads, Decrements(u)'
      PROVE  "QUEUED" \in word'.flags /\ "DOWNGRADED" \notin word'.flags /\ Contended(loc'[u].state)
  <2>1. CASE u = t
    BY <1>4, <2>1 DEF SameFlags
  <2>2. CASE u # t
    BY <1>4, <2>2 DEF OwnerInv, SameFlags, Contended, Decrements
  <2> QED
    BY <2>1, <2>2
<1>5. (Reading' # {} => "LOCKED" \in word'.flags) /\ ("DOWNGRADED" \in word'.flags => Cardinality(Reading') = 1)
  BY <1>1 DEF OwnerInv, SameFlags
<1> QED
  BY <1>1, <1>2, <1>3, <1>4, <1>5 DEF OwnerInv, Contended

\* What the owners are told by the word.
LEMMA WordOfOwners ==
  ASSUME TypeOK, OwnerInv
  PROVE  /\ \A t \in Threads : Locks(t) =>
              /\ Locking = {t} /\ Reading = {} /\ "LOCKED" \in word.flags /\ "DOWNGRADED" \notin word.flags
              /\ "QUEUED" \notin word.flags => word = S({"LOCKED"}, null)
              /\ "QUEUED" \in word.flags => Contended(word)
              /\ pc[t] # "writing" => "QUEUED" \in word.flags /\ Contended(loc[t].state)
         /\ \A t \in Threads : Reads(t) => "LOCKED" \in word.flags /\ Locking = {} /\ t \in Reading
         /\ "DOWNGRADED" \in word.flags => Cardinality(Reading) = 1 /\ "QUEUED" \in word.flags /\ Locking = {}
         /\ "LOCKED" \notin word.flags => Reading = {} /\ Locking = {}
         /\ \A t \in Threads : Decrements(t) => Reads(t) /\ Counted /\ Contended(loc[t].state)
         /\ "QUEUED" \notin word.flags => word.flags \subseteq {"LOCKED"} /\ word.rest = Cardinality(Reading)
<1>0. word.flags \subseteq Flags /\ word = [flags |-> word.flags, rest |-> word.rest]
  BY DEF TypeOK, Words
<1>1. ASSUME NEW t \in Threads, Locks(t)
      PROVE  /\ Locking = {t} /\ Reading = {} /\ "LOCKED" \in word.flags /\ "DOWNGRADED" \notin word.flags
             /\ "QUEUED" \notin word.flags => word = S({"LOCKED"}, null)
             /\ "QUEUED" \in word.flags => Contended(word)
             /\ pc[t] # "writing" => "QUEUED" \in word.flags /\ Contended(loc[t].state)
  <2>1. t \in Locking
    BY <1>1 DEF Locking, Locks
  <2>2. /\ Locking = {t} /\ Reading = {} /\ "LOCKED" \in word.flags /\ "DOWNGRADED" \notin word.flags
        /\ pc[t] # "writing" => "QUEUED" \in word.flags /\ Contended(loc[t].state)
    BY <2>1 DEF OwnerInv, Contended
  <2>3. ASSUME "QUEUED" \notin word.flags PROVE word = S({"LOCKED"}, null)
    <3>1. word.flags = {"LOCKED"}
      BY <2>2, <2>3 DEF OwnerInv
    <3>2. word.rest = 0
      BY <2>2, <2>3, OwnersFinite DEF OwnerInv
    <3> QED
      BY <1>0, <3>1, <3>2 DEF S, null
  <2>4. "QUEUED" \in word.flags => Contended(word)
    BY <1>0, <2>2 DEF Contended, Flags
  <2> QED
    BY <2>2, <2>3, <2>4
<1>2. \A t \in Threads : Reads(t) => t \in Reading
  BY DEF Reads, Reading, Walks
<1>3. Reading # {} => "LOCKED" \in word.flags /\ Locking = {}
  BY DEF OwnerInv
<1>4. \A t \in Threads : Reads(t) => "LOCKED" \in word.flags /\ Locking = {} /\ t \in Reading
  BY <1>2, <1>3
<1>5. "DOWNGRADED" \in word.flags => Cardinality(Reading) = 1 /\ "QUEUED" \in word.flags /\ Locking = {}
  BY DEF OwnerInv
<1>6. "LOCKED" \notin word.flags => Reading = {} /\ Locking = {}
  BY DEF OwnerInv
<1>7. \A t \in Threads : Decrements(t) => Reads(t) /\ Contended(loc[t].state)
  BY DEF Decrements, Reads, OwnerInv, Contended
<1>8. \A t \in Threads : Decrements(t) => Counted
  BY <1>2, <1>7 DEF Counted, OwnerInv
<1> QED
  BY <1>1, <1>4, <1>5, <1>6, <1>7, <1>8 DEF OwnerInv

\* The readers whose count is in the queue stay, or none is left.
SameCount == Counted' => Counted /\ Reading' = Reading

\* A step of a thread that becomes neither owner nor none.
LEMMA QuietOwners ==
  ASSUME IInv, SameFlags, NEW t \in Threads,
         \A u \in Threads \ {t} : pc'[u] = pc[u] /\ loc'[u] = loc[u],
         Reads(t)' <=> Reads(t), Locks(t)' <=> Locks(t),
         Locks(t)' /\ pc'[t] # "writing" => "QUEUED" \in word.flags /\ Contended(loc'[t].state),
         Decrements(t)' => "QUEUED" \in word.flags /\ "DOWNGRADED" \notin word.flags /\ Contended(loc'[t].state)
  PROVE  OwnerInv' /\ SameCount /\ Reading' = Reading
<1>1. OwnerInv' /\ Reading' = Reading
  BY OwnerFrame DEF IInv
<1> QED
  BY <1>1 DEF SameCount, Counted, SameFlags

\* One lemma for each action: the owners stay exact, and what the queue has
\* counted is not changed behind its back.
LEMMA load_owners ==
  ASSUME IInv, NEW t \in Threads, load(t)
  PROVE  OwnerInv' /\ SameCount /\ Reading' = Reading
<1>0. TypeOK /\ CallInv /\ OwnerInv
  BY DEF IInv
<1>2. (\A u \in Threads \ {t} : pc'[u] = pc[u] /\ loc'[u] = loc[u]) /\ SameFlags
  BY <1>0, load_does DEF Moves, SameFlags, S
<1>3. (Reads(t)' <=> Reads(t)) /\ (Locks(t)' <=> Locks(t))
  BY <1>0, load_does DEF Moves, LocalIs, Reads, Locks, CallInv, CallOK
<1>4. /\ Locks(t)' /\ pc'[t] # "writing" => "QUEUED" \in word.flags /\ Contended(loc'[t].state)
      /\ Decrements(t)' => "QUEUED" \in word.flags /\ "DOWNGRADED" \notin word.flags /\ Contended(loc'[t].state)
  BY <1>0, load_does, WordOfOwners DEF Moves, LocalIs, Locks, Decrements, Counted, CallInv, CallOK
<1> QED
  BY <1>2, <1>3, <1>4, QuietOwners

LEMMA reload_owners ==
  ASSUME IInv, NEW t \in Threads, reload(t)
  PROVE  OwnerInv' /\ SameCount /\ Reading' = Reading
<1>0. TypeOK /\ CallInv /\ OwnerInv
  BY DEF IInv
<1>2. (\A u \in Threads \ {t} : pc'[u] = pc[u] /\ loc'[u] = loc[u]) /\ SameFlags
  BY <1>0, reload_does DEF Moves, SameFlags, S
<1>3. (Reads(t)' <=> Reads(t)) /\ (Locks(t)' <=> Locks(t))
  BY <1>0, reload_does DEF Moves, LocalIs, Reads, Locks, CallInv, CallOK
<1>4. /\ Locks(t)' /\ pc'[t] # "writing" => "QUEUED" \in word.flags /\ Contended(loc'[t].state)
      /\ Decrements(t)' => "QUEUED" \in word.flags /\ "DOWNGRADED" \notin word.flags /\ Contended(loc'[t].state)
  BY <1>0, reload_does, WordOfOwners DEF Moves, LocalIs, Locks, Decrements, Counted, CallInv, CallOK
<1> QED
  BY <1>2, <1>3, <1>4, QuietOwners

LEMMA wait_owners ==
  ASSUME IInv, NEW t \in Threads, wait(t)
  PROVE  OwnerInv' /\ SameCount /\ Reading' = Reading
<1>0. TypeOK /\ CallInv /\ OwnerInv
  BY DEF IInv
<1>2. (\A u \in Threads \ {t} : pc'[u] = pc[u] /\ loc'[u] = loc[u]) /\ SameFlags
  BY <1>0, wait_does DEF Moves, SameFlags, S
<1>3. (Reads(t)' <=> Reads(t)) /\ (Locks(t)' <=> Locks(t))
  BY <1>0, wait_does DEF Moves, LocalIs, Reads, Locks, CallInv, CallOK
<1>4. /\ Locks(t)' /\ pc'[t] # "writing" => "QUEUED" \in word.flags /\ Contended(loc'[t].state)
      /\ Decrements(t)' => "QUEUED" \in word.flags /\ "DOWNGRADED" \notin word.flags /\ Contended(loc'[t].state)
  BY <1>0, wait_does, WordOfOwners DEF Moves, LocalIs, Locks, Decrements, Counted, CallInv, CallOK
<1> QED
  BY <1>2, <1>3, <1>4, QuietOwners

LEMMA park_owners ==
  ASSUME IInv, NEW t \in Threads, park(t)
  PROVE  OwnerInv' /\ SameCount /\ Reading' = Reading
<1>0. TypeOK /\ CallInv /\ OwnerInv
  BY DEF IInv
<1>2. (\A u \in Threads \ {t} : pc'[u] = pc[u] /\ loc'[u] = loc[u]) /\ SameFlags
  BY <1>0, park_does DEF Moves, SameFlags, S
<1>3. (Reads(t)' <=> Reads(t)) /\ (Locks(t)' <=> Locks(t))
  BY <1>0, park_does DEF Moves, LocalIs, Reads, Locks, CallInv, CallOK
<1>4. /\ Locks(t)' /\ pc'[t] # "writing" => "QUEUED" \in word.flags /\ Contended(loc'[t].state)
      /\ Decrements(t)' => "QUEUED" \in word.flags /\ "DOWNGRADED" \notin word.flags /\ Contended(loc'[t].state)
  BY <1>0, park_does, WordOfOwners DEF Moves, LocalIs, Locks, Decrements, Counted, CallInv, CallOK
<1> QED
  BY <1>2, <1>3, <1>4, QuietOwners

LEMMA park_spuriously_owners ==
  ASSUME IInv, NEW t \in Threads, park_spuriously(t)
  PROVE  OwnerInv' /\ SameCount /\ Reading' = Reading
<1>0. TypeOK /\ CallInv /\ OwnerInv
  BY DEF IInv
<1>2. (\A u \in Threads \ {t} : pc'[u] = pc[u] /\ loc'[u] = loc[u]) /\ SameFlags
  BY <1>0, park_spuriously_does DEF Moves, SameFlags, S
<1>3. (Reads(t)' <=> Reads(t)) /\ (Locks(t)' <=> Locks(t))
  BY <1>0, park_spuriously_does DEF Moves, LocalIs, Reads, Locks, CallInv, CallOK
<1>4. /\ Locks(t)' /\ pc'[t] # "writing" => "QUEUED" \in word.flags /\ Contended(loc'[t].state)
      /\ Decrements(t)' => "QUEUED" \in word.flags /\ "DOWNGRADED" \notin word.flags /\ Contended(loc'[t].state)
  BY <1>0, park_spuriously_does, WordOfOwners DEF Moves, LocalIs, Locks, Decrements, Counted, CallInv, CallOK
<1> QED
  BY <1>2, <1>3, <1>4, QuietOwners

LEMMA find_tail_owners ==
  ASSUME IInv, NEW t \in Threads, find_tail(t)
  PROVE  OwnerInv' /\ SameCount /\ Reading' = Reading
<1>0. TypeOK /\ CallInv /\ OwnerInv
  BY DEF IInv
<1>1. PICK n \in Threads : pc[t] = "find" /\ node[loc[t].current].tail = null => n = node[loc[t].current].next
  BY StepNodes
<1>2. (\A u \in Threads \ {t} : pc'[u] = pc[u] /\ loc'[u] = loc[u]) /\ SameFlags
  BY <1>0, <1>1, find_tail_does DEF Moves, SameFlags, S
<1>3. (Reads(t)' <=> Reads(t)) /\ (Locks(t)' <=> Locks(t))
  BY <1>0, <1>1, find_tail_does DEF Moves, LocalIs, Reads, Locks, CallInv, CallOK
<1>4. /\ Locks(t)' /\ pc'[t] # "writing" => "QUEUED" \in word.flags /\ Contended(loc'[t].state)
      /\ Decrements(t)' => "QUEUED" \in word.flags /\ "DOWNGRADED" \notin word.flags /\ Contended(loc'[t].state)
  BY <1>0, <1>1, find_tail_does, WordOfOwners DEF Moves, LocalIs, Locks, Decrements, Counted, CallInv, CallOK
<1> QED
  BY <1>2, <1>3, <1>4, QuietOwners

LEMMA cache_tail_owners ==
  ASSUME IInv, NEW t \in Threads, cache_tail(t)
  PROVE  OwnerInv' /\ SameCount /\ Reading' = Reading
<1>0. TypeOK /\ CallInv /\ OwnerInv
  BY DEF IInv
<1>1. loc[t].state.rest \in Threads
  BY StepNodes DEF cache_tail, Goto
<1>2. (\A u \in Threads \ {t} : pc'[u] = pc[u] /\ loc'[u] = loc[u]) /\ SameFlags
  BY <1>0, <1>1, cache_tail_does DEF Moves, SameFlags, S
<1>3. (Reads(t)' <=> Reads(t)) /\ (Locks(t)' <=> Locks(t))
  BY <1>0, <1>1, cache_tail_goes, cache_tail_does DEF Moves, LocalIs, Reads, Locks, CallInv, CallOK
<1>4. /\ Locks(t)' /\ pc'[t] # "writing" => "QUEUED" \in word.flags /\ Contended(loc'[t].state)
      /\ Decrements(t)' => "QUEUED" \in word.flags /\ "DOWNGRADED" \notin word.flags /\ Contended(loc'[t].state)
  BY <1>0, <1>1, cache_tail_goes, cache_tail_does, WordOfOwners DEF Moves, LocalIs, Locks, Decrements, Counted, CallInv, CallOK
<1> QED
  BY <1>2, <1>3, <1>4, QuietOwners

LEMMA reunlock_owners ==
  ASSUME IInv, NEW t \in Threads, reunlock(t)
  PROVE  OwnerInv' /\ SameCount /\ Reading' = Reading
<1>0. TypeOK /\ CallInv /\ OwnerInv
  BY DEF IInv
<1>2. (\A u \in Threads \ {t} : pc'[u] = pc[u] /\ loc'[u] = loc[u]) /\ SameFlags
  BY <1>0, reunlock_does DEF Moves, SameFlags, S
<1>3. (Reads(t)' <=> Reads(t)) /\ (Locks(t)' <=> Locks(t))
  BY <1>0, reunlock_does DEF Moves, LocalIs, Reads, Locks, CallInv, CallOK
<1>4. /\ Locks(t)' /\ pc'[t] # "writing" => "QUEUED" \in word.flags /\ Contended(loc'[t].state)
      /\ Decrements(t)' => "QUEUED" \in word.flags /\ "DOWNGRADED" \notin word.flags /\ Contended(loc'[t].state)
  BY <1>0, reunlock_does, WordOfOwners DEF Moves, LocalIs, Locks, Decrements, Counted, CallInv, CallOK
<1> QED
  BY <1>2, <1>3, <1>4, QuietOwners

LEMMA redowngrade_owners ==
  ASSUME IInv, NEW t \in Threads, redowngrade(t)
  PROVE  OwnerInv' /\ SameCount /\ Reading' = Reading
<1>0. TypeOK /\ CallInv /\ OwnerInv
  BY DEF IInv
<1>2. (\A u \in Threads \ {t} : pc'[u] = pc[u] /\ loc'[u] = loc[u]) /\ SameFlags
  BY <1>0, redowngrade_does DEF Moves, SameFlags, S
<1>3. (Reads(t)' <=> Reads(t)) /\ (Locks(t)' <=> Locks(t))
  BY <1>0, redowngrade_does DEF Moves, LocalIs, Reads, Locks, CallInv, CallOK
<1>4. /\ Locks(t)' /\ pc'[t] # "writing" => "QUEUED" \in word.flags /\ Contended(loc'[t].state)
      /\ Decrements(t)' => "QUEUED" \in word.flags /\ "DOWNGRADED" \notin word.flags /\ Contended(loc'[t].state)
  BY <1>0, redowngrade_does, WordOfOwners DEF Moves, LocalIs, Locks, Decrements, Counted, CallInv, CallOK
<1> QED
  BY <1>2, <1>3, <1>4, QuietOwners

LEMMA release_queue_owners ==
  ASSUME IInv, NEW t \in Threads, release_queue(t)
  PROVE  OwnerInv' /\ SameCount /\ Reading' = Reading
<1>0. TypeOK /\ CallInv /\ OwnerInv
  BY DEF IInv
<1>2. (\A u \in Threads \ {t} : pc'[u] = pc[u] /\ loc'[u] = loc[u]) /\ SameFlags
  BY <1>0, StepNodes, release_queue_does DEF Moves, SameFlags, S, LockedBy, OwnerInv
<1>3. (Reads(t)' <=> Reads(t)) /\ (Locks(t)' <=> Locks(t))
  BY <1>0, release_queue_does DEF Moves, LocalIs, Reads, Locks, CallInv, CallOK, Return
<1>4. /\ Locks(t)' /\ pc'[t] # "writing" => "QUEUED" \in word.flags /\ Contended(loc'[t].state)
      /\ Decrements(t)' => "QUEUED" \in word.flags /\ "DOWNGRADED" \notin word.flags /\ Contended(loc'[t].state)
  BY <1>0, release_queue_does, WordOfOwners DEF Moves, LocalIs, Locks, Decrements, Counted, CallInv, CallOK, Return
<1> QED
  BY <1>2, <1>3, <1>4, QuietOwners

LEMMA split_owners ==
  ASSUME IInv, NEW t \in Threads, split(t)
  PROVE  OwnerInv' /\ SameCount /\ Reading' = Reading
<1>0. TypeOK /\ CallInv /\ OwnerInv
  BY DEF IInv
<1>1. loc[t].state.rest \in Threads
  BY StepNodes DEF split, Goto
<1>2. (\A u \in Threads \ {t} : pc'[u] = pc[u] /\ loc'[u] = loc[u]) /\ SameFlags
  BY <1>0, <1>1, split_does DEF Moves, SameFlags, S
<1>3. (Reads(t)' <=> Reads(t)) /\ (Locks(t)' <=> Locks(t))
  BY <1>0, <1>1, split_does DEF Moves, LocalIs, Reads, Locks, CallInv, CallOK
<1>4. /\ Locks(t)' /\ pc'[t] # "writing" => "QUEUED" \in word.flags /\ Contended(loc'[t].state)
      /\ Decrements(t)' => "QUEUED" \in word.flags /\ "DOWNGRADED" \notin word.flags /\ Contended(loc'[t].state)
  BY <1>0, <1>1, split_does, WordOfOwners DEF Moves, LocalIs, Locks, Decrements, Counted, CallInv, CallOK
<1> QED
  BY <1>2, <1>3, <1>4, QuietOwners

LEMMA split_release_owners ==
  ASSUME IInv, NEW t \in Threads, split_release(t)
  PROVE  OwnerInv' /\ SameCount /\ Reading' = Reading
<1>0. TypeOK /\ CallInv /\ OwnerInv
  BY DEF IInv
<1>2. (\A u \in Threads \ {t} : pc'[u] = pc[u] /\ loc'[u] = loc[u]) /\ SameFlags
  BY <1>0, StepNodes, split_release_does DEF Moves, SameFlags, S
<1>3. (Reads(t)' <=> Reads(t)) /\ (Locks(t)' <=> Locks(t))
  BY <1>0, split_release_does DEF Moves, LocalIs, Reads, Locks, CallInv, CallOK
<1>4. /\ Locks(t)' /\ pc'[t] # "writing" => "QUEUED" \in word.flags /\ Contended(loc'[t].state)
      /\ Decrements(t)' => "QUEUED" \in word.flags /\ "DOWNGRADED" \notin word.flags /\ Contended(loc'[t].state)
  BY <1>0, split_release_does, WordOfOwners DEF Moves, LocalIs, Locks, Decrements, Counted, CallInv, CallOK
<1> QED
  BY <1>2, <1>3, <1>4, QuietOwners

LEMMA split_fail_owners ==
  ASSUME IInv, NEW t \in Threads, split_fail(t)
  PROVE  OwnerInv' /\ SameCount /\ Reading' = Reading
<1>0. TypeOK /\ CallInv /\ OwnerInv
  BY DEF IInv
<1>2. (\A u \in Threads \ {t} : pc'[u] = pc[u] /\ loc'[u] = loc[u]) /\ SameFlags
  BY <1>0, split_fail_does DEF Moves, SameFlags, S
<1>3. (Reads(t)' <=> Reads(t)) /\ (Locks(t)' <=> Locks(t))
  BY <1>0, split_fail_does DEF Moves, LocalIs, Reads, Locks, CallInv, CallOK
<1>4. /\ Locks(t)' /\ pc'[t] # "writing" => "QUEUED" \in word.flags /\ Contended(loc'[t].state)
      /\ Decrements(t)' => "QUEUED" \in word.flags /\ "DOWNGRADED" \notin word.flags /\ Contended(loc'[t].state)
  BY <1>0, split_fail_does, WordOfOwners DEF Moves, LocalIs, Locks, Decrements, Counted, CallInv, CallOK
<1> QED
  BY <1>2, <1>3, <1>4, QuietOwners

LEMMA undo_owners ==
  ASSUME IInv, NEW t \in Threads, undo(t)
  PROVE  OwnerInv' /\ SameCount /\ Reading' = Reading
<1>0. TypeOK /\ CallInv /\ OwnerInv
  BY DEF IInv
<1>1. loc[t].current \in Threads
  BY StepNodes DEF undo, Find, Goto
<1>2. (\A u \in Threads \ {t} : pc'[u] = pc[u] /\ loc'[u] = loc[u]) /\ SameFlags
  BY <1>0, <1>1, undo_does DEF Moves, SameFlags, S
<1>3. (Reads(t)' <=> Reads(t)) /\ (Locks(t)' <=> Locks(t))
  BY <1>0, <1>1, undo_does DEF Moves, LocalIs, Reads, Locks, CallInv, CallOK
<1>4. /\ Locks(t)' /\ pc'[t] # "writing" => "QUEUED" \in word.flags /\ Contended(loc'[t].state)
      /\ Decrements(t)' => "QUEUED" \in word.flags /\ "DOWNGRADED" \notin word.flags /\ Contended(loc'[t].state)
  BY <1>0, <1>1, undo_does, WordOfOwners DEF Moves, LocalIs, Locks, Decrements, Counted, CallInv, CallOK
<1> QED
  BY <1>2, <1>3, <1>4, QuietOwners

LEMMA requeue_owners ==
  ASSUME IInv, NEW t \in Threads, requeue(t)
  PROVE  OwnerInv' /\ SameCount /\ Reading' = Reading
<1>0. TypeOK /\ CallInv /\ OwnerInv
  BY DEF IInv
<1>2. (\A u \in Threads \ {t} : pc'[u] = pc[u] /\ loc'[u] = loc[u]) /\ SameFlags
  BY <1>0, requeue_does DEF Moves, SameFlags, S
<1>3. (Reads(t)' <=> Reads(t)) /\ (Locks(t)' <=> Locks(t))
  BY <1>0, requeue_does DEF Moves, LocalIs, Reads, Locks, CallInv, CallOK
<1>4. /\ Locks(t)' /\ pc'[t] # "writing" => "QUEUED" \in word.flags /\ Contended(loc'[t].state)
      /\ Decrements(t)' => "QUEUED" \in word.flags /\ "DOWNGRADED" \notin word.flags /\ Contended(loc'[t].state)
  BY <1>0, requeue_does, WordOfOwners DEF Moves, LocalIs, Locks, Decrements, Counted, CallInv, CallOK
<1> QED
  BY <1>2, <1>3, <1>4, QuietOwners

LEMMA complete_owners ==
  ASSUME IInv, NEW t \in Threads, complete(t)
  PROVE  OwnerInv' /\ SameCount /\ Reading' = Reading
<1>0. TypeOK /\ CallInv /\ OwnerInv
  BY DEF IInv
<1>1. loc[t].current \in Threads
  BY StepNodes DEF complete, Goto
<1>2. (\A u \in Threads \ {t} : pc'[u] = pc[u] /\ loc'[u] = loc[u]) /\ SameFlags
  BY <1>0, <1>1, complete_does DEF Moves, SameFlags, S
<1>3. (Reads(t)' <=> Reads(t)) /\ (Locks(t)' <=> Locks(t))
  BY <1>0, <1>1, complete_does DEF Moves, LocalIs, Reads, Locks, CallInv, CallOK
<1>4. /\ Locks(t)' /\ pc'[t] # "writing" => "QUEUED" \in word.flags /\ Contended(loc'[t].state)
      /\ Decrements(t)' => "QUEUED" \in word.flags /\ "DOWNGRADED" \notin word.flags /\ Contended(loc'[t].state)
  BY <1>0, <1>1, complete_does, WordOfOwners DEF Moves, LocalIs, Locks, Decrements, Counted, CallInv, CallOK
<1> QED
  BY <1>2, <1>3, <1>4, QuietOwners

LEMMA unpark_owners ==
  ASSUME IInv, NEW t \in Threads, unpark(t)
  PROVE  OwnerInv' /\ SameCount /\ Reading' = Reading
<1>0. TypeOK /\ CallInv /\ OwnerInv
  BY DEF IInv
<1>2. (\A u \in Threads \ {t} : pc'[u] = pc[u] /\ loc'[u] = loc[u]) /\ SameFlags
  BY <1>0, unpark_does DEF Moves, SameFlags, S
<1>3. (Reads(t)' <=> Reads(t)) /\ (Locks(t)' <=> Locks(t))
  BY <1>0, unpark_does DEF Moves, LocalIs, Reads, Locks, CallInv, CallOK, Return
<1>4. /\ Locks(t)' /\ pc'[t] # "writing" => "QUEUED" \in word.flags /\ Contended(loc'[t].state)
      /\ Decrements(t)' => "QUEUED" \in word.flags /\ "DOWNGRADED" \notin word.flags /\ Contended(loc'[t].state)
  BY <1>0, unpark_does, WordOfOwners DEF Moves, LocalIs, Locks, Decrements, Counted, CallInv, CallOK, Return
<1> QED
  BY <1>2, <1>3, <1>4, QuietOwners

\* A step after which there is no queue.
LEMMA NoQueue ==
  ASSUME NEW fl \in SUBSET {"LOCKED"}, NEW n \in Nat, word' = S(fl, n), NEW t \in Threads,
         n = Cardinality(Reading)', Reading' # {} => "LOCKED" \in fl,
         Locking' # {} => Locking' = {t} /\ pc'[t] = "writing" /\ Reading' = {} /\ "LOCKED" \in fl,
         \A u \in Threads : ~Decrements(u)'
  PROVE  OwnerInv' /\ SameCount
<1>1. word'.flags = fl /\ word'.rest = n
  BY DEF S
<1>2. "QUEUED" \notin fl /\ "DOWNGRADED" \notin fl
  OBVIOUS
<1>3. OwnerInv'
  BY <1>1, <1>2 DEF OwnerInv
<1> QED
  BY <1>1, <1>2, <1>3 DEF SameCount, Counted

\* The lock is taken.
LEMMA Acquired ==
  ASSUME IInv, NEW t \in Threads, \A u \in Threads \ {t} : pc'[u] = pc[u] /\ loc'[u] = loc[u],
         ~Reads(t), ~Locks(t), loc'[t].caller = "none",
         Lockable(t, word), word' = Lock(t, word), pc'[t] = held(t)
  PROVE  OwnerInv' /\ SameCount
<1>0. TypeOK /\ OwnerInv
  BY DEF IInv
<1>1. word.flags \subseteq Flags /\ word = [flags |-> word.flags, rest |-> word.rest]
  BY <1>0 DEF TypeOK, Words
<1>2. CASE t \in Writers
  <2>1. "LOCKED" \notin word.flags /\ word'.flags = word.flags \cup {"LOCKED"} /\ word'.rest = word.rest /\ pc'[t] = "writing"
    BY <1>2 DEF Lockable, Lock, held, S
  <2>2. Reading = {} /\ Locking = {}
    BY <1>0, <2>1, WordOfOwners
  <2>3. ~Reads(t)' /\ Locks(t)'
    BY <2>1 DEF Reads, Locks
  <2>4. Reading' = {} /\ Locking' = {t}
    BY <2>2, <2>3, OwnersMove
  <2>5. \A u \in Threads : ~Decrements(u)'
    <3>1. \A u \in Threads : ~Decrements(u)
      BY <1>0, <2>2, WordOfOwners
    <3> QED
      BY <3>1 DEF Decrements
  <2>6. OwnerInv'
    BY <1>0, <2>1, <2>2, <2>4, <2>5, OwnersFinite DEF OwnerInv
  <2> QED
    BY <2>4, <2>6 DEF SameCount, Counted
<1>3. CASE t \notin Writers
  <2>1. "QUEUED" \notin word.flags /\ word # S({"LOCKED"}, null) /\ word' = S({"LOCKED"}, word.rest + 1) /\ pc'[t] = "reading"
    BY <1>3 DEF Lockable, Lock, held
  <2>2. word.rest = Cardinality(Reading) /\ Locking = {}
    <3>1. Locking = {}
      <4>1. ASSUME NEW u \in Locking PROVE FALSE
        <5>1. u \in Threads /\ Locks(u)
          BY DEF Locking, Locks
        <5> QED
          BY <1>0, <2>1, <5>1, WordOfOwners
      <4> QED
        BY <4>1
    <3> QED
      BY <1>0, <2>1, <3>1 DEF OwnerInv
  <2>3. Reads(t)' /\ ~Locks(t)'
    BY <2>1 DEF Reads, Locks
  <2>4. Cardinality(Reading)' = word.rest + 1 /\ Locking' = {} /\ word.rest + 1 \in Nat
    BY <2>2, <2>3, OwnersMove, OwnersFinite
  <2>5. \A u \in Threads : ~Decrements(u)'
    <3>1. \A u \in Threads : ~Decrements(u)
      BY <1>0, <2>1 DEF OwnerInv
    <3> QED
      BY <3>1 DEF Decrements
  <2> QED
    BY <2>1, <2>4, <2>5, NoQueue
<1> QED
  BY <1>2, <1>3

LEMMA lock_owners ==
  ASSUME IInv, NEW t \in Threads, lock(t)
  PROVE  OwnerInv' /\ SameCount
<1>0. TypeOK /\ CallInv /\ OwnerInv
  BY DEF IInv
<1>1. /\ \A u \in Threads \ {t} : pc'[u] = pc[u] /\ loc'[u] = loc[u]
      /\ pc[t] = "idle" /\ loc'[t] = loc[t] /\ loc[t].caller = "none"
  BY <1>0, lock_does DEF Moves, CallInv, CallOK
<1>2. ~Reads(t) /\ ~Locks(t)
  BY <1>1 DEF Reads, Locks
<1>3. CASE Lockable(t, word) /\ word' = Lock(t, word) /\ pc'[t] = held(t)
  BY <1>1, <1>2, <1>3, Acquired
<1>4. CASE word' = word /\ pc'[t] = "load"
  <2>1. ~Reads(t)' /\ ~Locks(t)' /\ ~Decrements(t)' /\ SameFlags
    BY <1>1, <1>4 DEF Reads, Locks, Decrements, SameFlags
  <2> QED
    BY <1>1, <1>2, <2>1, QuietOwners
<1> QED
  BY <1>0, <1>3, <1>4, lock_does DEF Moves

LEMMA lock_contended_owners ==
  ASSUME IInv, NEW t \in Threads, lock_contended(t)
  PROVE  OwnerInv' /\ SameCount
<1>0. TypeOK /\ CallInv /\ OwnerInv
  BY DEF IInv
<1>1. /\ \A u \in Threads \ {t} : pc'[u] = pc[u] /\ loc'[u] = loc[u]
      /\ pc[t] = "attempt" /\ loc'[t].caller = "none" /\ loc[t].caller = "none"
      /\ Lockable(t, word) /\ word' = Lock(t, word) /\ pc'[t] = held(t)
  BY <1>0, lock_contended_does DEF Moves, LocalIs, CallInv, CallOK
<1>2. ~Reads(t) /\ ~Locks(t)
  BY <1>1 DEF Reads, Locks
<1> QED
  BY <1>1, <1>2, Acquired

\* The count goes from the word to the first node.
LEMMA enqueue_owners ==
  ASSUME IInv, NEW t \in Threads, enqueue(t)
  PROVE  /\ OwnerInv' /\ Reading' = Reading
         /\ "QUEUED" \in word.flags => SameCount
         /\ "QUEUED" \notin word.flags => word.rest = Cardinality(Reading)
<1>0. TypeOK /\ CallInv /\ OwnerInv
  BY DEF IInv
<1>a. word' = S((word.flags \cap {"DOWNGRADED", "LOCKED"}) \cup {"QUEUED"}, t)
      \/ word' = S((word.flags \cap {"DOWNGRADED", "LOCKED"}) \cup {"QUEUED", "QUEUE_LOCKED"}, t)
  BY <1>0, enqueue_does
<1>b. /\ "QUEUED" \in word'.flags
      /\ "LOCKED" \in word'.flags <=> "LOCKED" \in word.flags
      /\ "DOWNGRADED" \in word'.flags <=> "DOWNGRADED" \in word.flags
  BY <1>a DEF S
<1>1. /\ \A u \in Threads \ {t} : pc'[u] = pc[u] /\ loc'[u] = loc[u]
      /\ pc[t] = "attempt" /\ loc'[t].caller \in {"none", "lock"} /\ loc[t].caller = "none"
      /\ pc'[t] \in {"wait", "find"}
      /\ "QUEUED" \in word'.flags
      /\ "LOCKED" \in word'.flags <=> "LOCKED" \in word.flags
      /\ "DOWNGRADED" \in word'.flags <=> "DOWNGRADED" \in word.flags
  BY <1>0, <1>b, enqueue_does DEF Moves, LocalIs, CallInv, CallOK
<1>2. ~Reads(t) /\ ~Locks(t) /\ ~Reads(t)' /\ ~Locks(t)' /\ ~Decrements(t)'
  BY <1>1 DEF Reads, Locks, Decrements
<1>3. CASE "QUEUED" \in word.flags
  <2>1. SameFlags
    BY <1>1, <1>3 DEF SameFlags
  <2> QED
    BY <1>1, <1>2, <1>3, <2>1, QuietOwners
<1>4. CASE "QUEUED" \notin word.flags
  <2>1. Reading' = Reading /\ Locking' = Locking
    BY <1>1, <1>2, OwnersMove
  <2>2. ASSUME NEW u \in Locking PROVE u \in Threads /\ pc'[u] = pc[u] /\ loc'[u] = loc[u]
    BY <1>1, <1>2 DEF Locking, Locks
  <2>3. \A u \in Threads : ~Decrements(u)'
    <3>1. \A u \in Threads : ~Decrements(u)
      BY <1>0, <1>4 DEF OwnerInv
    <3> QED
      BY <1>1, <1>2, <3>1 DEF Decrements
  <2>4. word.rest = Cardinality(Reading) /\ "DOWNGRADED" \notin word.flags
    BY <1>0, <1>4 DEF OwnerInv
  <2>5. OwnerInv'
    BY <1>0, <1>1, <1>4, <2>1, <2>2, <2>3, <2>4 DEF OwnerInv
  <2> QED
    BY <1>4, <2>1, <2>4, <2>5
<1> QED
  BY <1>3, <1>4

\* A reader that leaves is counted in the word while there is no queue.
LEMMA read_unlock_owners ==
  ASSUME IInv, NEW t \in Threads, read_unlock(t)
  PROVE  OwnerInv' /\ SameCount
<1>0. TypeOK /\ CallInv /\ OwnerInv
  BY DEF IInv
<1>1. /\ \A u \in Threads \ {t} : pc'[u] = pc[u] /\ loc'[u] = loc[u]
      /\ pc[t] = "reading" /\ loc[t].caller = "none"
  BY <1>0, read_unlock_does DEF Moves, CallInv, CallOK
<1>2. Reads(t) /\ ~Locks(t) /\ t \in Reading /\ "LOCKED" \in word.flags /\ Locking = {}
  BY <1>0, <1>1, WordOfOwners DEF Reads, Locks
<1>3. CASE /\ pc'[t] = "idle" /\ loc' = loc /\ "QUEUED" \notin word.flags
           /\ word' = IF word.rest > 1 THEN S({"LOCKED"}, word.rest - 1) ELSE UNLOCKED
  <2>1. ~Reads(t)' /\ ~Locks(t)'
    BY <1>1, <1>3 DEF Reads, Locks
  <2>2. Cardinality(Reading)' = Cardinality(Reading) - 1 /\ Locking' = {}
    BY <1>1, <1>2, <2>1, OwnersMove
  <2>3. word.rest = Cardinality(Reading) /\ Cardinality(Reading) \in Nat \ {0}
    BY <1>0, <1>2, <1>3, OwnersFinite DEF OwnerInv
  <2>4. Cardinality(Reading)' = 0 => Reading' = {}
    <3>1. IsFiniteSet(Reading')
      BY <1>1, <1>2, <2>1, OwnersMove, OwnersFinite, FS_RemoveElement
    <3> QED
      BY <3>1, FS_EmptySet
  <2>5. \A u \in Threads : ~Decrements(u)'
    <3>1. \A u \in Threads : ~Decrements(u)
      BY <1>0, <1>3 DEF OwnerInv
    <3> QED
      BY <1>1, <1>3, <3>1 DEF Decrements
  <2>6. CASE word.rest > 1
    <3>1. word' = S({"LOCKED"}, word.rest - 1) /\ word.rest - 1 \in Nat /\ word.rest - 1 = Cardinality(Reading)'
      BY <1>3, <2>2, <2>3, <2>6
    <3> QED
      BY <2>2, <2>5, <3>1, NoQueue
  <2>7. CASE ~(word.rest > 1)
    <3>1. word' = S({}, 0) /\ 0 = Cardinality(Reading)' /\ Reading' = {}
      BY <1>3, <2>2, <2>3, <2>4, <2>7 DEF UNLOCKED, null
    <3> QED
      BY <2>2, <2>5, <3>1, NoQueue
  <2> QED
    BY <2>6, <2>7
<1>4. CASE /\ pc'[t] = "idle" /\ loc' = loc /\ {"QUEUED", "DOWNGRADED"} \subseteq word.flags
           /\ word' = S(word.flags \ {"DOWNGRADED", "LOCKED"}, word.rest)
  <2>1. ~Reads(t)' /\ ~Locks(t)'
    BY <1>1, <1>4 DEF Reads, Locks
  <2>2. Cardinality(Reading)' = Cardinality(Reading) - 1 /\ Locking' = {}
    BY <1>1, <1>2, <2>1, OwnersMove
  <2>3. Cardinality(Reading) = 1
    BY <1>0, <1>4 DEF OwnerInv
  <2>4. Reading' = {}
    <3>1. IsFiniteSet(Reading')
      BY <1>1, <1>2, <2>1, OwnersMove, OwnersFinite, FS_RemoveElement
    <3> QED
      BY <2>2, <2>3, <3>1, FS_EmptySet
  <2>5. \A u \in Threads : ~Decrements(u)'
    <3>1. \A u \in Threads : ~Decrements(u)
      BY <1>0, <1>4 DEF OwnerInv
    <3> QED
      BY <1>1, <1>4, <3>1 DEF Decrements
  <2>6. "QUEUED" \in word'.flags /\ "DOWNGRADED" \notin word'.flags
    BY <1>4 DEF S
  <2> QED
    BY <2>2, <2>4, <2>5, <2>6 DEF OwnerInv, SameCount, Counted
<1>5. CASE /\ pc'[t] = "find" /\ word' = word /\ LocalIs(t, word, word.rest, null, null, "read_unlock")
           /\ "QUEUED" \in word.flags /\ "DOWNGRADED" \notin word.flags
  <2>1. Reads(t)' /\ ~Locks(t)' /\ SameFlags
    BY <1>1, <1>5 DEF Reads, Locks, LocalIs, SameFlags
  <2>2. Contended(word)
    BY <1>0, <1>2, <1>5 DEF Contended, TypeOK, Words, Flags
  <2> QED
    BY <1>1, <1>2, <1>5, <2>1, <2>2, QuietOwners DEF LocalIs
<1> QED
  BY <1>0, <1>3, <1>4, <1>5, read_unlock_does DEF Moves

\* The last reader becomes the one to unlock.
LEMMA decrement_owners ==
  ASSUME IInv, NEW t \in Threads, decrement(t)
  PROVE  OwnerInv' /\ Reading' = Reading \ {t} /\ Cardinality(Reading)' = Cardinality(Reading) - 1
<1>0. TypeOK /\ CallInv /\ OwnerInv
  BY DEF IInv
<1>1. pc[t] = "decrement" /\ loc[t].caller = "read_unlock"
  BY <1>0 DEF decrement, CallInv, CallOK
<1>2. loc[t].tail \in Threads /\ Counted /\ node[loc[t].tail].next = Cardinality(Reading)
  BY <1>1, StepNodes
<1>3. /\ \A u \in Threads \ {t} : pc'[u] = pc[u] /\ loc'[u] = loc[u]
      /\ word' = word /\ loc'[t].caller = "none"
      /\ pc'[t] = "unlock" => Cardinality(Reading) = 1 /\ loc'[t].state = loc[t].state
      /\ pc'[t] \in {"idle", "unlock"}
  BY <1>0, <1>2, decrement_does DEF Moves, LocalIs
<1>4. Reads(t) /\ ~Locks(t) /\ Decrements(t) /\ t \in Reading /\ "LOCKED" \in word.flags /\ Locking = {} /\ Contended(loc[t].state)
  BY <1>0, <1>1, WordOfOwners DEF Reads, Locks, Decrements
<1>5. ~Reads(t)' /\ (Locks(t)' <=> pc'[t] = "unlock") /\ ~Decrements(t)'
  BY <1>3 DEF Reads, Locks, Decrements
<1>6. /\ Reading' = Reading \ {t} /\ Cardinality(Reading)' = Cardinality(Reading) - 1
      /\ Locking' = IF pc'[t] = "unlock" THEN {t} ELSE {}
  BY <1>3, <1>4, <1>5, OwnersMove
<1>7. pc'[t] = "unlock" => Reading' = {}
  <2>1. IsFiniteSet(Reading')
    BY <1>6, OwnersFinite, FS_RemoveElement
  <2> QED
    BY <1>3, <1>6, <2>1, FS_EmptySet
<1>8. ASSUME NEW u \in Threads, Decrements(u)' PROVE Decrements(u) /\ loc'[u] = loc[u]
  BY <1>3, <1>5, <1>8 DEF Decrements
<1>9. "QUEUED" \in word.flags /\ "DOWNGRADED" \notin word.flags
  BY <1>2 DEF Counted
<1>10. ASSUME NEW u \in Threads, Decrements(u)' PROVE loc'[u].state.flags \ {"QUEUE_LOCKED"} = {"QUEUED", "LOCKED"}
  BY <1>0, <1>8, <1>10 DEF OwnerInv
<1>11. ASSUME NEW u \in Locking'
       PROVE  /\ Locking' = {u} /\ Reading' = {}
              /\ pc'[u] # "writing" => loc'[u].state.flags \ {"QUEUE_LOCKED"} = {"QUEUED", "LOCKED"}
  BY <1>3, <1>4, <1>6, <1>7 DEF Contended
<1>12. OwnerInv'
  BY <1>3, <1>4, <1>9, <1>10, <1>11 DEF OwnerInv
<1> QED
  BY <1>6, <1>12

LEMMA write_unlock_owners ==
  ASSUME IInv, NEW t \in Threads, write_unlock(t)
  PROVE  OwnerInv' /\ SameCount
<1>0. TypeOK /\ CallInv /\ OwnerInv
  BY DEF IInv
<1>1. /\ \A u \in Threads \ {t} : pc'[u] = pc[u] /\ loc'[u] = loc[u]
      /\ pc[t] = "writing" /\ loc[t].caller = "none" /\ loc'[t].caller = "none"
  BY <1>0, write_unlock_does DEF Moves, LocalIs, CallInv, CallOK
<1>2. ~Reads(t) /\ Locks(t) /\ ~Decrements(t)' /\ (pc'[t] = "idle" => ~Reads(t)' /\ ~Locks(t)')
      /\ (pc'[t] = "unlock" => ~Reads(t)' /\ Locks(t)')
  BY <1>1 DEF Reads, Locks, Decrements
<1>3. /\ Locking = {t} /\ Reading = {}
      /\ "QUEUED" \notin word.flags => word = S({"LOCKED"}, null)
      /\ "QUEUED" \in word.flags => Contended(word)
  BY <1>0, <1>2, WordOfOwners
<1>4. CASE pc'[t] = "idle" /\ word = S({"LOCKED"}, null) /\ word' = UNLOCKED
  <2>1. Reading' = {} /\ Locking' = {}
    BY <1>1, <1>2, <1>3, <1>4, OwnersMove
  <2>2. \A u \in Threads : ~Decrements(u)'
    <3>1. \A u \in Threads : ~Decrements(u)
      BY <1>0, <1>3, WordOfOwners
    <3> QED
      BY <1>1, <1>2, <3>1 DEF Decrements
  <2>3. word' = S({}, 0) /\ Cardinality(Reading)' = 0
    BY <1>4, <2>1, FS_EmptySet DEF UNLOCKED, null
  <2> QED
    BY <2>1, <2>2, <2>3, NoQueue
<1>5. CASE pc'[t] = "unlock" /\ word # S({"LOCKED"}, null) /\ loc'[t].state = word /\ word' = word
  <2>1. SameFlags
    BY <1>5 DEF SameFlags
  <2> QED
    BY <1>1, <1>2, <1>3, <1>5, <2>1, QuietOwners
<1> QED
  BY <1>0, <1>4, <1>5, write_unlock_does DEF Moves, LocalIs

LEMMA unlock_contended_owners ==
  ASSUME IInv, NEW t \in Threads, unlock_contended(t)
  PROVE  OwnerInv' /\ SameCount /\ Reading' = {}
<1>0. TypeOK /\ CallInv /\ OwnerInv
  BY DEF IInv
<1>1. /\ \A u \in Threads \ {t} : pc'[u] = pc[u] /\ loc'[u] = loc[u]
      /\ pc[t] = "unlock" /\ loc[t].caller = "none" /\ loc'[t].caller \in {"none", "unlock"} /\ pc'[t] \in {"idle", "find"}
      /\ word'.flags = (word.flags \ {"LOCKED"}) \cup {"QUEUE_LOCKED"}
  BY <1>0, unlock_contended_does DEF Moves, LocalIs, CallInv, CallOK, S
<1>2. ~Reads(t) /\ Locks(t) /\ ~Decrements(t)' /\ ~Reads(t)' /\ ~Locks(t)'
  BY <1>1 DEF Reads, Locks, Decrements
<1>3. Locking = {t} /\ Reading = {} /\ "QUEUED" \in word.flags /\ "DOWNGRADED" \notin word.flags
  BY <1>0, <1>1, <1>2, WordOfOwners
<1>4. Reading' = {} /\ Locking' = {}
  BY <1>1, <1>2, <1>3, OwnersMove
<1>5. \A u \in Threads : ~Decrements(u)'
  <2>1. \A u \in Threads : ~Decrements(u)
    BY <1>0, <1>3, WordOfOwners
  <2> QED
    BY <1>1, <1>2, <2>1 DEF Decrements
<1>6. OwnerInv'
  BY <1>1, <1>3, <1>4, <1>5 DEF OwnerInv
<1> QED
  BY <1>4, <1>6 DEF SameCount, Counted

LEMMA downgrade_owners ==
  ASSUME IInv, NEW t \in Threads, downgrade(t)
  PROVE  OwnerInv' /\ SameCount
<1>0. TypeOK /\ CallInv /\ OwnerInv
  BY DEF IInv
<1>1. /\ \A u \in Threads \ {t} : pc'[u] = pc[u] /\ loc'[u] = loc[u]
      /\ pc[t] = "writing" /\ loc[t].caller = "none" /\ loc'[t].caller = "none"
  BY <1>0, downgrade_does DEF Moves, LocalIs, CallInv, CallOK
<1>2. ~Reads(t) /\ Locks(t) /\ ~Decrements(t)' /\ (pc'[t] = "reading" => Reads(t)' /\ ~Locks(t)')
      /\ (pc'[t] = "downgrade" => ~Reads(t)' /\ Locks(t)')
  BY <1>1 DEF Reads, Locks, Decrements
<1>3. /\ Locking = {t} /\ Reading = {}
      /\ "QUEUED" \notin word.flags => word = S({"LOCKED"}, null)
      /\ "QUEUED" \in word.flags => Contended(word)
  BY <1>0, <1>2, WordOfOwners
<1>4. CASE pc'[t] = "reading" /\ word = S({"LOCKED"}, null) /\ word' = S({"LOCKED"}, 1)
  <2>1. Reading' = {t} /\ Locking' = {} /\ Cardinality(Reading)' = Cardinality(Reading) + 1
    BY <1>1, <1>2, <1>3, <1>4, OwnersMove
  <2>2. \A u \in Threads : ~Decrements(u)'
    <3>1. \A u \in Threads : ~Decrements(u)
      BY <1>0, <1>3, WordOfOwners
    <3> QED
      BY <1>1, <1>2, <3>1 DEF Decrements
  <2>3. 1 = Cardinality(Reading)'
    BY <1>3, <2>1, FS_EmptySet
  <2> QED
    BY <1>4, <2>1, <2>2, <2>3, NoQueue
<1>5. CASE pc'[t] = "downgrade" /\ word # S({"LOCKED"}, null) /\ loc'[t].state = word /\ word' = word
  <2>1. SameFlags
    BY <1>5 DEF SameFlags
  <2> QED
    BY <1>1, <1>2, <1>3, <1>5, <2>1, QuietOwners
<1> QED
  BY <1>0, <1>4, <1>5, downgrade_does DEF Moves, LocalIs

LEMMA downgrade_slow_owners ==
  ASSUME IInv, NEW t \in Threads, downgrade_slow(t)
  PROVE  OwnerInv' /\ SameCount /\ Reading = {}
<1>0. TypeOK /\ CallInv /\ OwnerInv
  BY DEF IInv
<1>1. /\ \A u \in Threads \ {t} : pc'[u] = pc[u] /\ loc'[u] = loc[u]
      /\ pc[t] = "downgrade" /\ loc[t].caller = "none" /\ loc'[t].caller \in {"none", "downgrade"}
      /\ loc'[t].caller = "none" => pc'[t] = "reading"
      /\ pc'[t] \in {"reading", "find"}
      /\ \/ word' = S(word.flags \cup {"DOWNGRADED"}, word.rest)
         \/ word' = S({"LOCKED"}, 1)
  BY <1>0, downgrade_slow_does DEF Moves, LocalIs, CallInv, CallOK
<1>2. ~Reads(t) /\ Locks(t) /\ ~Decrements(t)' /\ Reads(t)' /\ ~Locks(t)'
  BY <1>1 DEF Reads, Locks, Decrements
<1>3. Locking = {t} /\ Reading = {} /\ "QUEUED" \in word.flags /\ "DOWNGRADED" \notin word.flags /\ "LOCKED" \in word.flags
  BY <1>0, <1>1, <1>2, WordOfOwners
<1>4. Reading' = {t} /\ Locking' = {} /\ Cardinality(Reading)' = Cardinality(Reading) + 1
  BY <1>1, <1>2, <1>3, OwnersMove
<1>5. Cardinality(Reading)' = 1
  BY <1>3, <1>4, FS_EmptySet
<1>6. \A u \in Threads : ~Decrements(u)'
  <2>1. \A u \in Threads : ~Decrements(u)
    BY <1>0, <1>3, WordOfOwners
  <2> QED
    BY <1>1, <1>2, <2>1 DEF Decrements
<1>7. CASE word' = S(word.flags \cup {"DOWNGRADED"}, word.rest)
  <2>1. word'.flags = word.flags \cup {"DOWNGRADED"}
    BY <1>7 DEF S
  <2> QED
    BY <1>3, <1>4, <1>5, <1>6, <2>1 DEF OwnerInv, SameCount, Counted
<1>8. CASE word' = S({"LOCKED"}, 1)
  BY <1>3, <1>4, <1>5, <1>6, <1>8, NoQueue
<1> QED
  BY <1>1, <1>7, <1>8

LEMMA wake_queue_owners ==
  ASSUME IInv, NEW t \in Threads, wake_queue(t)
  PROVE  OwnerInv' /\ SameCount /\ \A u \in Threads : ~Decrements(u)
<1>0. TypeOK /\ CallInv /\ OwnerInv
  BY DEF IInv
<1>1. /\ \A u \in Threads \ {t} : pc'[u] = pc[u] /\ loc'[u] = loc[u]
      /\ pc[t] = "unlock_queue" /\ loc[t].caller \in {"lock", "unlock"} /\ loc'[t].caller = loc[t].caller
      /\ pc'[t] = "complete_all" /\ ~LockedBy(word)
      /\ word' = IF "DOWNGRADED" \in word.flags THEN S({"LOCKED"}, 1) ELSE UNLOCKED
  BY <1>0, wake_queue_does DEF Moves, LocalIs, CallInv, CallOK
<1>2. ~Reads(t) /\ ~Locks(t) /\ ~Decrements(t)' /\ ~Reads(t)' /\ ~Locks(t)'
  BY <1>1 DEF Reads, Locks, Decrements
<1>3. Reading' = Reading /\ Locking' = Locking
  BY <1>1, <1>2, OwnersMove
<1>4. CASE "DOWNGRADED" \in word.flags
  <2>1. Cardinality(Reading) = 1 /\ Locking = {} /\ word' = S({"LOCKED"}, 1)
    BY <1>0, <1>1, <1>4, WordOfOwners
  <2>2. \A u \in Threads : ~Decrements(u)
    BY <1>0, <1>4 DEF OwnerInv
  <2>3. \A u \in Threads : ~Decrements(u)'
    BY <1>1, <1>2, <2>2 DEF Decrements
  <2> QED
    BY <1>3, <2>1, <2>2, <2>3, NoQueue
<1>5. CASE "DOWNGRADED" \notin word.flags
  <2>1. "LOCKED" \notin word.flags /\ word' = S({}, 0)
    BY <1>1, <1>5 DEF LockedBy, UNLOCKED, null
  <2>2. Reading = {} /\ Locking = {}
    BY <1>0, <2>1, WordOfOwners
  <2>3. \A u \in Threads : ~Decrements(u)
    BY <1>0, <2>2, WordOfOwners
  <2>4. \A u \in Threads : ~Decrements(u)'
    BY <1>1, <1>2, <2>3 DEF Decrements
  <2> QED
    BY <1>3, <2>1, <2>2, <2>3, <2>4, NoQueue, FS_EmptySet
<1> QED
  BY <1>4, <1>5

\* The owners stay exact.
LEMMA OwnerStep ==
  ASSUME IInv, [Next]_vars
  PROVE  OwnerInv'
<1>1. ASSUME NEW t \in Threads, lock(t) \/ Inside(t) \/ park_spuriously(t) PROVE OwnerInv'
  BY <1>1, lock_owners, load_owners, reload_owners, lock_contended_owners, enqueue_owners, wait_owners, park_owners,
     park_spuriously_owners, find_tail_owners, cache_tail_owners, read_unlock_owners, decrement_owners,
     write_unlock_owners, unlock_contended_owners, reunlock_owners, downgrade_owners, downgrade_slow_owners,
     redowngrade_owners, release_queue_owners, split_owners, split_release_owners, split_fail_owners, undo_owners,
     wake_queue_owners, requeue_owners, complete_owners, unpark_owners
     DEF Inside
<1>2. ASSUME AllDone \/ UNCHANGED vars PROVE OwnerInv'
  BY <1>2 DEF AllDone, vars, IInv, OwnerInv, Reading, Locking, Decrements, Walks
<1> QED
  BY <1>1, <1>2 DEF Next

-----------------------------------------------------------------------------
(***************************************************************************)
(* The queue lock                                                          *)
(***************************************************************************)
HolderOK(t) ==
  /\ {"QUEUED", "QUEUE_LOCKED"} \subseteq word.flags
  /\ {"QUEUED", "QUEUE_LOCKED"} \subseteq loc[t].state.flags
  /\ pc[t] = "split" => "LOCKED" \notin loc[t].state.flags
  /\ pc[t] \in {"split", "undo"} \/ ~LockedBy(loc[t].state) => ~Counted

\* Who gets the queue lock has found it free.
LEMMA HolderFrame ==
  ASSUME HolderInv, NEW t \in Threads, \A u \in Threads \ {t} : pc'[u] = pc[u] /\ loc'[u] = loc[u],
         ~Holds(t) /\ {"QUEUED", "QUEUE_LOCKED"} \subseteq word.flags =>
            {"QUEUED", "QUEUE_LOCKED"} \subseteq word'.flags /\ (Counted' => Counted),
         Holds(t)' => HolderOK(t)' /\ (Holds(t) \/ "QUEUE_LOCKED" \notin word.flags)
  PROVE  HolderInv'
<1>1. \A u \in Threads \ {t} : Holds(u)' <=> Holds(u)
  BY DEF Holds
<1>2. \A u \in Threads : Holds(u) => HolderOK(u)
  BY DEF HolderInv, HolderOK
<1>3. ASSUME NEW u \in Threads, Holds(u)' PROVE HolderOK(u)'
  <2>1. CASE u = t
    BY <1>3, <2>1
  <2>2. CASE u # t
    <3>1. HolderOK(u) /\ ~Holds(t)
      BY <1>1, <1>2, <1>3, <2>2 DEF HolderInv
    <3>2. {"QUEUED", "QUEUE_LOCKED"} \subseteq word'.flags /\ (Counted' => Counted)
      BY <3>1 DEF HolderOK
    <3>3. pc'[u] = pc[u] /\ loc'[u] = loc[u]
      BY <2>2
    <3> QED
      BY <3>1, <3>2, <3>3 DEF HolderOK, LockedBy
  <2> QED
    BY <2>1, <2>2
<1>4. ASSUME NEW u \in Threads, NEW v \in Threads, Holds(u)', Holds(v)' PROVE u = v
  <2>1. \A w \in Threads : Holds(w) => "QUEUE_LOCKED" \in word.flags
    BY <1>2 DEF HolderOK
  <2> QED
    BY <1>1, <1>4, <2>1 DEF HolderInv
<1> QED
  BY <1>3, <1>4 DEF HolderInv, HolderOK

\* There is never a second thread with the queue lock.
LEMMA HolderStep ==
  ASSUME IInv, [Next]_vars
  PROVE  HolderInv'
<1>0. TypeOK /\ CallInv /\ OwnerInv /\ HolderInv
  BY DEF IInv
<1>a. \A t \in Threads : Holds(t) => HolderOK(t)
  BY <1>0 DEF HolderInv, HolderOK
<1>b. ~LockedBy(word) => ~Counted
  BY <1>0 DEF OwnerInv, LockedBy, Counted
<1>1. ASSUME NEW t \in Threads, lock(t) PROVE HolderInv'
  <2>1. \A u \in Threads \ {t} : pc'[u] = pc[u] /\ loc'[u] = loc[u]
    BY <1>0, <1>1, lock_does DEF Moves
  <2>2. ~Holds(t)'
    BY <1>0, <1>1, lock_does DEF Holds, Moves, LocalIs, CallInv, CallOK, held
  <2>3. {"QUEUED", "QUEUE_LOCKED"} \subseteq word.flags => {"QUEUED", "QUEUE_LOCKED"} \subseteq word'.flags
    BY <1>0, <1>1, lock_does DEF S, Lock, Lockable
  <2>4. Counted' => Counted
    BY <1>1, lock_owners DEF SameCount
  <2> QED
    BY <1>0, <2>1, <2>2, <2>3, <2>4, HolderFrame
<1>2. ASSUME NEW t \in Threads, load(t) PROVE HolderInv'
  <2>1. \A u \in Threads \ {t} : pc'[u] = pc[u] /\ loc'[u] = loc[u]
    BY <1>0, <1>2, load_does DEF Moves
  <2>2. ~Holds(t)'
    BY <1>0, <1>2, load_does DEF Holds, Moves, LocalIs, CallInv, CallOK
  <2>3. {"QUEUED", "QUEUE_LOCKED"} \subseteq word.flags => {"QUEUED", "QUEUE_LOCKED"} \subseteq word'.flags
    BY <1>0, <1>2, load_does DEF S
  <2>4. Counted' => Counted
    BY <1>2, load_owners DEF SameCount
  <2> QED
    BY <1>0, <2>1, <2>2, <2>3, <2>4, HolderFrame
<1>3. ASSUME NEW t \in Threads, reload(t) PROVE HolderInv'
  <2>1. \A u \in Threads \ {t} : pc'[u] = pc[u] /\ loc'[u] = loc[u]
    BY <1>0, <1>3, reload_does DEF Moves
  <2>2. ~Holds(t)'
    BY <1>0, <1>3, reload_does DEF Holds, Moves, LocalIs, CallInv, CallOK
  <2>3. {"QUEUED", "QUEUE_LOCKED"} \subseteq word.flags => {"QUEUED", "QUEUE_LOCKED"} \subseteq word'.flags
    BY <1>0, <1>3, reload_does DEF S
  <2>4. Counted' => Counted
    BY <1>3, reload_owners DEF SameCount
  <2> QED
    BY <1>0, <2>1, <2>2, <2>3, <2>4, HolderFrame
<1>4. ASSUME NEW t \in Threads, lock_contended(t) PROVE HolderInv'
  <2>1. \A u \in Threads \ {t} : pc'[u] = pc[u] /\ loc'[u] = loc[u]
    BY <1>0, <1>4, lock_contended_does DEF Moves
  <2>2. ~Holds(t)'
    BY <1>0, <1>4, lock_contended_does DEF Holds, Moves, LocalIs, CallInv, CallOK, held
  <2>3. {"QUEUED", "QUEUE_LOCKED"} \subseteq word.flags => {"QUEUED", "QUEUE_LOCKED"} \subseteq word'.flags
    BY <1>0, <1>4, lock_contended_does DEF S, Lock, Lockable
  <2>4. Counted' => Counted
    BY <1>4, lock_contended_owners DEF SameCount
  <2> QED
    BY <1>0, <2>1, <2>2, <2>3, <2>4, HolderFrame
<1>5. ASSUME NEW t \in Threads, enqueue(t) PROVE HolderInv'
  <2>1. \A u \in Threads \ {t} : pc'[u] = pc[u] /\ loc'[u] = loc[u]
    BY <1>0, <1>5, enqueue_does DEF Moves
  <2>2. {"QUEUED", "QUEUE_LOCKED"} \subseteq word.flags => {"QUEUED", "QUEUE_LOCKED"} \subseteq word'.flags
    <3>1. "QUEUED" \in word.flags => word' = S((word.flags \cap {"DOWNGRADED", "LOCKED"}) \cup {"QUEUED", "QUEUE_LOCKED"}, t)
      BY <1>0, <1>5, enqueue_does
    <3> QED
      BY <3>1 DEF S
  <2>3. {"QUEUED", "QUEUE_LOCKED"} \subseteq word.flags => (Counted' => Counted)
    BY <1>5, enqueue_owners DEF SameCount
  <2>4. ASSUME Holds(t)' PROVE HolderOK(t)' /\ "QUEUE_LOCKED" \notin word.flags
    <3>1. pc'[t] = "find" /\ loc'[t].state = word' /\ "QUEUED" \in word.flags /\ "QUEUE_LOCKED" \notin word.flags
      BY <1>0, <1>5, <2>4, enqueue_does DEF Holds, Moves, LocalIs
    <3>2. {"QUEUED", "QUEUE_LOCKED"} \subseteq word'.flags
      <4>1. word' = S((word.flags \cap {"DOWNGRADED", "LOCKED"}) \cup {"QUEUED", "QUEUE_LOCKED"}, t)
        BY <1>0, <1>5, <3>1, enqueue_does
      <4> QED
        BY <4>1 DEF S
    <3>3. OwnerInv'
      BY <1>5, enqueue_owners
    <3>4. ~LockedBy(word') => ~Counted'
      BY <3>3 DEF OwnerInv, LockedBy, Counted
    <3> QED
      BY <3>1, <3>2, <3>4 DEF HolderOK
  <2> QED
    BY <1>0, <2>1, <2>2, <2>3, <2>4, HolderFrame
<1>6. ASSUME NEW t \in Threads, wait(t) PROVE HolderInv'
  <2>1. \A u \in Threads \ {t} : pc'[u] = pc[u] /\ loc'[u] = loc[u]
    BY <1>0, <1>6, wait_does DEF Moves
  <2>2. ~Holds(t)'
    BY <1>0, <1>6, wait_does DEF Holds, Moves, LocalIs, CallInv, CallOK
  <2>3. {"QUEUED", "QUEUE_LOCKED"} \subseteq word.flags => {"QUEUED", "QUEUE_LOCKED"} \subseteq word'.flags
    BY <1>0, <1>6, wait_does DEF S
  <2>4. Counted' => Counted
    BY <1>6, wait_owners DEF SameCount
  <2> QED
    BY <1>0, <2>1, <2>2, <2>3, <2>4, HolderFrame
<1>7. ASSUME NEW t \in Threads, park(t) PROVE HolderInv'
  <2>1. \A u \in Threads \ {t} : pc'[u] = pc[u] /\ loc'[u] = loc[u]
    BY <1>0, <1>7, park_does DEF Moves
  <2>2. ~Holds(t)'
    BY <1>0, <1>7, park_does DEF Holds, Moves, LocalIs, CallInv, CallOK
  <2>3. {"QUEUED", "QUEUE_LOCKED"} \subseteq word.flags => {"QUEUED", "QUEUE_LOCKED"} \subseteq word'.flags
    BY <1>0, <1>7, park_does DEF S
  <2>4. Counted' => Counted
    BY <1>7, park_owners DEF SameCount
  <2> QED
    BY <1>0, <2>1, <2>2, <2>3, <2>4, HolderFrame
<1>8. ASSUME NEW t \in Threads, park_spuriously(t) PROVE HolderInv'
  <2>1. \A u \in Threads \ {t} : pc'[u] = pc[u] /\ loc'[u] = loc[u]
    BY <1>0, <1>8, park_spuriously_does DEF Moves
  <2>2. ~Holds(t)'
    BY <1>0, <1>8, park_spuriously_does DEF Holds, Moves, LocalIs, CallInv, CallOK
  <2>3. {"QUEUED", "QUEUE_LOCKED"} \subseteq word.flags => {"QUEUED", "QUEUE_LOCKED"} \subseteq word'.flags
    BY <1>0, <1>8, park_spuriously_does DEF S
  <2>4. Counted' => Counted
    BY <1>8, park_spuriously_owners DEF SameCount
  <2> QED
    BY <1>0, <2>1, <2>2, <2>3, <2>4, HolderFrame
<1>9. ASSUME NEW t \in Threads, find_tail(t) PROVE HolderInv'
  <2>0. PICK n \in Threads : pc[t] = "find" /\ node[loc[t].current].tail = null => n = node[loc[t].current].next
    BY StepNodes
  <2>1. \A u \in Threads \ {t} : pc'[u] = pc[u] /\ loc'[u] = loc[u]
    BY <1>0, <1>9, <2>0, find_tail_does DEF Moves
  <2>2. word' = word /\ (Counted' => Counted)
    BY <1>0, <1>9, <2>0, find_tail_does, find_tail_owners DEF SameCount
  <2>3. Holds(t)' => Holds(t) /\ loc'[t].state = loc[t].state
    BY <1>0, <1>9, <2>0, find_tail_does DEF Holds, Moves, LocalIs, CallInv, CallOK
  <2>4. Holds(t)' => HolderOK(t)'
    BY <1>0, <1>a, <1>b, <1>9, <2>0, <2>2, <2>3, find_tail_does DEF Moves, HolderOK, LockedBy
  <2> QED
    BY <1>0, <2>1, <2>2, <2>3, <2>4, HolderFrame
<1>10. ASSUME NEW t \in Threads, cache_tail(t) PROVE HolderInv'
  <2>0. loc[t].state.rest \in Threads
    BY <1>10, StepNodes DEF cache_tail, Goto
  <2>1. \A u \in Threads \ {t} : pc'[u] = pc[u] /\ loc'[u] = loc[u]
    BY <1>0, <1>10, <2>0, cache_tail_does DEF Moves
  <2>2. word' = word /\ (Counted' => Counted)
    BY <1>0, <1>10, <2>0, cache_tail_does, cache_tail_owners DEF SameCount
  <2>3. Holds(t)' => Holds(t) /\ loc'[t].state = loc[t].state
    BY <1>0, <1>10, <2>0, cache_tail_does DEF Holds, Moves, LocalIs, CallInv, CallOK
  <2>4. Holds(t)' => HolderOK(t)'
    BY <1>0, <1>a, <1>b, <1>10, <2>0, <2>2, <2>3, cache_tail_goes, cache_tail_does DEF Moves, HolderOK, LockedBy
  <2> QED
    BY <1>0, <2>1, <2>2, <2>3, <2>4, HolderFrame
<1>11. ASSUME NEW t \in Threads, read_unlock(t) PROVE HolderInv'
  <2>1. \A u \in Threads \ {t} : pc'[u] = pc[u] /\ loc'[u] = loc[u]
    BY <1>0, <1>11, read_unlock_does DEF Moves
  <2>2. ~Holds(t)'
    BY <1>0, <1>11, read_unlock_does DEF Holds, Moves, LocalIs, CallInv, CallOK
  <2>3. {"QUEUED", "QUEUE_LOCKED"} \subseteq word.flags => {"QUEUED", "QUEUE_LOCKED"} \subseteq word'.flags
    BY <1>0, <1>11, read_unlock_does DEF S
  <2>4. Counted' => Counted
    BY <1>11, read_unlock_owners DEF SameCount
  <2> QED
    BY <1>0, <2>1, <2>2, <2>3, <2>4, HolderFrame
<1>12. ASSUME NEW t \in Threads, decrement(t) PROVE HolderInv'
  <2>0. loc[t].tail \in Threads
    BY <1>12, StepNodes DEF decrement
  <2>1. \A u \in Threads \ {t} : pc'[u] = pc[u] /\ loc'[u] = loc[u]
    BY <1>0, <1>12, <2>0, decrement_does DEF Moves
  <2>2. ~Holds(t)'
    BY <1>0, <1>12, <2>0, decrement_does DEF Holds, Moves, LocalIs, CallInv, CallOK
  <2>3. {"QUEUED", "QUEUE_LOCKED"} \subseteq word.flags => {"QUEUED", "QUEUE_LOCKED"} \subseteq word'.flags
    BY <1>0, <1>12, <2>0, decrement_does DEF S
  <2>4. Counted' => Counted
    BY <1>0, <1>12, <2>0, decrement_owners, decrement_does DEF Counted
  <2> QED
    BY <1>0, <2>1, <2>2, <2>3, <2>4, HolderFrame
<1>13. ASSUME NEW t \in Threads, write_unlock(t) PROVE HolderInv'
  <2>1. \A u \in Threads \ {t} : pc'[u] = pc[u] /\ loc'[u] = loc[u]
    BY <1>0, <1>13, write_unlock_does DEF Moves
  <2>2. ~Holds(t)'
    BY <1>0, <1>13, write_unlock_does DEF Holds, Moves, LocalIs, CallInv, CallOK
  <2>3. {"QUEUED", "QUEUE_LOCKED"} \subseteq word.flags => {"QUEUED", "QUEUE_LOCKED"} \subseteq word'.flags
    BY <1>0, <1>13, write_unlock_does DEF S
  <2>4. Counted' => Counted
    BY <1>13, write_unlock_owners DEF SameCount
  <2> QED
    BY <1>0, <2>1, <2>2, <2>3, <2>4, HolderFrame
<1>14. ASSUME NEW t \in Threads, unlock_contended(t) PROVE HolderInv'
  <2>1. \A u \in Threads \ {t} : pc'[u] = pc[u] /\ loc'[u] = loc[u]
    BY <1>0, <1>14, unlock_contended_does DEF Moves
  <2>2. {"QUEUED", "QUEUE_LOCKED"} \subseteq word.flags => {"QUEUED", "QUEUE_LOCKED"} \subseteq word'.flags
    BY <1>0, <1>14, unlock_contended_does DEF S
  <2>3. ~Counted'
    BY <1>14, unlock_contended_owners DEF Counted
  <2>4. ASSUME Holds(t)' PROVE HolderOK(t)' /\ "QUEUE_LOCKED" \notin word.flags
    <3>1. pc'[t] = "find" /\ loc'[t].state = word' /\ "QUEUE_LOCKED" \notin word.flags /\ pc[t] = "unlock"
      BY <1>0, <1>14, <2>4, unlock_contended_does DEF Holds, Moves, LocalIs
    <3>2. "QUEUED" \in word.flags
      BY <3>1, StepNodes
    <3>3. {"QUEUED", "QUEUE_LOCKED"} \subseteq word'.flags
      BY <1>0, <1>14, <3>1, <3>2, unlock_contended_does DEF S
    <3> QED
      BY <2>3, <3>1, <3>3 DEF HolderOK
  <2> QED
    BY <1>0, <2>1, <2>2, <2>3, <2>4, HolderFrame
<1>15. ASSUME NEW t \in Threads, reunlock(t) PROVE HolderInv'
  <2>1. \A u \in Threads \ {t} : pc'[u] = pc[u] /\ loc'[u] = loc[u]
    BY <1>0, <1>15, reunlock_does DEF Moves
  <2>2. ~Holds(t)'
    BY <1>0, <1>15, reunlock_does DEF Holds, Moves, LocalIs, CallInv, CallOK
  <2>3. {"QUEUED", "QUEUE_LOCKED"} \subseteq word.flags => {"QUEUED", "QUEUE_LOCKED"} \subseteq word'.flags
    BY <1>0, <1>15, reunlock_does DEF S
  <2>4. Counted' => Counted
    BY <1>15, reunlock_owners DEF SameCount
  <2> QED
    BY <1>0, <2>1, <2>2, <2>3, <2>4, HolderFrame
<1>16. ASSUME NEW t \in Threads, downgrade(t) PROVE HolderInv'
  <2>1. \A u \in Threads \ {t} : pc'[u] = pc[u] /\ loc'[u] = loc[u]
    BY <1>0, <1>16, downgrade_does DEF Moves
  <2>2. ~Holds(t)'
    BY <1>0, <1>16, downgrade_does DEF Holds, Moves, LocalIs, CallInv, CallOK
  <2>3. {"QUEUED", "QUEUE_LOCKED"} \subseteq word.flags => {"QUEUED", "QUEUE_LOCKED"} \subseteq word'.flags
    BY <1>0, <1>16, downgrade_does DEF S
  <2>4. Counted' => Counted
    BY <1>16, downgrade_owners DEF SameCount
  <2> QED
    BY <1>0, <2>1, <2>2, <2>3, <2>4, HolderFrame
<1>17. ASSUME NEW t \in Threads, downgrade_slow(t) PROVE HolderInv'
  <2>1. \A u \in Threads \ {t} : pc'[u] = pc[u] /\ loc'[u] = loc[u]
    BY <1>0, <1>17, downgrade_slow_does DEF Moves
  <2>2. ~Holds(t)'
    BY <1>0, <1>17, downgrade_slow_does DEF Holds, Moves, LocalIs, CallInv, CallOK
  <2>3. {"QUEUED", "QUEUE_LOCKED"} \subseteq word.flags => {"QUEUED", "QUEUE_LOCKED"} \subseteq word'.flags
    BY <1>0, <1>17, downgrade_slow_does DEF S
  <2>4. Counted' => Counted
    BY <1>17, downgrade_slow_owners DEF SameCount
  <2> QED
    BY <1>0, <2>1, <2>2, <2>3, <2>4, HolderFrame
<1>18. ASSUME NEW t \in Threads, redowngrade(t) PROVE HolderInv'
  <2>1. \A u \in Threads \ {t} : pc'[u] = pc[u] /\ loc'[u] = loc[u]
    BY <1>0, <1>18, redowngrade_does DEF Moves
  <2>2. ~Holds(t)'
    BY <1>0, <1>18, redowngrade_does DEF Holds, Moves, LocalIs, CallInv, CallOK
  <2>3. {"QUEUED", "QUEUE_LOCKED"} \subseteq word.flags => {"QUEUED", "QUEUE_LOCKED"} \subseteq word'.flags
    BY <1>0, <1>18, redowngrade_does DEF S
  <2>4. Counted' => Counted
    BY <1>18, redowngrade_owners DEF SameCount
  <2> QED
    BY <1>0, <2>1, <2>2, <2>3, <2>4, HolderFrame
<1>19. ASSUME NEW t \in Threads, release_queue(t) PROVE HolderInv'
  <2>1. \A u \in Threads \ {t} : pc'[u] = pc[u] /\ loc'[u] = loc[u]
    BY <1>0, <1>19, release_queue_does DEF Moves
  <2>2. Holds(t) /\ ~Holds(t)'
    BY <1>0, <1>19, release_queue_does DEF Holds, Moves, LocalIs, CallInv, CallOK
  <2> QED
    BY <1>0, <2>1, <2>2, HolderFrame
<1>20. ASSUME NEW t \in Threads, split(t) PROVE HolderInv'
  <2>0. loc[t].state.rest \in Threads
    BY <1>20, StepNodes DEF split, Goto
  <2>1. \A u \in Threads \ {t} : pc'[u] = pc[u] /\ loc'[u] = loc[u]
    BY <1>0, <1>20, <2>0, split_does DEF Moves
  <2>2. word' = word /\ (Counted' => Counted)
    BY <1>0, <1>20, <2>0, split_does, split_owners DEF SameCount
  <2>3. Holds(t)' => Holds(t) /\ loc'[t].state = loc[t].state
    BY <1>0, <1>20, <2>0, split_does DEF Holds, Moves, LocalIs, CallInv, CallOK
  <2>4. Holds(t)' => HolderOK(t)'
    BY <1>0, <1>a, <1>b, <1>20, <2>0, <2>2, <2>3, split_does DEF Moves, HolderOK, WakesWriter, LockedBy
  <2> QED
    BY <1>0, <2>1, <2>2, <2>3, <2>4, HolderFrame
<1>21. ASSUME NEW t \in Threads, split_release(t) PROVE HolderInv'
  <2>1. \A u \in Threads \ {t} : pc'[u] = pc[u] /\ loc'[u] = loc[u]
    BY <1>0, <1>21, split_release_does DEF Moves
  <2>2. Holds(t) /\ ~Holds(t)'
    BY <1>0, <1>21, split_release_does DEF Holds, Moves, LocalIs, CallInv, CallOK
  <2> QED
    BY <1>0, <2>1, <2>2, HolderFrame
<1>22. ASSUME NEW t \in Threads, split_fail(t) PROVE HolderInv'
  <2>1. \A u \in Threads \ {t} : pc'[u] = pc[u] /\ loc'[u] = loc[u]
    BY <1>0, <1>22, split_fail_does DEF Moves
  <2>2. word' = word /\ (Counted' => Counted)
    BY <1>0, <1>22, split_fail_does, split_fail_owners DEF SameCount
  <2>3. Holds(t)' => Holds(t) /\ loc'[t].state = word
    BY <1>0, <1>22, split_fail_does DEF Holds, Moves, LocalIs, CallInv, CallOK
  <2>4. Holds(t)' => HolderOK(t)'
    BY <1>0, <1>a, <1>b, <1>22, <2>2, <2>3, split_fail_does DEF Moves, HolderOK, LockedBy
  <2> QED
    BY <1>0, <2>1, <2>2, <2>3, <2>4, HolderFrame
<1>23. ASSUME NEW t \in Threads, undo(t) PROVE HolderInv'
  <2>0. loc[t].current \in Threads
    BY <1>23, StepNodes DEF undo, Find, Goto
  <2>1. \A u \in Threads \ {t} : pc'[u] = pc[u] /\ loc'[u] = loc[u]
    BY <1>0, <1>23, <2>0, undo_does DEF Moves
  <2>2. word' = word /\ (Counted' => Counted)
    BY <1>0, <1>23, <2>0, undo_does, undo_owners DEF SameCount
  <2>3. Holds(t)' => Holds(t) /\ loc'[t].state = loc[t].state
    BY <1>0, <1>23, <2>0, undo_does DEF Holds, Moves, LocalIs, CallInv, CallOK
  <2>4. Holds(t)' => HolderOK(t)'
    BY <1>0, <1>a, <1>b, <1>23, <2>0, <2>2, <2>3, undo_does DEF Moves, HolderOK, LockedBy
  <2> QED
    BY <1>0, <2>1, <2>2, <2>3, <2>4, HolderFrame
<1>24. ASSUME NEW t \in Threads, wake_queue(t) PROVE HolderInv'
  <2>1. \A u \in Threads \ {t} : pc'[u] = pc[u] /\ loc'[u] = loc[u]
    BY <1>0, <1>24, wake_queue_does DEF Moves
  <2>2. Holds(t) /\ ~Holds(t)'
    BY <1>0, <1>24, wake_queue_does DEF Holds, Moves, LocalIs, CallInv, CallOK
  <2> QED
    BY <1>0, <2>1, <2>2, HolderFrame
<1>25. ASSUME NEW t \in Threads, requeue(t) PROVE HolderInv'
  <2>1. \A u \in Threads \ {t} : pc'[u] = pc[u] /\ loc'[u] = loc[u]
    BY <1>0, <1>25, requeue_does DEF Moves
  <2>2. word' = word /\ (Counted' => Counted)
    BY <1>0, <1>25, requeue_does, requeue_owners DEF SameCount
  <2>3. Holds(t)' => Holds(t) /\ loc'[t].state = word
    BY <1>0, <1>25, requeue_does DEF Holds, Moves, LocalIs, CallInv, CallOK
  <2>4. Holds(t)' => HolderOK(t)'
    BY <1>0, <1>a, <1>b, <1>25, <2>2, <2>3, requeue_does DEF Moves, HolderOK, LockedBy
  <2> QED
    BY <1>0, <2>1, <2>2, <2>3, <2>4, HolderFrame
<1>26. ASSUME NEW t \in Threads, complete(t) PROVE HolderInv'
  <2>0. loc[t].current \in Threads
    BY <1>26, StepNodes DEF complete, Goto
  <2>1. \A u \in Threads \ {t} : pc'[u] = pc[u] /\ loc'[u] = loc[u]
    BY <1>0, <1>26, <2>0, complete_does DEF Moves
  <2>2. ~Holds(t)'
    BY <1>0, <1>26, <2>0, complete_does DEF Holds, Moves, LocalIs, CallInv, CallOK
  <2>3. {"QUEUED", "QUEUE_LOCKED"} \subseteq word.flags => {"QUEUED", "QUEUE_LOCKED"} \subseteq word'.flags
    BY <1>0, <1>26, <2>0, complete_does DEF S
  <2>4. Counted' => Counted
    BY <1>26, complete_owners DEF SameCount
  <2> QED
    BY <1>0, <2>1, <2>2, <2>3, <2>4, HolderFrame
<1>27. ASSUME NEW t \in Threads, unpark(t) PROVE HolderInv'
  <2>1. \A u \in Threads \ {t} : pc'[u] = pc[u] /\ loc'[u] = loc[u]
    BY <1>0, <1>27, unpark_does DEF Moves
  <2>2. ~Holds(t)'
    BY <1>0, <1>27, unpark_does DEF Holds, Moves, LocalIs, CallInv, CallOK, Return
  <2>3. {"QUEUED", "QUEUE_LOCKED"} \subseteq word.flags => {"QUEUED", "QUEUE_LOCKED"} \subseteq word'.flags
    BY <1>0, <1>27, unpark_does DEF S
  <2>4. Counted' => Counted
    BY <1>27, unpark_owners DEF SameCount
  <2> QED
    BY <1>0, <2>1, <2>2, <2>3, <2>4, HolderFrame
<1>28. ASSUME AllDone \/ UNCHANGED vars PROVE HolderInv'
  BY <1>0, <1>28 DEF AllDone, vars, HolderInv, Holds, Counted, Reading, Walks, LockedBy
<1> QED
  BY <1>1, <1>2, <1>3, <1>4, <1>5, <1>6, <1>7, <1>8, <1>9, <1>10, <1>11, <1>12, <1>13, <1>14, <1>15, <1>16, <1>17, <1>18, <1>19, <1>20, <1>21, <1>22, <1>23, <1>24, <1>25, <1>26, <1>27, <1>28 DEF Next, Inside

-----------------------------------------------------------------------------
(***************************************************************************)
(* The queue: what stays                                                   *)
(***************************************************************************)
\* t is on its way over a queue, or wakes what it has taken.
Active(t) == Holds(t) \/ Decrements(t) \/ Takes(t) \/ pc[t] \in {"complete", "complete_all", "unpark"}

\* What is said about nodes that do not change stays true.
LEMMA SameBack ==
  ASSUME NEW at, NEW i \in Nat, NEW j \in Nat, \A m \in i .. j - 1 : node'[at[m]].prev = node[at[m]].prev
  PROVE  Back(at, i, j)' <=> Back(at, i, j)
BY DEF Back

LEMMA SameLinked ==
  ASSUME NEW at, NEW l \in Nat, NEW k \in Nat, NEW u \in Nat, NEW e,
         \A i \in l .. u : node'[at[i]] = node[at[i]], Linked(at, l, k, u, e)
  PROVE  Linked(at, l, k, u, e)'
<1>1. l <= k /\ k <= u
  BY DEF Linked
<1>2. ASSUME NEW i \in k .. u PROVE Back(at, l, i)' <=> Back(at, l, i)
  <2>1. i \in Nat /\ \A m \in l .. i - 1 : m \in l .. u
    BY <1>1
  <2> QED
    BY <2>1, SameBack
<1>3. \A i \in l + 1 .. u : i \in l .. u /\ i - 1 \in l .. u
  BY <1>1
<1>4. \A i \in l .. u - 1 : i \in l .. u
  BY <1>1
<1>5. \A i \in k .. u : i \in l .. u
  BY <1>1
<1>6. k \in l .. u /\ u \in l .. u
  BY <1>1
<1>7. ASSUME NEW i \in l + 1 .. u PROVE node'[at[i]].next = at[i - 1]
  BY <1>3 DEF Linked
<1>8. node'[at[k]].tail = e /\ node'[at[u]].prev = null
  BY <1>6 DEF Linked
<1>9. ASSUME NEW i \in k .. u, node'[at[i]].tail # null PROVE node'[at[i]].tail = e /\ Back(at, l, i)'
  BY <1>2, <1>5, <1>9 DEF Linked
<1>10. ASSUME NEW i \in l .. u - 1 PROVE node'[at[i]].prev \in {null, at[i + 1]}
  BY <1>4 DEF Linked
<1> QED
  BY <1>1, <1>7, <1>8, <1>9, <1>10 DEF Linked

LEMMA SameWalk ==
  ASSUME NEW at, NEW l \in Nat, NEW k \in Nat, NEW h \in Nat, NEW c \in Nat, NEW t \in Threads,
         pc'[t] = pc[t], loc'[t] = loc[t],
         \A m \in Nat : l <= m /\ Back(at, m, h) => Back(at, m, h)', l <= k,
         Walk(t, at, l, k, h, c)
  PROVE  Walk(t, at, l, k, h, c)'
BY DEF Walk

LEMMA SameTaken ==
  ASSUME NEW at, NEW l \in Nat, NEW k \in Nat, NEW u \in Nat, NEW c \in Nat, NEW t \in Threads,
         pc'[t] = pc[t], loc'[t] = loc[t], \A i \in l .. u : node'[at[i]] = node[at[i]],
         Taken(t, at, l, u, k, c)
  PROVE  Taken(t, at, l, u, k, c)'
<1>1. Takes(t)' <=> Takes(t)
  BY DEF Takes
<1>2. ASSUME NEW m \in Nat, l <= m PROVE Back(at, m, u)' <=> Back(at, m, u)
  <2>1. \A i \in m .. u - 1 : i \in l .. u
    BY <1>2
  <2> QED
    BY <2>1, SameBack
<1>3. ASSUME Takes(t) PROVE Linked(at, l, k, u, at[l])' /\ Walk(t, at, l, k, u, c)'
  <2>1. Linked(at, l, k, u, at[l]) /\ Walk(t, at, l, k, u, c)
    BY <1>3 DEF Taken
  <2>2. l <= k
    BY <2>1 DEF Linked
  <2>3. Linked(at, l, k, u, at[l])'
    BY <2>1, SameLinked
  <2>4. Walk(t, at, l, k, u, c)'
    BY <1>2, <2>1, <2>2, SameWalk
  <2> QED
    BY <2>3, <2>4
<1>4. Back(at, l, u)' <=> Back(at, l, u)
  BY <1>2
<1>5. l <= u => node'[at[u]] = node[at[u]]
  OBVIOUS
<1> QED
  BY <1>1, <1>3, <1>4, <1>5 DEF Taken

\* No node is completed.
LEMMA SameNodes ==
  ASSUME NEW at, NEW lo, NEW hi, NEW dl, NEW dh, NodeInv(at, lo, hi, dl, dh),
         \A n \in Threads : node'[n].completed = node[n].completed
  PROVE  NodeInv(at, lo, hi, dl, dh)'
BY DEF NodeInv, Live

\* Steps that change no node but those that t has taken.  It may have completed
\* one of them.
LEMMA TakerFrame ==
  ASSUME NEW at, NEW lo, NEW hi, NEW k, NEW dl, NEW dh, NEW h, NEW c, NEW f, NEW dl2, NEW h2, NEW c2,
         TypeOK, CallInv, OwnerInv, HolderInv, Inv(at, lo, hi, k, dl, dh, h, c, f),
         NEW t \in Threads, \A u \in Threads \ {t} : pc'[u] = pc[u] /\ loc'[u] = loc[u],
         h2 \in [Threads -> Nat], c2 \in [Threads -> Nat], \A u \in Threads \ {t} : h2[u] = h[u] /\ c2[u] = c[u],
         \A i \in lo .. hi : node'[at[i]] = node[at[i]],
         \A u \in Threads \ {t} : \A i \in dl[u] .. dh[u] : node'[at[i]] = node[at[i]],
         dl2 \in [Threads -> Nat], \A u \in Threads \ {t} : dl2[u] = dl[u], NodeInv(at, lo, hi, dl2, dh)',
         "QUEUED" \in word'.flags <=> "QUEUED" \in word.flags, "QUEUED" \in word.flags => word'.rest = word.rest,
         pc'[t] \in {"split", "undo"} <=> pc[t] \in {"split", "undo"}, SameCount,
         Holds(t)' \/ Decrements(t)' => Walk(t, at, lo, k, h2[t], c2[t])' /\ h2[t] <= hi,
         Holds(t)' => Holder(t, at, lo, hi, k, h2[t])',
         Taken(t, at, dl2[t], dh[t], f[t], c2[t])'
  PROVE  Inv(at, lo, hi, k, dl2, dh, h2, c2, f)'
<1>1. /\ at \in [Nat -> Links] /\ lo \in Nat /\ hi \in Nat /\ k \in Nat
      /\ dl \in [Threads -> Nat] /\ dh \in [Threads -> Nat]
      /\ h \in [Threads -> Nat] /\ c \in [Threads -> Nat] /\ f \in [Threads -> Nat]
      /\ NodeInv(at, lo, hi, dl, dh) /\ QueueInv(at, lo, hi, k)
      /\ WalkInv(at, lo, hi, k, h, c) /\ TakenInv(at, dl, dh, f, c)
  BY DEF Inv
<1>2. \A i \in lo .. hi : i \in Nat /\ Live(lo, hi, dl, dh, i) /\ node'[at[i]] = node[at[i]]
  BY LiveNodes
<1>3. \A u \in Threads \ {t} : \A i \in dl[u] .. dh[u] : i \in Nat /\ Live(lo, hi, dl, dh, i) /\ node'[at[i]] = node[at[i]]
  BY LiveNodes
<1>5. Splitting' <=> Splitting
  BY DEF Splitting
<1>6. QueueInv(at, lo, hi, k)'
  <2>1. ASSUME "QUEUED" \in word.flags
        PROVE  /\ word'.rest = at[hi]
               /\ ~Splitting => Linked(at, lo, k, hi, at[lo])'
               /\ Splitting => Linked(at, lo, k, hi, at[lo + 1])'
    <3>1. /\ word.rest = at[hi]
          /\ ~Splitting => Linked(at, lo, k, hi, at[lo])
          /\ Splitting => Linked(at, lo, k, hi, at[lo + 1])
      BY <1>1, <2>1 DEF QueueInv
    <3> QED
      BY <1>1, <1>2, <2>1, <3>1, SameLinked
  <2>2. Counted' => node'[at[lo]].next = Cardinality(Reading')
    <3>1. Counted' => Counted /\ Reading' = Reading
      BY DEF SameCount
    <3>2. Counted => lo \in lo .. hi
      BY MainQueue DEF Counted
    <3> QED
      BY <1>1, <1>2, <3>1, <3>2 DEF QueueInv
  <2> QED
    BY <1>1, <1>5, <2>1, <2>2 DEF QueueInv
<1>7. ASSUME NEW u \in Threads
      PROVE  /\ Holds(u)' \/ Decrements(u)' => Walk(u, at, lo, k, h2[u], c2[u])' /\ h2[u] <= hi
             /\ Holds(u)' => Holder(u, at, lo, hi, k, h2[u])'
  <2>1. CASE u = t
    BY <2>1
  <2>2. ASSUME u # t, Holds(u)' \/ Decrements(u)'
        PROVE  Walk(u, at, lo, k, h2[u], c2[u])' /\ h2[u] <= hi
    <3>1. pc'[u] = pc[u] /\ loc'[u] = loc[u] /\ h2[u] = h[u] /\ c2[u] = c[u]
      BY <2>2
    <3>2. Holds(u) \/ Decrements(u)
      BY <2>2, <3>1 DEF Holds, Decrements
    <3>3. "QUEUED" \in word.flags /\ h[u] \in lo .. hi /\ c[u] \in Nat /\ Walk(u, at, lo, k, h[u], c[u])
      BY <3>2, MainWalk
    <3>4. lo <= k
      BY <3>3, MainQueue DEF Linked
    <3>5. ASSUME NEW m \in Nat, lo <= m PROVE Back(at, m, h[u])' <=> Back(at, m, h[u])
      <4>1. \A i \in m .. h[u] - 1 : i \in lo .. hi
        BY <1>1, <3>3, <3>5
      <4>2. h[u] \in Nat
        BY <1>1
      <4> QED
        BY <1>2, <4>1, <4>2, SameBack
    <3>6. h[u] \in Nat
      BY <1>1
    <3>7. Walk(u, at, lo, k, h[u], c[u])'
      BY <1>1, <3>1, <3>3, <3>4, <3>5, <3>6, SameWalk
    <3> QED
      BY <1>1, <3>1, <3>3, <3>7
  <2>3. ASSUME u # t, Holds(u)' PROVE Holder(u, at, lo, hi, k, h2[u])'
    <3>1. pc'[u] = pc[u] /\ loc'[u] = loc[u] /\ h2[u] = h[u]
      BY <2>3
    <3>2. Holds(u)
      BY <2>3, <3>1 DEF Holds
    <3>3. "QUEUED" \in word.flags /\ h[u] \in lo .. hi
      BY <3>2, MainWalk
    <3>4. Holder(u, at, lo, hi, k, h[u]) /\ lo <= k
      BY <1>1, <3>2, <3>3, MainQueue DEF WalkInv, Linked
    <3>5. /\ \A i \in h[u] .. hi : i \in lo .. hi
          /\ \A i \in h[u] + 1 .. hi : i \in lo .. hi
          /\ \A i \in k + 1 .. hi : i \in lo .. hi
      BY <1>1, <3>3, <3>4
    <3> QED
      BY <1>2, <3>1, <3>4, <3>5 DEF Holder, LockedBy
  <2> QED
    BY <2>1, <2>2, <2>3
<1>8. ASSUME NEW u \in Threads PROVE Taken(u, at, dl2[u], dh[u], f[u], c2[u])'
  <2>1. CASE u = t
    BY <2>1
  <2>2. CASE u # t
    <3>1. pc'[u] = pc[u] /\ loc'[u] = loc[u] /\ c2[u] = c[u] /\ dl2[u] = dl[u]
      BY <2>2
    <3>2. Taken(u, at, dl[u], dh[u], f[u], c[u]) /\ dl[u] \in Nat /\ dh[u] \in Nat /\ f[u] \in Nat /\ c[u] \in Nat
      BY <1>1 DEF TakenInv
    <3>3. Taken(u, at, dl[u], dh[u], f[u], c[u])'
      BY <1>3, <3>1, <3>2, SameTaken
    <3> QED
      BY <3>1, <3>3
  <2> QED
    BY <2>1, <2>2
<1> QED
  BY <1>1, <1>6, <1>7, <1>8 DEF Inv, WalkInv, TakenInv

\* Steps that change no node but those that t has taken, and complete none.
LEMMA OthersFrame ==
  ASSUME NEW at, NEW lo, NEW hi, NEW k, NEW dl, NEW dh, NEW h, NEW c, NEW f, NEW h2, NEW c2,
         TypeOK, CallInv, OwnerInv, HolderInv, Inv(at, lo, hi, k, dl, dh, h, c, f),
         NEW t \in Threads, \A u \in Threads \ {t} : pc'[u] = pc[u] /\ loc'[u] = loc[u],
         h2 \in [Threads -> Nat], c2 \in [Threads -> Nat], \A u \in Threads \ {t} : h2[u] = h[u] /\ c2[u] = c[u],
         \A i \in lo .. hi : node'[at[i]] = node[at[i]],
         \A u \in Threads \ {t} : \A i \in dl[u] .. dh[u] : node'[at[i]] = node[at[i]],
         \A i \in Nat : Live(lo, hi, dl, dh, i) => node'[at[i]].completed = node[at[i]].completed,
         "QUEUED" \in word'.flags <=> "QUEUED" \in word.flags, "QUEUED" \in word.flags => word'.rest = word.rest,
         pc'[t] \in {"split", "undo"} <=> pc[t] \in {"split", "undo"}, SameCount,
         Holds(t)' \/ Decrements(t)' => Walk(t, at, lo, k, h2[t], c2[t])' /\ h2[t] <= hi,
         Holds(t)' => Holder(t, at, lo, hi, k, h2[t])',
         Taken(t, at, dl[t], dh[t], f[t], c2[t])'
  PROVE  Inv(at, lo, hi, k, dl, dh, h2, c2, f)'
<1>1. NodeInv(at, lo, hi, dl, dh)'
  BY DEF Inv, NodeInv, Live
<1>2. dl \in [Threads -> Nat]
  BY DEF Inv
<1> QED
  BY <1>1, <1>2, TakerFrame

\* Steps that change no node of a queue, only where t is.
LEMMA GhostFrame ==
  ASSUME NEW at, NEW lo, NEW hi, NEW k, NEW dl, NEW dh, NEW h, NEW c, NEW f, NEW h2, NEW c2,
         TypeOK, CallInv, OwnerInv, HolderInv, Inv(at, lo, hi, k, dl, dh, h, c, f),
         NEW t \in Threads, \A u \in Threads \ {t} : pc'[u] = pc[u] /\ loc'[u] = loc[u],
         h2 \in [Threads -> Nat], c2 \in [Threads -> Nat], \A u \in Threads \ {t} : h2[u] = h[u] /\ c2[u] = c[u],
         \A i \in Nat : Live(lo, hi, dl, dh, i) => node'[at[i]] = node[at[i]],
         "QUEUED" \in word'.flags <=> "QUEUED" \in word.flags, "QUEUED" \in word.flags => word'.rest = word.rest,
         pc'[t] \in {"split", "undo"} <=> pc[t] \in {"split", "undo"}, SameCount,
         Holds(t)' \/ Decrements(t)' => Walk(t, at, lo, k, h2[t], c2[t])' /\ h2[t] <= hi,
         Holds(t)' => Holder(t, at, lo, hi, k, h2[t])',
         Taken(t, at, dl[t], dh[t], f[t], c2[t])'
  PROVE  Inv(at, lo, hi, k, dl, dh, h2, c2, f)'
<1>1. /\ \A i \in lo .. hi : node'[at[i]] = node[at[i]]
      /\ \A u \in Threads : \A i \in dl[u] .. dh[u] : node'[at[i]] = node[at[i]]
  BY LiveNodes
<1> QED
  BY <1>1, OthersFrame

\* Steps of threads that are not active.
LEMMA PassiveFrame ==
  ASSUME NEW at, NEW lo, NEW hi, NEW k, NEW dl, NEW dh, NEW h, NEW c, NEW f,
         TypeOK, CallInv, OwnerInv, HolderInv, Inv(at, lo, hi, k, dl, dh, h, c, f),
         NEW t \in Threads, \A u \in Threads \ {t} : pc'[u] = pc[u] /\ loc'[u] = loc[u],
         ~Active(t), ~Active(t)',
         \A n \in Threads : ~node[n].completed => node'[n] = node[n],
         "QUEUED" \in word'.flags <=> "QUEUED" \in word.flags, "QUEUED" \in word.flags => word'.rest = word.rest,
         pc'[t] \notin {"split", "undo"}, pc[t] \notin {"split", "undo"}, SameCount
  PROVE  Inv(at, lo, hi, k, dl, dh, h, c, f)'
<1>1. \A i \in Nat : Live(lo, hi, dl, dh, i) => node'[at[i]] = node[at[i]]
  BY DEF Inv, NodeInv
<1>2. Taken(t, at, dl[t], dh[t], f[t], c[t])
  BY DEF Inv, TakenInv
<1>3. dl[t] > dh[t]
  BY <1>2 DEF Taken, Active
<1>4. Taken(t, at, dl[t], dh[t], f[t], c[t])'
  BY <1>3 DEF Taken, Active
<1>5. h \in [Threads -> Nat] /\ c \in [Threads -> Nat]
  BY DEF Inv
<1>6. ~Holds(t)' /\ ~Decrements(t)'
  BY DEF Active
<1> QED
  BY <1>1, <1>4, <1>5, <1>6, GhostFrame

-----------------------------------------------------------------------------
(***************************************************************************)
(* The queue: steps of threads that are not active                         *)
(***************************************************************************)
\* A thread that is not on its way over a queue does not change one.
LEMMA PassiveShape ==
  ASSUME IInv, NEW t \in Threads, \A u \in Threads \ {t} : pc'[u] = pc[u] /\ loc'[u] = loc[u],
         ~Active(t), ~Active(t)',
         \A n \in Threads : ~node[n].completed => node'[n] = node[n],
         "QUEUED" \in word'.flags <=> "QUEUED" \in word.flags, "QUEUED" \in word.flags => word'.rest = word.rest,
         pc'[t] \notin {"split", "undo"}, pc[t] \notin {"split", "undo"}, SameCount
  PROVE  Shaped'
<1>1. PICK at, lo, hi, k, dl, dh, h, c, f : Inv(at, lo, hi, k, dl, dh, h, c, f)
  BY DEF IInv, Shaped
<1>2. Inv(at, lo, hi, k, dl, dh, h, c, f)'
  BY <1>1, PassiveFrame DEF IInv
<1> QED
  BY <1>2 DEF Shaped

\* One lemma for each action: the queue keeps its shape.
LEMMA lock_shape ==
  ASSUME IInv, NEW t \in Threads, lock(t)
  PROVE  Shaped'
<1>0. TypeOK /\ CallInv /\ OwnerInv
  BY DEF IInv
<1>1. /\ \A u \in Threads \ {t} : pc'[u] = pc[u] /\ loc'[u] = loc[u]
      /\ pc[t] \in {"idle", "load", "attempt", "wait", "park", "reading", "writing", "unlock", "downgrade"}
      /\ pc'[t] \in {"idle", "load", "attempt", "wait", "park", "reading", "writing", "unlock", "downgrade"}
  BY <1>0, lock_does DEF Moves, held
<1>2. loc[t].caller = "none" /\ loc'[t].caller = "none"
  BY <1>0, <1>1, lock_does DEF LocalIs, CallInv, CallOK
<1>3. ~Active(t) /\ ~Active(t)'
  BY <1>1, <1>2 DEF Active, Holds, Decrements, Takes
<1>4. \A n \in Threads : ~node[n].completed => node'[n] = node[n]
  BY <1>0, lock_does
<1>5. ("QUEUED" \in word'.flags <=> "QUEUED" \in word.flags) /\ ("QUEUED" \in word.flags => word'.rest = word.rest)
  BY <1>0, lock_does DEF Lock, Lockable, S
<1>6. SameCount
  BY lock_owners
<1> QED
  BY <1>1, <1>2, <1>3, <1>4, <1>5, <1>6, PassiveShape

LEMMA load_shape ==
  ASSUME IInv, NEW t \in Threads, load(t)
  PROVE  Shaped'
<1>0. TypeOK /\ CallInv /\ OwnerInv
  BY DEF IInv
<1>1. /\ \A u \in Threads \ {t} : pc'[u] = pc[u] /\ loc'[u] = loc[u]
      /\ pc[t] \in {"idle", "load", "attempt", "wait", "park", "reading", "writing", "unlock", "downgrade"}
      /\ pc'[t] \in {"idle", "load", "attempt", "wait", "park", "reading", "writing", "unlock", "downgrade"}
  BY <1>0, load_does DEF Moves
<1>2. loc[t].caller = "none" /\ loc'[t].caller = "none"
  BY <1>0, <1>1, load_does DEF LocalIs, CallInv, CallOK
<1>3. ~Active(t) /\ ~Active(t)'
  BY <1>1, <1>2 DEF Active, Holds, Decrements, Takes
<1>4. \A n \in Threads : ~node[n].completed => node'[n] = node[n]
  BY <1>0, load_does
<1>5. ("QUEUED" \in word'.flags <=> "QUEUED" \in word.flags) /\ ("QUEUED" \in word.flags => word'.rest = word.rest)
  BY <1>0, load_does
<1>6. SameCount
  BY load_owners
<1> QED
  BY <1>1, <1>2, <1>3, <1>4, <1>5, <1>6, PassiveShape

LEMMA reload_shape ==
  ASSUME IInv, NEW t \in Threads, reload(t)
  PROVE  Shaped'
<1>0. TypeOK /\ CallInv /\ OwnerInv
  BY DEF IInv
<1>1. /\ \A u \in Threads \ {t} : pc'[u] = pc[u] /\ loc'[u] = loc[u]
      /\ pc[t] \in {"idle", "load", "attempt", "wait", "park", "reading", "writing", "unlock", "downgrade"}
      /\ pc'[t] \in {"idle", "load", "attempt", "wait", "park", "reading", "writing", "unlock", "downgrade"}
  BY <1>0, reload_does DEF Moves
<1>2. loc[t].caller = "none" /\ loc'[t].caller = "none"
  BY <1>0, <1>1, reload_does DEF LocalIs, CallInv, CallOK
<1>3. ~Active(t) /\ ~Active(t)'
  BY <1>1, <1>2 DEF Active, Holds, Decrements, Takes
<1>4. \A n \in Threads : ~node[n].completed => node'[n] = node[n]
  BY <1>0, reload_does
<1>5. ("QUEUED" \in word'.flags <=> "QUEUED" \in word.flags) /\ ("QUEUED" \in word.flags => word'.rest = word.rest)
  BY <1>0, reload_does
<1>6. SameCount
  BY reload_owners
<1> QED
  BY <1>1, <1>2, <1>3, <1>4, <1>5, <1>6, PassiveShape

LEMMA lock_contended_shape ==
  ASSUME IInv, NEW t \in Threads, lock_contended(t)
  PROVE  Shaped'
<1>0. TypeOK /\ CallInv /\ OwnerInv
  BY DEF IInv
<1>1. /\ \A u \in Threads \ {t} : pc'[u] = pc[u] /\ loc'[u] = loc[u]
      /\ pc[t] \in {"idle", "load", "attempt", "wait", "park", "reading", "writing", "unlock", "downgrade"}
      /\ pc'[t] \in {"idle", "load", "attempt", "wait", "park", "reading", "writing", "unlock", "downgrade"}
  BY <1>0, lock_contended_does DEF Moves, held
<1>2. loc[t].caller = "none" /\ loc'[t].caller = "none"
  BY <1>0, <1>1, lock_contended_does DEF LocalIs, CallInv, CallOK
<1>3. ~Active(t) /\ ~Active(t)'
  BY <1>1, <1>2 DEF Active, Holds, Decrements, Takes
<1>4. \A n \in Threads : ~node[n].completed => node'[n] = node[n]
  BY <1>0, lock_contended_does
<1>5. ("QUEUED" \in word'.flags <=> "QUEUED" \in word.flags) /\ ("QUEUED" \in word.flags => word'.rest = word.rest)
  BY <1>0, lock_contended_does DEF Lock, Lockable, S
<1>6. SameCount
  BY lock_contended_owners
<1> QED
  BY <1>1, <1>2, <1>3, <1>4, <1>5, <1>6, PassiveShape

LEMMA wait_shape ==
  ASSUME IInv, NEW t \in Threads, wait(t)
  PROVE  Shaped'
<1>0. TypeOK /\ CallInv /\ OwnerInv
  BY DEF IInv
<1>1. /\ \A u \in Threads \ {t} : pc'[u] = pc[u] /\ loc'[u] = loc[u]
      /\ pc[t] \in {"idle", "load", "attempt", "wait", "park", "reading", "writing", "unlock", "downgrade"}
      /\ pc'[t] \in {"idle", "load", "attempt", "wait", "park", "reading", "writing", "unlock", "downgrade"}
  BY <1>0, wait_does DEF Moves
<1>2. loc[t].caller = "none" /\ loc'[t].caller = "none"
  BY <1>0, <1>1, wait_does DEF LocalIs, CallInv, CallOK
<1>3. ~Active(t) /\ ~Active(t)'
  BY <1>1, <1>2 DEF Active, Holds, Decrements, Takes
<1>4. \A n \in Threads : ~node[n].completed => node'[n] = node[n]
  BY <1>0, wait_does DEF NodeIs
<1>5. ("QUEUED" \in word'.flags <=> "QUEUED" \in word.flags) /\ ("QUEUED" \in word.flags => word'.rest = word.rest)
  BY <1>0, wait_does
<1>6. SameCount
  BY wait_owners
<1> QED
  BY <1>1, <1>2, <1>3, <1>4, <1>5, <1>6, PassiveShape

LEMMA park_shape ==
  ASSUME IInv, NEW t \in Threads, park(t)
  PROVE  Shaped'
<1>0. TypeOK /\ CallInv /\ OwnerInv
  BY DEF IInv
<1>1. /\ \A u \in Threads \ {t} : pc'[u] = pc[u] /\ loc'[u] = loc[u]
      /\ pc[t] \in {"idle", "load", "attempt", "wait", "park", "reading", "writing", "unlock", "downgrade"}
      /\ pc'[t] \in {"idle", "load", "attempt", "wait", "park", "reading", "writing", "unlock", "downgrade"}
  BY <1>0, park_does DEF Moves
<1>2. loc[t].caller = "none" /\ loc'[t].caller = "none"
  BY <1>0, <1>1, park_does DEF LocalIs, CallInv, CallOK
<1>3. ~Active(t) /\ ~Active(t)'
  BY <1>1, <1>2 DEF Active, Holds, Decrements, Takes
<1>4. \A n \in Threads : ~node[n].completed => node'[n] = node[n]
  BY <1>0, park_does
<1>5. ("QUEUED" \in word'.flags <=> "QUEUED" \in word.flags) /\ ("QUEUED" \in word.flags => word'.rest = word.rest)
  BY <1>0, park_does
<1>6. SameCount
  BY park_owners
<1> QED
  BY <1>1, <1>2, <1>3, <1>4, <1>5, <1>6, PassiveShape

LEMMA park_spuriously_shape ==
  ASSUME IInv, NEW t \in Threads, park_spuriously(t)
  PROVE  Shaped'
<1>0. TypeOK /\ CallInv /\ OwnerInv
  BY DEF IInv
<1>1. /\ \A u \in Threads \ {t} : pc'[u] = pc[u] /\ loc'[u] = loc[u]
      /\ pc[t] \in {"idle", "load", "attempt", "wait", "park", "reading", "writing", "unlock", "downgrade"}
      /\ pc'[t] \in {"idle", "load", "attempt", "wait", "park", "reading", "writing", "unlock", "downgrade"}
  BY <1>0, park_spuriously_does DEF Moves
<1>2. loc[t].caller = "none" /\ loc'[t].caller = "none"
  BY <1>0, <1>1, park_spuriously_does DEF LocalIs, CallInv, CallOK
<1>3. ~Active(t) /\ ~Active(t)'
  BY <1>1, <1>2 DEF Active, Holds, Decrements, Takes
<1>4. \A n \in Threads : ~node[n].completed => node'[n] = node[n]
  BY <1>0, park_spuriously_does
<1>5. ("QUEUED" \in word'.flags <=> "QUEUED" \in word.flags) /\ ("QUEUED" \in word.flags => word'.rest = word.rest)
  BY <1>0, park_spuriously_does
<1>6. SameCount
  BY park_spuriously_owners
<1> QED
  BY <1>1, <1>2, <1>3, <1>4, <1>5, <1>6, PassiveShape

LEMMA write_unlock_shape ==
  ASSUME IInv, NEW t \in Threads, write_unlock(t)
  PROVE  Shaped'
<1>0. TypeOK /\ CallInv /\ OwnerInv
  BY DEF IInv
<1>1. /\ \A u \in Threads \ {t} : pc'[u] = pc[u] /\ loc'[u] = loc[u]
      /\ pc[t] \in {"idle", "load", "attempt", "wait", "park", "reading", "writing", "unlock", "downgrade"}
      /\ pc'[t] \in {"idle", "load", "attempt", "wait", "park", "reading", "writing", "unlock", "downgrade"}
  BY <1>0, write_unlock_does DEF Moves
<1>2. loc[t].caller = "none" /\ loc'[t].caller = "none"
  BY <1>0, <1>1, write_unlock_does DEF LocalIs, CallInv, CallOK
<1>3. ~Active(t) /\ ~Active(t)'
  BY <1>1, <1>2 DEF Active, Holds, Decrements, Takes
<1>4. \A n \in Threads : ~node[n].completed => node'[n] = node[n]
  BY <1>0, write_unlock_does
<1>5. ("QUEUED" \in word'.flags <=> "QUEUED" \in word.flags) /\ ("QUEUED" \in word.flags => word'.rest = word.rest)
  BY <1>0, write_unlock_does DEF S, UNLOCKED
<1>6. SameCount
  BY write_unlock_owners
<1> QED
  BY <1>1, <1>2, <1>3, <1>4, <1>5, <1>6, PassiveShape

LEMMA reunlock_shape ==
  ASSUME IInv, NEW t \in Threads, reunlock(t)
  PROVE  Shaped'
<1>0. TypeOK /\ CallInv /\ OwnerInv
  BY DEF IInv
<1>1. /\ \A u \in Threads \ {t} : pc'[u] = pc[u] /\ loc'[u] = loc[u]
      /\ pc[t] \in {"idle", "load", "attempt", "wait", "park", "reading", "writing", "unlock", "downgrade"}
      /\ pc'[t] \in {"idle", "load", "attempt", "wait", "park", "reading", "writing", "unlock", "downgrade"}
  BY <1>0, reunlock_does DEF Moves
<1>2. loc[t].caller = "none" /\ loc'[t].caller = "none"
  BY <1>0, <1>1, reunlock_does DEF LocalIs, CallInv, CallOK
<1>3. ~Active(t) /\ ~Active(t)'
  BY <1>1, <1>2 DEF Active, Holds, Decrements, Takes
<1>4. \A n \in Threads : ~node[n].completed => node'[n] = node[n]
  BY <1>0, reunlock_does
<1>5. ("QUEUED" \in word'.flags <=> "QUEUED" \in word.flags) /\ ("QUEUED" \in word.flags => word'.rest = word.rest)
  BY <1>0, reunlock_does
<1>6. SameCount
  BY reunlock_owners
<1> QED
  BY <1>1, <1>2, <1>3, <1>4, <1>5, <1>6, PassiveShape

LEMMA downgrade_shape ==
  ASSUME IInv, NEW t \in Threads, downgrade(t)
  PROVE  Shaped'
<1>0. TypeOK /\ CallInv /\ OwnerInv
  BY DEF IInv
<1>1. /\ \A u \in Threads \ {t} : pc'[u] = pc[u] /\ loc'[u] = loc[u]
      /\ pc[t] \in {"idle", "load", "attempt", "wait", "park", "reading", "writing", "unlock", "downgrade"}
      /\ pc'[t] \in {"idle", "load", "attempt", "wait", "park", "reading", "writing", "unlock", "downgrade"}
  BY <1>0, downgrade_does DEF Moves
<1>2. loc[t].caller = "none" /\ loc'[t].caller = "none"
  BY <1>0, <1>1, downgrade_does DEF LocalIs, CallInv, CallOK
<1>3. ~Active(t) /\ ~Active(t)'
  BY <1>1, <1>2 DEF Active, Holds, Decrements, Takes
<1>4. \A n \in Threads : ~node[n].completed => node'[n] = node[n]
  BY <1>0, downgrade_does
<1>5. ("QUEUED" \in word'.flags <=> "QUEUED" \in word.flags) /\ ("QUEUED" \in word.flags => word'.rest = word.rest)
  BY <1>0, downgrade_does DEF S
<1>6. SameCount
  BY downgrade_owners
<1> QED
  BY <1>1, <1>2, <1>3, <1>4, <1>5, <1>6, PassiveShape

LEMMA redowngrade_shape ==
  ASSUME IInv, NEW t \in Threads, redowngrade(t)
  PROVE  Shaped'
<1>0. TypeOK /\ CallInv /\ OwnerInv
  BY DEF IInv
<1>1. /\ \A u \in Threads \ {t} : pc'[u] = pc[u] /\ loc'[u] = loc[u]
      /\ pc[t] \in {"idle", "load", "attempt", "wait", "park", "reading", "writing", "unlock", "downgrade"}
      /\ pc'[t] \in {"idle", "load", "attempt", "wait", "park", "reading", "writing", "unlock", "downgrade"}
  BY <1>0, redowngrade_does DEF Moves
<1>2. loc[t].caller = "none" /\ loc'[t].caller = "none"
  BY <1>0, <1>1, redowngrade_does DEF LocalIs, CallInv, CallOK
<1>3. ~Active(t) /\ ~Active(t)'
  BY <1>1, <1>2 DEF Active, Holds, Decrements, Takes
<1>4. \A n \in Threads : ~node[n].completed => node'[n] = node[n]
  BY <1>0, redowngrade_does
<1>5. ("QUEUED" \in word'.flags <=> "QUEUED" \in word.flags) /\ ("QUEUED" \in word.flags => word'.rest = word.rest)
  BY <1>0, redowngrade_does
<1>6. SameCount
  BY redowngrade_owners
<1> QED
  BY <1>1, <1>2, <1>3, <1>4, <1>5, <1>6, PassiveShape

-----------------------------------------------------------------------------
(***************************************************************************)
(* The queue: steps that change no link                                    *)
(***************************************************************************)
\* A thread that neither completes nodes nor is about to has taken none.
LEMMA TakesNone ==
  ASSUME NEW at, NEW lo, NEW hi, NEW k, NEW dl, NEW dh, NEW h, NEW c, NEW f,
         Inv(at, lo, hi, k, dl, dh, h, c, f), NEW t \in Threads,
         ~Takes(t), pc[t] \notin {"complete", "complete_all", "unpark"}
  PROVE  dl[t] > dh[t] /\ dl[t] \in Nat /\ dh[t] \in Nat
BY DEF Inv, TakenInv, Taken

\* A walk starts at the head.
LEMMA StartWalk ==
  ASSUME IInv, NEW t \in Threads, \A u \in Threads \ {t} : pc'[u] = pc[u] /\ loc'[u] = loc[u],
         ~Takes(t), pc[t] \notin {"complete", "complete_all", "unpark", "split", "undo"}, node' = node, SameCount,
         "QUEUED" \in word.flags, "QUEUED" \in word'.flags, word'.rest = word.rest,
         pc'[t] = "find", loc'[t].state.rest = word.rest, loc'[t].current = word.rest, ~Takes(t)'
  PROVE  Shaped'
<1>0. TypeOK /\ CallInv /\ OwnerInv /\ HolderInv
  BY DEF IInv
<1>1. PICK at, lo, hi, k, dl, dh, h, c, f : Inv(at, lo, hi, k, dl, dh, h, c, f)
  BY DEF IInv, Shaped
<1> DEFINE h2 == [h EXCEPT ![t] = hi]
           c2 == [c EXCEPT ![t] = hi]
<1>2. h \in [Threads -> Nat] /\ c \in [Threads -> Nat] /\ hi \in Nat /\ word.rest = at[hi]
  BY <1>1 DEF Inv, QueueInv
<1>3. /\ h2 \in [Threads -> Nat] /\ c2 \in [Threads -> Nat] /\ h2[t] = hi /\ c2[t] = hi
      /\ \A u \in Threads \ {t} : h2[u] = h[u] /\ c2[u] = c[u]
  BY <1>2
<1> HIDE DEF h2, c2
<1>4. k <= hi /\ k \in Nat /\ node[at[hi]].prev = null
  BY <1>0, <1>1, MainQueue DEF Linked
<1>5. Walk(t, at, lo, k, h2[t], c2[t])'
  <2>1. Back(at, hi, hi)'
    BY <1>2 DEF Back
  <2> QED
    BY <1>2, <1>3, <1>4, <2>1 DEF Walk
<1>6. Holder(t, at, lo, hi, k, h2[t])'
  BY <1>2, <1>3, <1>4 DEF Holder
<1>7. Taken(t, at, dl[t], dh[t], f[t], c2[t])'
  BY <1>1, TakesNone DEF Taken
<1>8. Inv(at, lo, hi, k, dl, dh, h2, c2, f)'
  BY <1>0, <1>1, <1>2, <1>3, <1>5, <1>6, <1>7, GhostFrame
<1> QED
  BY <1>8 DEF Shaped

LEMMA read_unlock_shape ==
  ASSUME IInv, NEW t \in Threads, read_unlock(t)
  PROVE  Shaped'
<1>0. TypeOK /\ CallInv
  BY DEF IInv
<1>1. /\ \A u \in Threads \ {t} : pc'[u] = pc[u] /\ loc'[u] = loc[u]
      /\ pc[t] = "reading" /\ loc[t].caller = "none" /\ node' = node
  BY <1>0, read_unlock_does DEF Moves, CallInv, CallOK
<1>2. SameCount
  BY read_unlock_owners
<1>3. ~Active(t) /\ ~Takes(t)
  BY <1>1 DEF Active, Holds, Decrements, Takes
<1>4. CASE pc'[t] = "idle" /\ loc'[t] = loc[t]
  <2>1. ~Active(t)'
    BY <1>1, <1>4 DEF Active, Holds, Decrements, Takes
  <2>2. ("QUEUED" \in word'.flags <=> "QUEUED" \in word.flags) /\ ("QUEUED" \in word.flags => word'.rest = word.rest)
    BY <1>0, <1>4, read_unlock_does DEF Moves, S, UNLOCKED
  <2> QED
    BY <1>1, <1>2, <1>3, <1>4, <2>1, <2>2, PassiveShape
<1>5. CASE pc'[t] = "find"
  <2>1. "QUEUED" \in word.flags /\ word' = word /\ LocalIs(t, word, word.rest, null, null, "read_unlock")
    BY <1>0, <1>5, read_unlock_does DEF Moves
  <2>2. ~Takes(t)'
    BY <2>1 DEF Takes, LocalIs
  <2> QED
    BY <1>1, <1>2, <1>3, <1>5, <2>1, <2>2, StartWalk DEF LocalIs
<1> QED
  BY <1>0, <1>4, <1>5, read_unlock_does DEF Moves

LEMMA unlock_contended_shape ==
  ASSUME IInv, NEW t \in Threads, unlock_contended(t)
  PROVE  Shaped'
<1>0. TypeOK /\ CallInv
  BY DEF IInv
<1>1. /\ \A u \in Threads \ {t} : pc'[u] = pc[u] /\ loc'[u] = loc[u]
      /\ pc[t] = "unlock" /\ loc[t].caller = "none" /\ node' = node
      /\ word' = S((word.flags \ {"LOCKED"}) \cup {"QUEUE_LOCKED"}, word.rest)
  BY <1>0, unlock_contended_does DEF Moves, CallInv, CallOK
<1>2. SameCount
  BY unlock_contended_owners
<1>3. ~Active(t) /\ ~Takes(t)
  BY <1>1 DEF Active, Holds, Decrements, Takes
<1>4. "QUEUED" \in word.flags /\ "QUEUED" \in word'.flags /\ word'.rest = word.rest
  BY <1>1, StepNodes DEF S
<1>5. CASE pc'[t] = "idle" /\ LocalIs(t, UNLOCKED, null, null, null, "none")
  <2>1. ~Active(t)'
    BY <1>1, <1>5 DEF Active, Holds, Decrements, Takes, LocalIs
  <2> QED
    BY <1>1, <1>2, <1>3, <1>4, <1>5, <2>1, PassiveShape
<1>6. CASE pc'[t] = "find" /\ LocalIs(t, word', word.rest, null, null, "unlock")
  <2>1. ~Takes(t)'
    BY <1>6 DEF Takes, LocalIs
  <2> QED
    BY <1>1, <1>2, <1>3, <1>4, <1>6, <2>1, StartWalk DEF LocalIs
<1> QED
  BY <1>0, <1>5, <1>6, unlock_contended_does DEF Moves

LEMMA requeue_shape ==
  ASSUME IInv, NEW t \in Threads, requeue(t)
  PROVE  Shaped'
<1>0. TypeOK /\ CallInv
  BY DEF IInv
<1>1. /\ \A u \in Threads \ {t} : pc'[u] = pc[u] /\ loc'[u] = loc[u]
      /\ pc[t] = "unlock_queue" /\ pc'[t] = "find" /\ loc[t].caller \in {"lock", "unlock"} /\ node' = node /\ word' = word
      /\ LocalIs(t, word, word.rest, null, null, loc[t].caller)
  BY <1>0, requeue_does DEF Moves, CallInv, CallOK
<1>2. SameCount
  BY requeue_owners
<1>3. ~Takes(t) /\ ~Takes(t)'
  BY <1>1 DEF Takes, LocalIs
<1>4. "QUEUED" \in word.flags
  BY <1>1, StepNodes
<1> QED
  BY <1>1, <1>2, <1>3, <1>4, StartWalk DEF LocalIs

LEMMA release_queue_shape ==
  ASSUME IInv, NEW t \in Threads, release_queue(t)
  PROVE  Shaped'
<1>0. TypeOK /\ CallInv /\ OwnerInv /\ HolderInv
  BY DEF IInv
<1>1. PICK at, lo, hi, k, dl, dh, h, c, f : Inv(at, lo, hi, k, dl, dh, h, c, f)
  BY DEF IInv, Shaped
<1>2. /\ \A u \in Threads \ {t} : pc'[u] = pc[u] /\ loc'[u] = loc[u]
      /\ pc[t] = "unlock_queue" /\ loc[t].caller \in {"lock", "unlock"} /\ node' = node
      /\ word' = S(word.flags \ {"QUEUE_LOCKED"}, word.rest)
      /\ LocalIs(t, UNLOCKED, null, null, null, "none")
      /\ pc'[t] = Return[loc[t].caller]
  BY <1>0, release_queue_does DEF Moves, CallInv, CallOK
<1>a. pc'[t] \in {"wait", "idle"}
  BY <1>2 DEF Return
<1>3. SameCount
  BY release_queue_owners
<1>4. ~Takes(t) /\ ~Holds(t)' /\ ~Decrements(t)' /\ ~Takes(t)'
  BY <1>2, <1>a DEF Takes, Holds, Decrements, LocalIs
<1>5. Taken(t, at, dl[t], dh[t], f[t], c[t])'
  BY <1>1, <1>2, <1>a, <1>4, TakesNone DEF Taken
<1>6. ("QUEUED" \in word'.flags <=> "QUEUED" \in word.flags) /\ word'.rest = word.rest
  BY <1>2 DEF S
<1>7. h \in [Threads -> Nat] /\ c \in [Threads -> Nat]
  BY <1>1 DEF Inv
<1>8. Inv(at, lo, hi, k, dl, dh, h, c, f)'
  BY <1>0, <1>1, <1>2, <1>a, <1>3, <1>4, <1>5, <1>6, <1>7, GhostFrame
<1> QED
  BY <1>8 DEF Shaped

LEMMA split_fail_shape ==
  ASSUME IInv, NEW t \in Threads, split_fail(t)
  PROVE  Shaped'
<1>0. TypeOK /\ CallInv /\ OwnerInv /\ HolderInv
  BY DEF IInv
<1>1. PICK at, lo, hi, k, dl, dh, h, c, f : Inv(at, lo, hi, k, dl, dh, h, c, f)
  BY DEF IInv, Shaped
<1>2. /\ \A u \in Threads \ {t} : pc'[u] = pc[u] /\ loc'[u] = loc[u]
      /\ pc[t] = "split" /\ pc'[t] = "undo" /\ loc[t].caller \in {"lock", "unlock"} /\ node' = node /\ word' = word
      /\ LocalIs(t, word, loc[t].current, loc[t].prev, loc[t].tail, loc[t].caller)
  BY <1>0, split_fail_does DEF Moves, CallInv, CallOK
<1>3. SameCount
  BY split_fail_owners
<1>4. ~Takes(t) /\ Holds(t) /\ ~Takes(t)'
  BY <1>2 DEF Takes, Holds, LocalIs
<1> DEFINE h2 == [h EXCEPT ![t] = hi]
           c2 == [c EXCEPT ![t] = hi]
<1>5. "QUEUED" \in word.flags /\ Walk(t, at, lo, k, h[t], c[t]) /\ Holder(t, at, lo, hi, k, h[t])
  BY <1>0, <1>1, <1>4, MainWalk DEF Inv, WalkInv
<1>6. h \in [Threads -> Nat] /\ c \in [Threads -> Nat] /\ hi \in Nat /\ word.rest = at[hi]
  BY <1>1, <1>5 DEF Inv, QueueInv
<1>7. /\ h2 \in [Threads -> Nat] /\ c2 \in [Threads -> Nat] /\ h2[t] = hi /\ c2[t] = hi
      /\ \A u \in Threads \ {t} : h2[u] = h[u] /\ c2[u] = c[u]
  BY <1>6
<1> HIDE DEF h2, c2
<1>8. k <= hi /\ k \in Nat /\ node[at[hi]].prev = null
  BY <1>0, <1>1, <1>5, MainQueue DEF Linked
<1>9. Walk(t, at, lo, k, h2[t], c2[t])'
  BY <1>2, <1>5, <1>6, <1>7, <1>8 DEF Walk, LocalIs
<1>10. Holder(t, at, lo, hi, k, h2[t])'
  BY <1>2, <1>5, <1>6, <1>7, <1>8 DEF Holder, LocalIs
<1>11. Taken(t, at, dl[t], dh[t], f[t], c2[t])'
  BY <1>1, <1>2, <1>4, TakesNone DEF Taken
<1>12. Inv(at, lo, hi, k, dl, dh, h2, c2, f)'
  BY <1>0, <1>1, <1>2, <1>3, <1>6, <1>7, <1>9, <1>10, <1>11, GhostFrame
<1> QED
  BY <1>12 DEF Shaped

LEMMA unpark_shape ==
  ASSUME IInv, NEW t \in Threads, unpark(t)
  PROVE  Shaped'
<1>0. TypeOK /\ CallInv /\ OwnerInv /\ HolderInv
  BY DEF IInv
<1>1. PICK at, lo, hi, k, dl, dh, h, c, f : Inv(at, lo, hi, k, dl, dh, h, c, f)
  BY DEF IInv, Shaped
<1>2. /\ \A u \in Threads \ {t} : pc'[u] = pc[u] /\ loc'[u] = loc[u]
      /\ pc[t] = "unpark" /\ loc[t].caller \in {"lock", "unlock", "downgrade"} /\ node' = node /\ word' = word
  BY <1>0, unpark_does DEF Moves, CallInv, CallOK
<1>3. SameCount
  BY unpark_owners
<1>4. Taken(t, at, dl[t], dh[t], f[t], c[t]) /\ dl[t] \in Nat /\ dh[t] \in Nat
  BY <1>1 DEF Inv, TakenInv
<1>5. h \in [Threads -> Nat] /\ c \in [Threads -> Nat]
  BY <1>1 DEF Inv
<1>6. ~Takes(t)
  BY <1>2 DEF Takes
<1>7. dl[t] <= dh[t] => at[dl[t]] # null
  BY <1>1, <1>4, LiveNodes, NoNull DEF Registered
<1>8. CASE loc[t].prev = null /\ LocalIs(t, UNLOCKED, null, null, null, "none") /\ pc'[t] = Return[loc[t].caller]
  <2>1. pc'[t] \in {"wait", "idle", "reading"} /\ loc'[t].caller = "none"
    BY <1>2, <1>8 DEF Return, LocalIs
  <2>2. dl[t] > dh[t]
    BY <1>2, <1>4, <1>7, <1>8 DEF Taken
  <2>3. ~Holds(t)' /\ ~Decrements(t)' /\ ~Takes(t)'
    BY <2>1 DEF Holds, Decrements, Takes
  <2>4. Taken(t, at, dl[t], dh[t], f[t], c[t])'
    BY <2>1, <2>2, <2>3 DEF Taken
  <2>5. Inv(at, lo, hi, k, dl, dh, h, c, f)'
    BY <1>0, <1>1, <1>2, <1>3, <1>5, <2>1, <2>3, <2>4, GhostFrame
  <2> QED
    BY <2>5 DEF Shaped
<1>9. CASE loc[t].prev # null /\ LocalIs(t, loc[t].state, loc[t].prev, null, loc[t].tail, loc[t].caller) /\ pc'[t] = "complete_all"
  <2>1. dl[t] <= dh[t] /\ loc'[t].current = at[dl[t]]
    BY <1>2, <1>4, <1>9 DEF Taken, LocalIs
  <2>2. ~Holds(t)' /\ ~Decrements(t)' /\ ~Takes(t)'
    BY <1>2, <1>9 DEF Holds, Decrements, Takes, LocalIs
  <2>3. Back(at, dl[t], dh[t])' <=> Back(at, dl[t], dh[t])
    BY <1>2 DEF Back
  <2>4. Taken(t, at, dl[t], dh[t], f[t], c[t])'
    BY <1>2, <1>4, <1>9, <2>1, <2>2, <2>3 DEF Taken
  <2>5. Inv(at, lo, hi, k, dl, dh, h, c, f)'
    BY <1>0, <1>1, <1>2, <1>3, <1>5, <1>9, <2>2, <2>4, GhostFrame
  <2> QED
    BY <2>5 DEF Shaped
<1> QED
  BY <1>0, <1>8, <1>9, unpark_does DEF Moves

-----------------------------------------------------------------------------
(***************************************************************************)
(* The queue: steps that change a link                                     *)
(***************************************************************************)
\* The nodes in use are different nodes.
LEMMA MainNode ==
  ASSUME NEW at, NEW lo, NEW hi, NEW k, NEW dl, NEW dh, NEW h, NEW c, NEW f,
         Inv(at, lo, hi, k, dl, dh, h, c, f), NEW j \in lo .. hi,
         \A n \in Threads \ {at[j]} : node'[n] = node[n]
  PROVE  /\ \A i \in lo .. hi : i # j => at[i] # at[j] /\ node'[at[i]] = node[at[i]]
         /\ \A u \in Threads : \A i \in dl[u] .. dh[u] : node'[at[i]] = node[at[i]]
<1>1. /\ \A i \in lo .. hi : i \in Nat /\ Live(lo, hi, dl, dh, i) /\ at[i] \in Threads
      /\ \A u \in Threads : \A i \in dl[u] .. dh[u] : i \in Nat /\ Live(lo, hi, dl, dh, i) /\ at[i] \in Threads
  BY LiveNodes DEF Registered
<1>2. \A i \in Nat : Live(lo, hi, dl, dh, i) /\ i # j => at[i] # at[j]
  BY <1>1 DEF Inv, NodeInv
<1>3. \A u \in Threads : \A i \in dl[u] .. dh[u] : i # j
  BY DEF Inv, NodeInv
<1> QED
  BY <1>1, <1>2, <1>3

\* Nor is one that was taken a node of another interval.
LEMMA TakenNode ==
  ASSUME NEW at, NEW lo, NEW hi, NEW k, NEW dl, NEW dh, NEW h, NEW c, NEW f,
         Inv(at, lo, hi, k, dl, dh, h, c, f), NEW t \in Threads, NEW j \in dl[t] .. dh[t],
         \A n \in Threads \ {at[j]} : node'[n] = node[n]
  PROVE  /\ \A i \in lo .. hi : node'[at[i]] = node[at[i]]
         /\ \A u \in Threads \ {t} : \A i \in dl[u] .. dh[u] : node'[at[i]] = node[at[i]]
         /\ \A i \in dl[t] .. dh[t] : i # j => at[i] # at[j] /\ node'[at[i]] = node[at[i]]
<1>1. /\ \A i \in lo .. hi : i \in Nat /\ Live(lo, hi, dl, dh, i) /\ at[i] \in Threads
      /\ \A u \in Threads : \A i \in dl[u] .. dh[u] : i \in Nat /\ Live(lo, hi, dl, dh, i) /\ at[i] \in Threads
  BY LiveNodes DEF Registered
<1>2. \A i \in Nat : Live(lo, hi, dl, dh, i) /\ i # j => at[i] # at[j]
  BY <1>1 DEF Inv, NodeInv
<1>3. \A i \in lo .. hi : i # j
  BY DEF Inv, NodeInv
<1>4. ASSUME NEW u \in Threads \ {t}, NEW i \in dl[u] .. dh[u] PROVE i # j
  <2>1. i \in Nat /\ j \in Nat /\ dl[u] <= i /\ i <= dh[u] /\ dl[t] <= j /\ j <= dh[t]
    BY <1>1 DEF Inv
  <2> QED
    BY <2>1 DEF Inv, NodeInv
<1> QED
  BY <1>1, <1>2, <1>3, <1>4

\* A walk adds the back link of node c - 1.
LEMMA AddBack ==
  ASSUME NEW at, NEW l \in Nat, NEW k \in Nat, NEW u \in Nat, NEW e, NEW c \in Nat, l + 1 <= c, c <= u,
         Linked(at, l, k, u, e),
         \A i \in l .. u : i # c - 1 => node'[at[i]] = node[at[i]],
         /\ node'[at[c - 1]].next = node[at[c - 1]].next /\ node'[at[c - 1]].prev = at[c]
         /\ node'[at[c - 1]].tail = node[at[c - 1]].tail
  PROVE  /\ Linked(at, l, k, u, e)'
         /\ \A i, j \in Nat : l <= i /\ j <= u /\ Back(at, i, j) => Back(at, i, j)'
         /\ \A j \in Nat : j <= u /\ Back(at, c, j) => Back(at, c - 1, j)'
<1>1. l <= k /\ k <= u /\ c - 1 \in l .. u
  BY DEF Linked
<1>2. \A i \in l .. u : /\ node'[at[i]].next = node[at[i]].next /\ node'[at[i]].tail = node[at[i]].tail
                        /\ node'[at[i]].prev = IF i = c - 1 THEN at[c] ELSE node[at[i]].prev
  OBVIOUS
<1>3. ASSUME NEW i \in Nat, NEW j \in Nat, l <= i, j <= u, Back(at, i, j) PROVE Back(at, i, j)'
  <2>1. ASSUME NEW m \in i .. j - 1 PROVE node'[at[m]].prev = at[m + 1]
    <3>1. m \in l .. u /\ node[at[m]].prev = at[m + 1]
      BY <1>3 DEF Back
    <3>2. m = c - 1 => at[c] = at[m + 1]
      BY <3>1
    <3> QED
      BY <1>2, <3>1, <3>2
  <2> QED
    BY <2>1 DEF Back
<1>4. ASSUME NEW j \in Nat, j <= u, Back(at, c, j) PROVE Back(at, c - 1, j)'
  <2>1. Back(at, c, j)'
    BY <1>3, <1>4
  <2>2. ASSUME NEW m \in (c - 1) .. j - 1 PROVE node'[at[m]].prev = at[m + 1]
    <3>1. CASE m = c - 1
      <4>1. node'[at[m]].prev = at[c] /\ m + 1 = c
        BY <3>1
      <4> QED
        BY <4>1
    <3>2. CASE m # c - 1
      <4>1. m \in c .. j - 1
        BY <3>2
      <4> QED
        BY <2>1, <4>1 DEF Back
    <3> QED
      BY <3>1, <3>2
  <2> QED
    BY <2>2 DEF Back
<1>5. ASSUME NEW i \in l + 1 .. u PROVE node'[at[i]].next = at[i - 1]
  <2>1. i \in l .. u
    OBVIOUS
  <2> QED
    BY <1>2, <2>1 DEF Linked
<1>6. k \in l .. u /\ u \in l .. u /\ u # c - 1
  BY <1>1
<1>7. node'[at[k]].tail = e /\ node'[at[u]].prev = null
  BY <1>2, <1>6 DEF Linked
<1>8. ASSUME NEW i \in k .. u, node'[at[i]].tail # null PROVE node'[at[i]].tail = e /\ Back(at, l, i)'
  <2>1. i \in l .. u /\ i \in Nat /\ i <= u
    BY <1>1
  <2>2. node[at[i]].tail = node'[at[i]].tail
    BY <1>2, <2>1
  <2>3. node[at[i]].tail = e /\ Back(at, l, i)
    BY <1>8, <2>2 DEF Linked
  <2> QED
    BY <1>3, <2>1, <2>2, <2>3
<1>9. ASSUME NEW i \in l .. u - 1 PROVE node'[at[i]].prev \in {null, at[i + 1]}
  <2>1. i \in l .. u /\ node[at[i]].prev \in {null, at[i + 1]}
    BY DEF Linked
  <2>2. i = c - 1 => at[c] = at[i + 1]
    OBVIOUS
  <2> QED
    BY <1>2, <2>1, <2>2
<1>10. Linked(at, l, k, u, e)'
  BY <1>1, <1>5, <1>7, <1>8, <1>9 DEF Linked
<1> QED
  BY <1>3, <1>4, <1>10

\* A walk ends at a node that knows the tail.
LEMMA FindsTail ==
  ASSUME NEW at, NEW l \in Nat, NEW k \in Nat, NEW u \in Nat, NEW e, NEW c \in Nat, NEW h \in Nat,
         Linked(at, l, k, u, e), k <= c, c <= h, h <= u, Back(at, c, h), node[at[c]].tail # null
  PROVE  node[at[c]].tail = e /\ Back(at, l, h)
<1>1. c \in k .. u
  OBVIOUS
<1>2. node[at[c]].tail = e /\ Back(at, l, c)
  BY <1>1 DEF Linked
<1>3. ASSUME NEW m \in l .. h - 1 PROVE node[at[m]].prev = at[m + 1]
  <2>1. m \in l .. c - 1 \/ m \in c .. h - 1
    OBVIOUS
  <2> QED
    BY <1>2, <2>1 DEF Back
<1> QED
  BY <1>2, <1>3 DEF Back

\* A walk tells its head of the tail.
LEMMA SetTail ==
  ASSUME NEW at, NEW l \in Nat, NEW k \in Nat, NEW u \in Nat, NEW e, NEW j \in Nat, k <= j, j <= u,
         Linked(at, l, k, u, e), Back(at, l, j),
         \A i \in l .. u : i # j => node'[at[i]] = node[at[i]],
         /\ node'[at[j]].next = node[at[j]].next /\ node'[at[j]].prev = node[at[j]].prev
         /\ node'[at[j]].tail = e
  PROVE  /\ Linked(at, l, k, u, e)'
         /\ \A i, m \in Nat : l <= i /\ m <= u => (Back(at, i, m)' <=> Back(at, i, m))
<1>1. l <= k /\ k <= u /\ j \in l .. u
  BY DEF Linked
<1>2. \A i \in l .. u : /\ node'[at[i]].next = node[at[i]].next /\ node'[at[i]].prev = node[at[i]].prev
                        /\ node'[at[i]].tail = IF i = j THEN e ELSE node[at[i]].tail
  OBVIOUS
<1>3. ASSUME NEW i \in Nat, NEW m \in Nat, l <= i, m <= u PROVE Back(at, i, m)' <=> Back(at, i, m)
  <2>1. \A q \in i .. m - 1 : q \in l .. u
    BY <1>3
  <2> QED
    BY <1>2, <2>1, SameBack
<1>4. ASSUME NEW i \in l + 1 .. u PROVE node'[at[i]].next = at[i - 1]
  <2>1. i \in l .. u
    OBVIOUS
  <2> QED
    BY <1>2, <2>1 DEF Linked
<1>5. k \in l .. u /\ u \in l .. u
  BY <1>1
<1>6. node'[at[k]].tail = e /\ node'[at[u]].prev = null
  BY <1>2, <1>5 DEF Linked
<1>7. ASSUME NEW i \in k .. u, node'[at[i]].tail # null PROVE node'[at[i]].tail = e /\ Back(at, l, i)'
  <2>1. i \in l .. u /\ i \in Nat /\ i <= u
    BY <1>1
  <2>2. CASE i = j
    BY <1>2, <1>3, <2>1, <2>2
  <2>3. CASE i # j
    <3>1. node[at[i]].tail = node'[at[i]].tail
      BY <1>2, <2>1, <2>3
    <3>2. node[at[i]].tail = e /\ Back(at, l, i)
      BY <1>7, <3>1 DEF Linked
    <3> QED
      BY <1>3, <2>1, <3>1, <3>2
  <2> QED
    BY <2>2, <2>3
<1>8. ASSUME NEW i \in l .. u - 1 PROVE node'[at[i]].prev \in {null, at[i + 1]}
  <2>1. i \in l .. u /\ node[at[i]].prev \in {null, at[i + 1]}
    BY DEF Linked
  <2> QED
    BY <1>2, <2>1
<1>9. Linked(at, l, k, u, e)'
  BY <1>1, <1>4, <1>6, <1>7, <1>8 DEF Linked
<1> QED
  BY <1>3, <1>9

\* While t adds links, whoever else has the queue lock has seen an owner.
LEMMA OtherHolders ==
  ASSUME TypeOK, CallInv, OwnerInv, HolderInv, NEW t \in Threads, Holds(t) \/ Decrements(t)
  PROVE  /\ \A u \in Threads \ {t} : Holds(u) => LockedBy(loc[u].state) /\ pc[u] \notin {"split", "undo"} /\ Counted
         /\ Splitting => pc[t] \in {"split", "undo"}
         /\ Holds(t) /\ ~Counted => \A u \in Threads \ {t} : ~Holds(u) /\ ~Decrements(u)
<1>1. ASSUME NEW u \in Threads \ {t}, Holds(u)
      PROVE  LockedBy(loc[u].state) /\ pc[u] \notin {"split", "undo"} /\ Counted
  <2>1. Decrements(t)
    BY <1>1 DEF HolderInv
  <2>2. Counted
    BY <2>1, WordOfOwners
  <2> QED
    BY <1>1, <2>2 DEF HolderInv
<1>2. ASSUME Splitting PROVE pc[t] \in {"split", "undo"}
  <2>1. PICK u \in Threads : pc[u] \in {"split", "undo"}
    BY <1>2 DEF Splitting
  <2>2. Holds(u)
    BY <2>1 DEF CallInv, CallOK, Holds
  <2> QED
    BY <1>1, <2>1, <2>2
<1>3. ASSUME Holds(t), ~Counted, NEW u \in Threads \ {t} PROVE ~Holds(u) /\ ~Decrements(u)
  BY <1>1, <1>3, WordOfOwners
<1> QED
  BY <1>1, <1>2, <1>3

\* Steps that change one node of the queue of the word.
LEMMA MainFrame ==
  ASSUME NEW at, NEW lo, NEW hi, NEW k, NEW dl, NEW dh, NEW h, NEW c, NEW f, NEW k2, NEW h2, NEW c2,
         TypeOK, CallInv, OwnerInv, HolderInv, Inv(at, lo, hi, k, dl, dh, h, c, f),
         NEW t \in Threads, \A u \in Threads \ {t} : pc'[u] = pc[u] /\ loc'[u] = loc[u], Holds(t) \/ Decrements(t),
         k2 \in Nat, k2 = k \/ \A u \in Threads \ {t} : ~Holds(u) /\ ~Decrements(u),
         h2 \in [Threads -> Nat], c2 \in [Threads -> Nat], \A u \in Threads \ {t} : h2[u] = h[u] /\ c2[u] = c[u],
         NEW j \in lo .. hi, \A n \in Threads \ {at[j]} : node'[n] = node[n],
         node'[at[j]].completed = node[at[j]].completed,
         \A i, m \in Nat : lo <= i /\ m <= hi /\ Back(at, i, m) => Back(at, i, m)',
         QueueInv(at, lo, hi, k2)',
         Holds(t)' \/ Decrements(t)' => Walk(t, at, lo, k2, h2[t], c2[t])' /\ h2[t] <= hi,
         Holds(t)' => Holder(t, at, lo, hi, k2, h2[t])',
         ~Takes(t)', pc'[t] \notin {"complete", "complete_all", "unpark"}
  PROVE  Inv(at, lo, hi, k2, dl, dh, h2, c2, f)'
<1>1. /\ at \in [Nat -> Links] /\ lo \in Nat /\ hi \in Nat /\ k \in Nat
      /\ dl \in [Threads -> Nat] /\ dh \in [Threads -> Nat]
      /\ h \in [Threads -> Nat] /\ c \in [Threads -> Nat] /\ f \in [Threads -> Nat]
      /\ NodeInv(at, lo, hi, dl, dh) /\ WalkInv(at, lo, hi, k, h, c) /\ TakenInv(at, dl, dh, f, c)
  BY DEF Inv
<1>2. NodeInv(at, lo, hi, dl, dh)'
  <2>1. \A n \in Threads : node'[n].completed = node[n].completed
    OBVIOUS
  <2> QED
    BY <1>1, <2>1, SameNodes
<1>3. ASSUME NEW u \in Threads
      PROVE  /\ Holds(u)' \/ Decrements(u)' => Walk(u, at, lo, k2, h2[u], c2[u])' /\ h2[u] <= hi
             /\ Holds(u)' => Holder(u, at, lo, hi, k2, h2[u])'
  <2>1. CASE u = t
    BY <2>1
  <2>2. ASSUME u # t, Holds(u)' \/ Decrements(u)'
        PROVE  /\ Walk(u, at, lo, k2, h2[u], c2[u])' /\ h2[u] <= hi
               /\ Holds(u)' => Holder(u, at, lo, hi, k2, h2[u])'
    <3>1. pc'[u] = pc[u] /\ loc'[u] = loc[u] /\ h2[u] = h[u] /\ c2[u] = c[u]
      BY <2>2
    <3>2. (Holds(u)' <=> Holds(u)) /\ (Holds(u) \/ Decrements(u))
      BY <2>2, <3>1 DEF Holds, Decrements
    <3>3. k2 = k
      BY <2>2, <3>2
    <3>4. "QUEUED" \in word.flags /\ h[u] \in lo .. hi /\ c[u] \in Nat /\ Walk(u, at, lo, k, h[u], c[u])
      BY <3>2, MainWalk
    <3>5. lo <= k
      BY <3>4, MainQueue DEF Linked
    <3>6. h[u] \in Nat /\ h[u] <= hi
      BY <1>1, <3>4
    <3>7. \A m \in Nat : lo <= m /\ Back(at, m, h[u]) => Back(at, m, h[u])'
      BY <3>6
    <3>8. Walk(u, at, lo, k, h[u], c[u])'
      BY <1>1, <3>1, <3>4, <3>5, <3>6, <3>7, SameWalk
    <3>9. ASSUME Holds(u)' PROVE Holder(u, at, lo, hi, k, h[u])'
      <4>1. LockedBy(loc'[u].state) /\ pc'[u] \notin {"split", "undo"}
        BY <2>2, <3>1, <3>2, <3>9, OtherHolders
      <4> QED
        BY <4>1 DEF Holder
    <3> QED
      BY <3>1, <3>3, <3>6, <3>8, <3>9
  <2> QED
    BY <2>1, <2>2 DEF Holds
<1>4. \A u \in Threads : \A i \in dl[u] .. dh[u] : node'[at[i]] = node[at[i]]
  BY MainNode
<1>5. ASSUME NEW u \in Threads PROVE Taken(u, at, dl[u], dh[u], f[u], c2[u])'
  <2>1. CASE u = t
    <3>1. ~Takes(t) /\ pc[t] \notin {"complete", "complete_all", "unpark"}
      BY DEF Takes, Holds, Decrements, CallInv, CallOK
    <3> QED
      BY <2>1, <3>1, TakesNone DEF Taken
  <2>2. CASE u # t
    <3>1. pc'[u] = pc[u] /\ loc'[u] = loc[u] /\ c2[u] = c[u]
      BY <2>2
    <3>2. Taken(u, at, dl[u], dh[u], f[u], c[u]) /\ dl[u] \in Nat /\ dh[u] \in Nat /\ f[u] \in Nat /\ c[u] \in Nat
      BY <1>1 DEF TakenInv
    <3> QED
      BY <1>4, <3>1, <3>2, SameTaken
  <2> QED
    BY <2>1, <2>2
<1> QED
  BY <1>1, <1>2, <1>3, <1>5 DEF Inv, WalkInv, TakenInv

\* find_tail on the queue of the word, ...
LEMMA find_tail_main ==
  ASSUME IInv, NEW t \in Threads, find_tail(t), Holds(t) \/ Decrements(t)
  PROVE  Shaped'
<1>0. TypeOK /\ CallInv /\ OwnerInv /\ HolderInv
  BY DEF IInv
<1>1. PICK at, lo, hi, k, dl, dh, h, c, f : Inv(at, lo, hi, k, dl, dh, h, c, f)
  BY DEF IInv, Shaped
<1>2. pc[t] = "find"
  BY DEF find_tail
<1>3. /\ "QUEUED" \in word.flags /\ h[t] \in lo .. hi /\ c[t] \in Nat /\ k <= h[t] /\ Walk(t, at, lo, k, h[t], c[t])
      /\ loc[t].current = at[c[t]] /\ c[t] \in lo .. hi
      /\ node[at[c[t]]].tail = null =>
           /\ c[t] - 1 \in lo .. hi /\ k <= c[t] - 1
           /\ node[at[c[t]]].next = at[c[t] - 1] /\ Registered(at[c[t] - 1])
  BY <1>0, <1>1, <1>2, MainWalk
<1>4. /\ h \in [Threads -> Nat] /\ c \in [Threads -> Nat] /\ lo \in Nat /\ hi \in Nat /\ k \in Nat
      /\ ~Splitting /\ Linked(at, lo, k, hi, at[lo]) /\ word.rest = at[hi] /\ QueueInv(at, lo, hi, k)
  <2>1. ~Splitting
    BY <1>0, <1>2, OtherHolders
  <2> QED
    BY <1>1, <1>3, <2>1 DEF Inv, QueueInv
<1>5. k <= c[t] /\ c[t] <= h[t] /\ Back(at, c[t], h[t]) /\ h[t] \in Nat /\ h[t] <= hi
  BY <1>2, <1>3, <1>4 DEF Walk
<1>6. SameCount /\ Reading' = Reading
  BY find_tail_owners
<1>7. Holds(t) => Holder(t, at, lo, hi, k, h[t])
  BY <1>1 DEF Inv, WalkInv
<1>8. CASE node[loc[t].current].tail # null
  <2>1. /\ \A u \in Threads \ {t} : pc'[u] = pc[u] /\ loc'[u] = loc[u]
        /\ pc'[t] = "cache_tail" /\ node' = node /\ word' = word
        /\ LocalIs(t, loc[t].state, null, loc[t].prev, node[loc[t].current].tail, loc[t].caller)
    BY <1>0, <1>8, find_tail_does DEF Moves
  <2>2. node[at[c[t]]].tail = at[lo] /\ Back(at, lo, h[t])
    BY <1>3, <1>4, <1>5, <1>8, FindsTail
  <2>3. Walk(t, at, lo, k, h[t], c[t])'
    <3>1. Back(at, lo, h[t])'
      BY <2>1, <2>2 DEF Back
    <3> QED
      BY <1>3, <2>1, <2>2, <3>1 DEF Walk, LocalIs
  <2>4. Holds(t)' => Holder(t, at, lo, hi, k, h[t])'
    BY <1>2, <1>7, <2>1 DEF Holder, Holds, LocalIs, LockedBy
  <2>5. ~Takes(t) /\ ~Takes(t)'
    BY <1>2, <2>1 DEF Takes, Holds, Decrements, LocalIs
  <2>6. Taken(t, at, dl[t], dh[t], f[t], c[t])'
    BY <1>1, <1>2, <2>1, <2>5, TakesNone DEF Taken
  <2>7. Inv(at, lo, hi, k, dl, dh, h, c, f)'
    BY <1>0, <1>1, <1>2, <1>4, <1>5, <1>6, <2>1, <2>3, <2>4, <2>6, GhostFrame
  <2> QED
    BY <2>7 DEF Shaped
<1>9. CASE node[loc[t].current].tail = null
  <2> DEFINE n == at[c[t] - 1]
             c2 == [c EXCEPT ![t] = c[t] - 1]
  <2>1. /\ c[t] - 1 \in lo .. hi /\ c[t] - 1 \in Nat /\ k <= c[t] - 1
        /\ n \in Threads /\ n = node[loc[t].current].next
    BY <1>3, <1>4, <1>9 DEF Registered
  <2>2. /\ \A u \in Threads \ {t} : pc'[u] = pc[u] /\ loc'[u] = loc[u]
        /\ pc'[t] = "find" /\ word' = word
        /\ LocalIs(t, loc[t].state, n, loc[t].prev, loc[t].tail, loc[t].caller)
        /\ NodeIs(n, node[n].next, at[c[t]], node[n].tail, node[n].completed)
    BY <1>0, <1>3, <1>9, <2>1, find_tail_does DEF Moves
  <2>3. /\ c2 \in [Threads -> Nat] /\ c2[t] = c[t] - 1 /\ \A u \in Threads \ {t} : c2[u] = c[u]
    BY <1>4, <2>1
  <2> HIDE DEF c2
  <2>4. \A i \in lo .. hi : i # c[t] - 1 => at[i] # n /\ node'[at[i]] = node[at[i]]
    BY <1>1, <2>1, <2>2, MainNode DEF NodeIs
  <2>5. lo + 1 <= c[t] /\ c[t] <= hi
    BY <1>3, <1>4, <2>1
  <2>6. /\ Linked(at, lo, k, hi, at[lo])'
        /\ \A i, j \in Nat : lo <= i /\ j <= hi /\ Back(at, i, j) => Back(at, i, j)'
        /\ \A j \in Nat : j <= hi /\ Back(at, c[t], j) => Back(at, c[t] - 1, j)'
    <3>1. /\ \A i \in lo .. hi : i # c[t] - 1 => node'[at[i]] = node[at[i]]
          /\ node'[at[c[t] - 1]].next = node[at[c[t] - 1]].next /\ node'[at[c[t] - 1]].prev = at[c[t]]
          /\ node'[at[c[t] - 1]].tail = node[at[c[t] - 1]].tail
      BY <2>2, <2>4 DEF NodeIs
    <3>2. lo \in Nat /\ k \in Nat /\ hi \in Nat /\ c[t] \in Nat /\ Linked(at, lo, k, hi, at[lo])
      BY <1>3, <1>4
    <3> QED
      BY ONLY <2>5, <3>1, <3>2, AddBack
  <2>7. ~Splitting'
    BY <1>2, <1>4, <2>2 DEF Splitting
  <2>8. QueueInv(at, lo, hi, k)'
    <3>1. Counted' => node'[at[lo]].next = Cardinality(Reading')
      <4>1. Counted' => node[at[lo]].next = Cardinality(Reading)
        BY <1>4, <1>6 DEF SameCount, QueueInv
      <4>2. node'[at[lo]].next = node[at[lo]].next
        <5>1. lo \in lo .. hi
          BY <1>3, <1>4
        <5> QED
          BY <2>2, <2>4, <5>1 DEF NodeIs
      <4> QED
        BY <1>6, <4>1, <4>2
    <3> QED
      BY <1>3, <1>4, <2>2, <2>6, <2>7, <3>1 DEF QueueInv
  <2>9. Walk(t, at, lo, k, h[t], c2[t])'
    BY <1>2, <1>3, <1>5, <2>1, <2>2, <2>3, <2>6 DEF Walk, LocalIs
  <2>10. Holds(t)' => Holder(t, at, lo, hi, k, h[t])'
    <3>1. Holds(t)' => Holds(t) /\ loc'[t].state = loc[t].state
      BY <1>2, <2>2 DEF Holds, LocalIs
    <3>2. \A i \in h[t] .. hi : i \in lo .. hi /\ i # c[t] - 1
      BY <1>3, <1>4, <1>5
    <3>3. \A i \in h[t] + 1 .. hi : i \in lo .. hi /\ i # c[t] - 1
      BY <1>3, <1>4, <1>5
    <3> QED
      BY <1>7, <2>2, <2>4, <3>1, <3>2, <3>3 DEF Holder, LockedBy
  <2>11. ~Takes(t)' /\ pc'[t] \notin {"complete", "complete_all", "unpark"}
    BY <1>2, <2>2 DEF Takes, Holds, Decrements, LocalIs
  <2>12. /\ \A x \in Threads \ {at[c[t] - 1]} : node'[x] = node[x]
         /\ node'[at[c[t] - 1]].completed = node[at[c[t] - 1]].completed
    BY <2>2 DEF NodeIs
  <2>13. Inv(at, lo, hi, k, dl, dh, h, c2, f)'
    BY <1>0, <1>1, <1>4, <1>5, <2>1, <2>2, <2>3, <2>6, <2>8, <2>9, <2>10, <2>11, <2>12, MainFrame
  <2> QED
    BY <2>13 DEF Shaped
<1> QED
  BY <1>8, <1>9

\* ... and on a queue that was taken.
LEMMA find_tail_taken ==
  ASSUME IInv, NEW t \in Threads, find_tail(t), Takes(t)
  PROVE  Shaped'
<1>0. TypeOK /\ CallInv /\ OwnerInv /\ HolderInv
  BY DEF IInv
<1>1. PICK at, lo, hi, k, dl, dh, h, c, f : Inv(at, lo, hi, k, dl, dh, h, c, f)
  BY DEF IInv, Shaped
<1>2. pc[t] = "find" /\ loc[t].caller = "downgrade"
  BY DEF find_tail, Takes
<1>3. /\ Linked(at, dl[t], f[t], dh[t], at[dl[t]]) /\ Walk(t, at, dl[t], f[t], dh[t], c[t])
      /\ dl[t] \in Nat /\ dh[t] \in Nat /\ f[t] \in Nat /\ c[t] \in Nat
      /\ loc[t].current = at[c[t]] /\ c[t] \in dl[t] .. dh[t]
      /\ node[at[c[t]]].tail = null =>
           /\ c[t] - 1 \in dl[t] .. dh[t] /\ f[t] <= c[t] - 1
           /\ node[at[c[t]]].next = at[c[t] - 1] /\ Registered(at[c[t] - 1])
  BY <1>0, <1>1, <1>2, TakenWalk
<1>4. h \in [Threads -> Nat] /\ c \in [Threads -> Nat] /\ dl \in [Threads -> Nat] /\ dh \in [Threads -> Nat]
  BY <1>1 DEF Inv
<1>5. f[t] <= c[t] /\ c[t] <= dh[t] /\ Back(at, c[t], dh[t]) /\ dl[t] <= dh[t]
  BY <1>2, <1>3 DEF Walk
<1>6. SameCount
  BY find_tail_owners
<1>7. CASE node[loc[t].current].tail # null
  <2>1. /\ \A u \in Threads \ {t} : pc'[u] = pc[u] /\ loc'[u] = loc[u]
        /\ pc'[t] = "cache_tail" /\ node' = node /\ word' = word
        /\ LocalIs(t, loc[t].state, null, loc[t].prev, node[loc[t].current].tail, loc[t].caller)
    BY <1>0, <1>7, find_tail_does DEF Moves
  <2>2. node[at[c[t]]].tail = at[dl[t]] /\ Back(at, dl[t], dh[t])
    BY <1>3, <1>5, <1>7, FindsTail
  <2>3. Walk(t, at, dl[t], f[t], dh[t], c[t])' /\ Linked(at, dl[t], f[t], dh[t], at[dl[t]])'
    <3>1. Back(at, dl[t], dh[t])'
      BY <2>1, <2>2 DEF Back
    <3>2. Linked(at, dl[t], f[t], dh[t], at[dl[t]])'
      BY <1>3, <2>1, SameLinked
    <3> QED
      BY <1>3, <2>1, <2>2, <3>1, <3>2 DEF Walk, LocalIs
  <2>4. ~Holds(t)' /\ ~Decrements(t)' /\ Takes(t)'
    BY <1>2, <2>1 DEF Takes, Holds, Decrements, LocalIs
  <2>5. Taken(t, at, dl[t], dh[t], f[t], c[t])'
    BY <2>1, <2>3, <2>4 DEF Taken
  <2>6. Inv(at, lo, hi, k, dl, dh, h, c, f)'
    BY <1>0, <1>1, <1>2, <1>4, <1>6, <2>1, <2>4, <2>5, GhostFrame
  <2> QED
    BY <2>6 DEF Shaped
<1>8. CASE node[loc[t].current].tail = null
  <2> DEFINE n == at[c[t] - 1]
             c2 == [c EXCEPT ![t] = c[t] - 1]
  <2>1. /\ c[t] - 1 \in dl[t] .. dh[t] /\ c[t] - 1 \in Nat /\ f[t] <= c[t] - 1
        /\ n \in Threads /\ n = node[loc[t].current].next
    BY <1>3, <1>8 DEF Registered
  <2>2. /\ \A u \in Threads \ {t} : pc'[u] = pc[u] /\ loc'[u] = loc[u]
        /\ pc'[t] = "find" /\ word' = word
        /\ LocalIs(t, loc[t].state, n, loc[t].prev, loc[t].tail, loc[t].caller)
        /\ NodeIs(n, node[n].next, at[c[t]], node[n].tail, node[n].completed)
    BY <1>0, <1>3, <1>8, <2>1, find_tail_does DEF Moves
  <2>3. /\ c2 \in [Threads -> Nat] /\ c2[t] = c[t] - 1 /\ \A u \in Threads \ {t} : c2[u] = c[u]
    BY <1>4, <2>1
  <2> HIDE DEF c2
  <2>4. /\ \A i \in lo .. hi : node'[at[i]] = node[at[i]]
        /\ \A u \in Threads \ {t} : \A i \in dl[u] .. dh[u] : node'[at[i]] = node[at[i]]
        /\ \A i \in dl[t] .. dh[t] : i # c[t] - 1 => at[i] # n /\ node'[at[i]] = node[at[i]]
    BY <1>1, <2>1, <2>2, TakenNode DEF NodeIs
  <2>5. dl[t] + 1 <= c[t] /\ c[t] <= dh[t]
    BY <1>3, <1>4, <2>1
  <2>6. /\ Linked(at, dl[t], f[t], dh[t], at[dl[t]])'
        /\ \A j \in Nat : j <= dh[t] /\ Back(at, c[t], j) => Back(at, c[t] - 1, j)'
    <3>1. /\ \A i \in dl[t] .. dh[t] : i # c[t] - 1 => node'[at[i]] = node[at[i]]
          /\ node'[at[c[t] - 1]].next = node[at[c[t] - 1]].next /\ node'[at[c[t] - 1]].prev = at[c[t]]
          /\ node'[at[c[t] - 1]].tail = node[at[c[t] - 1]].tail
      BY <2>2, <2>4 DEF NodeIs
    <3>2. dl[t] \in Nat /\ f[t] \in Nat /\ dh[t] \in Nat /\ c[t] \in Nat /\ Linked(at, dl[t], f[t], dh[t], at[dl[t]])
      BY <1>3, <1>4
    <3> QED
      BY ONLY <2>5, <3>1, <3>2, AddBack
  <2>7. Walk(t, at, dl[t], f[t], dh[t], c2[t])'
    BY <1>2, <1>3, <1>5, <2>1, <2>2, <2>3, <2>6 DEF Walk, LocalIs
  <2>8. ~Holds(t)' /\ ~Decrements(t)' /\ Takes(t)'
    BY <1>2, <2>2 DEF Takes, Holds, Decrements, LocalIs
  <2>9. Taken(t, at, dl[t], dh[t], f[t], c2[t])'
    BY <2>2, <2>6, <2>7, <2>8 DEF Taken
  <2>10. \A i \in Nat : Live(lo, hi, dl, dh, i) => node'[at[i]].completed = node[at[i]].completed
    BY <1>1, <2>2 DEF NodeIs, Inv, NodeInv
  <2>11. Inv(at, lo, hi, k, dl, dh, h, c2, f)'
    BY <1>0, <1>1, <1>2, <1>4, <1>6, <2>2, <2>3, <2>4, <2>8, <2>9, <2>10, OthersFrame
  <2> QED
    BY <2>11 DEF Shaped
<1> QED
  BY <1>7, <1>8

LEMMA find_tail_shape ==
  ASSUME IInv, NEW t \in Threads, find_tail(t)
  PROVE  Shaped'
<1>1. Holds(t) \/ Decrements(t) \/ Takes(t)
  BY DEF find_tail, IInv, CallInv, CallOK, TypeOK, Holds, Decrements, Takes
<1> QED
  BY <1>1, find_tail_main, find_tail_taken

\* cache_tail on the queue of the word, ...
LEMMA cache_tail_main ==
  ASSUME IInv, NEW t \in Threads, cache_tail(t), Holds(t) \/ Decrements(t)
  PROVE  Shaped'
<1>0. TypeOK /\ CallInv /\ OwnerInv /\ HolderInv
  BY DEF IInv
<1>1. PICK at, lo, hi, k, dl, dh, h, c, f : Inv(at, lo, hi, k, dl, dh, h, c, f)
  BY DEF IInv, Shaped
<1>2. pc[t] = "cache_tail"
  BY DEF cache_tail, Goto
<1>3. /\ "QUEUED" \in word.flags /\ h[t] \in lo .. hi /\ k <= h[t] /\ Walk(t, at, lo, k, h[t], c[t])
      /\ Registered(at[h[t]]) /\ loc[t].state.rest = at[h[t]]
  BY <1>0, <1>1, <1>2, MainWalk
<1>4. /\ h \in [Threads -> Nat] /\ c \in [Threads -> Nat] /\ lo \in Nat /\ hi \in Nat /\ k \in Nat
      /\ ~Splitting /\ Linked(at, lo, k, hi, at[lo]) /\ word.rest = at[hi] /\ QueueInv(at, lo, hi, k)
  <2>1. ~Splitting
    BY <1>0, <1>2, OtherHolders
  <2> QED
    BY <1>1, <1>3, <2>1 DEF Inv, QueueInv
<1>5. h[t] \in Nat /\ h[t] <= hi /\ loc[t].tail = at[lo] /\ Back(at, lo, h[t])
  BY <1>2, <1>3, <1>4 DEF Walk
<1>6. SameCount /\ Reading' = Reading
  BY cache_tail_owners
<1>7. Holds(t) => Holder(t, at, lo, hi, k, h[t])
  BY <1>1 DEF Inv, WalkInv
<1> DEFINE n == at[h[t]]
<1>8. n \in Threads /\ n = loc[t].state.rest
  BY <1>3 DEF Registered
<1>9. loc[t].caller \in {"lock", "unlock", "read_unlock"}
  BY DEF Holds, Decrements
<1>10. /\ \A u \in Threads \ {t} : pc'[u] = pc[u] /\ loc'[u] = loc[u]
       /\ pc'[t] \in {"unlock_queue", "decrement"} /\ word' = word
       /\ LocalIs(t, loc[t].state, null, loc[t].prev, loc[t].tail, loc[t].caller)
       /\ NodeIs(n, node[n].next, node[n].prev, at[lo], node[n].completed)
  BY <1>0, <1>5, <1>8, <1>9, cache_tail_does DEF Moves, Found
<1>11. \A i \in lo .. hi : i # h[t] => at[i] # n /\ node'[at[i]] = node[at[i]]
  BY <1>1, <1>3, <1>10, MainNode DEF NodeIs
<1>12. /\ Linked(at, lo, k, hi, at[lo])'
       /\ \A i, m \in Nat : lo <= i /\ m <= hi => (Back(at, i, m)' <=> Back(at, i, m))
  <2>1. /\ \A i \in lo .. hi : i # h[t] => node'[at[i]] = node[at[i]]
        /\ node'[at[h[t]]].next = node[at[h[t]]].next /\ node'[at[h[t]]].prev = node[at[h[t]]].prev
        /\ node'[at[h[t]]].tail = at[lo]
    BY <1>10, <1>11 DEF NodeIs
  <2>2. lo \in Nat /\ k \in Nat /\ hi \in Nat /\ h[t] \in Nat /\ k <= h[t] /\ h[t] <= hi
    BY <1>3, <1>4, <1>5
  <2>3. Linked(at, lo, k, hi, at[lo]) /\ Back(at, lo, h[t])
    BY <1>4, <1>5
  <2> QED
    BY ONLY <2>1, <2>2, <2>3, SetTail
<1>13. ~Splitting'
  BY <1>2, <1>4, <1>10 DEF Splitting
<1>14. QueueInv(at, lo, hi, k)'
  <2>1. Counted' => node'[at[lo]].next = Cardinality(Reading')
    <3>1. Counted' => node[at[lo]].next = Cardinality(Reading)
      BY <1>4, <1>6 DEF SameCount, QueueInv
    <3>2. node'[at[lo]].next = node[at[lo]].next
      <4>1. lo \in lo .. hi
        BY <1>3, <1>4
      <4> QED
        BY <1>10, <1>11, <4>1 DEF NodeIs
    <3> QED
      BY <1>6, <3>1, <3>2
  <2> QED
    BY <1>3, <1>4, <1>10, <1>12, <1>13, <2>1 DEF QueueInv
<1>15. Walk(t, at, lo, k, h[t], c[t])'
  BY <1>3, <1>4, <1>5, <1>10, <1>12 DEF Walk, LocalIs
<1>16. Holds(t)' => Holder(t, at, lo, hi, k, h[t])'
  <2>1. Holds(t)' => Holds(t) /\ loc'[t].state = loc[t].state
    BY <1>2, <1>10 DEF Holds, LocalIs
  <2>2. \A i \in h[t] .. hi : i \in lo .. hi /\ node'[at[i]].prev = node[at[i]].prev
    BY <1>3, <1>4, <1>5, <1>10, <1>11 DEF NodeIs
  <2>3. \A i \in h[t] + 1 .. hi : node'[at[i]].tail = node[at[i]].tail
    BY <1>3, <1>4, <1>5, <1>11
  <2> QED
    BY <1>7, <1>10, <2>1, <2>2, <2>3 DEF Holder, LockedBy
<1>17. ~Takes(t)' /\ pc'[t] \notin {"complete", "complete_all", "unpark"}
  BY <1>10 DEF Takes
<1>18. (\A x \in Threads \ {at[h[t]]} : node'[x] = node[x]) /\ node'[at[h[t]]].completed = node[at[h[t]]].completed
  BY <1>10 DEF NodeIs
<1>19. Inv(at, lo, hi, k, dl, dh, h, c, f)'
  BY <1>0, <1>1, <1>3, <1>4, <1>5, <1>10, <1>12, <1>14, <1>15, <1>16, <1>17, <1>18, MainFrame
<1> QED
  BY <1>19 DEF Shaped

\* ... and on a queue that was taken.
LEMMA cache_tail_taken ==
  ASSUME IInv, NEW t \in Threads, cache_tail(t), Takes(t)
  PROVE  Shaped'
<1>0. TypeOK /\ CallInv /\ OwnerInv /\ HolderInv
  BY DEF IInv
<1>1. PICK at, lo, hi, k, dl, dh, h, c, f : Inv(at, lo, hi, k, dl, dh, h, c, f)
  BY DEF IInv, Shaped
<1>2. pc[t] = "cache_tail" /\ loc[t].caller = "downgrade"
  BY DEF cache_tail, Goto, Takes
<1>3. /\ Linked(at, dl[t], f[t], dh[t], at[dl[t]]) /\ Walk(t, at, dl[t], f[t], dh[t], c[t])
      /\ dl[t] \in Nat /\ dh[t] \in Nat /\ f[t] \in Nat /\ dh[t] \in dl[t] .. dh[t]
      /\ Registered(at[dh[t]]) /\ loc[t].state.rest = at[dh[t]]
  BY <1>0, <1>1, <1>2, TakenWalk
<1>4. h \in [Threads -> Nat] /\ c \in [Threads -> Nat] /\ dl \in [Threads -> Nat] /\ dh \in [Threads -> Nat]
  BY <1>1 DEF Inv
<1>5. loc[t].tail = at[dl[t]] /\ Back(at, dl[t], dh[t]) /\ dl[t] <= dh[t] /\ f[t] <= dh[t]
  BY <1>2, <1>3 DEF Walk
<1>6. SameCount
  BY cache_tail_owners
<1> DEFINE n == at[dh[t]]
<1>7. n \in Threads /\ n = loc[t].state.rest
  BY <1>3 DEF Registered
<1>8. /\ \A u \in Threads \ {t} : pc'[u] = pc[u] /\ loc'[u] = loc[u]
      /\ pc'[t] = "complete_all" /\ word' = word
      /\ LocalIs(t, loc[t].state, loc[t].tail, loc[t].prev, loc[t].tail, loc[t].caller)
      /\ NodeIs(n, node[n].next, node[n].prev, at[dl[t]], node[n].completed)
  BY <1>0, <1>2, <1>5, <1>7, cache_tail_does DEF Moves, Found
<1>9. /\ \A i \in lo .. hi : node'[at[i]] = node[at[i]]
      /\ \A u \in Threads \ {t} : \A i \in dl[u] .. dh[u] : node'[at[i]] = node[at[i]]
      /\ \A i \in dl[t] .. dh[t] : i # dh[t] => at[i] # n /\ node'[at[i]] = node[at[i]]
  BY <1>1, <1>3, <1>8, TakenNode DEF NodeIs
<1>10. Back(at, dl[t], dh[t])'
  <2>1. \A m \in dl[t] .. dh[t] - 1 : node'[at[m]].prev = node[at[m]].prev
    BY <1>3, <1>9
  <2> QED
    BY <1>3, <1>5, <2>1, SameBack
<1>11. node'[at[dh[t]]].prev = null
  BY <1>3, <1>8 DEF NodeIs, Linked
<1>12. ~Holds(t)' /\ ~Decrements(t)' /\ ~Takes(t)'
  BY <1>2, <1>8 DEF Takes, Holds, Decrements, LocalIs
<1>13. Taken(t, at, dl[t], dh[t], f[t], c[t])'
  BY <1>3, <1>5, <1>8, <1>10, <1>11, <1>12 DEF Taken, LocalIs
<1>14. \A i \in Nat : Live(lo, hi, dl, dh, i) => node'[at[i]].completed = node[at[i]].completed
  BY <1>1, <1>8 DEF NodeIs, Inv, NodeInv
<1>15. Inv(at, lo, hi, k, dl, dh, h, c, f)'
  BY <1>0, <1>1, <1>2, <1>4, <1>6, <1>8, <1>9, <1>12, <1>13, <1>14, OthersFrame
<1> QED
  BY <1>15 DEF Shaped

LEMMA cache_tail_shape ==
  ASSUME IInv, NEW t \in Threads, cache_tail(t)
  PROVE  Shaped'
<1>1. Holds(t) \/ Decrements(t) \/ Takes(t)
  BY DEF cache_tail, Goto, IInv, CallInv, CallOK, TypeOK, Holds, Decrements, Takes
<1> QED
  BY <1>1, cache_tail_main, cache_tail_taken

\* The count of the readers changes, ...
LEMMA SetNext ==
  ASSUME NEW at, NEW l \in Nat, NEW k \in Nat, NEW u \in Nat, NEW e, Linked(at, l, k, u, e),
         \A i \in l .. u : i # l => node'[at[i]] = node[at[i]],
         node'[at[l]].prev = node[at[l]].prev, node'[at[l]].tail = node[at[l]].tail
  PROVE  /\ Linked(at, l, k, u, e)'
         /\ \A i, m \in Nat : l <= i /\ m <= u => (Back(at, i, m)' <=> Back(at, i, m))
<1>1. l <= k /\ k <= u
  BY DEF Linked
<1>2. \A i \in l .. u : /\ node'[at[i]].prev = node[at[i]].prev /\ node'[at[i]].tail = node[at[i]].tail
                        /\ i # l => node'[at[i]].next = node[at[i]].next
  OBVIOUS
<1>3. ASSUME NEW i \in Nat, NEW m \in Nat, l <= i, m <= u PROVE Back(at, i, m)' <=> Back(at, i, m)
  <2>1. \A q \in i .. m - 1 : q \in l .. u
    BY <1>3
  <2> QED
    BY <1>2, <2>1, SameBack
<1>4. ASSUME NEW i \in l + 1 .. u PROVE node'[at[i]].next = at[i - 1]
  <2>1. i \in l .. u /\ i # l
    OBVIOUS
  <2> QED
    BY <1>2, <2>1 DEF Linked
<1>5. k \in l .. u /\ u \in l .. u
  BY <1>1
<1>6. node'[at[k]].tail = e /\ node'[at[u]].prev = null
  BY <1>2, <1>5 DEF Linked
<1>7. ASSUME NEW i \in k .. u, node'[at[i]].tail # null PROVE node'[at[i]].tail = e /\ Back(at, l, i)'
  <2>1. i \in l .. u /\ i \in Nat /\ i <= u
    BY <1>1
  <2>2. node[at[i]].tail = node'[at[i]].tail
    BY <1>2, <2>1
  <2>3. node[at[i]].tail = e /\ Back(at, l, i)
    BY <1>7, <2>2 DEF Linked
  <2> QED
    BY <1>3, <2>1, <2>2, <2>3
<1>8. ASSUME NEW i \in l .. u - 1 PROVE node'[at[i]].prev \in {null, at[i + 1]}
  <2>1. i \in l .. u /\ node[at[i]].prev \in {null, at[i + 1]}
    BY DEF Linked
  <2> QED
    BY <1>2, <2>1
<1>9. Linked(at, l, k, u, e)'
  BY <1>1, <1>4, <1>6, <1>7, <1>8 DEF Linked
<1> QED
  BY <1>3, <1>9

\* ... or the tail that the queue has: only node j knows it.
LEMMA SetEnd ==
  ASSUME NEW at, NEW l \in Nat, NEW k \in Nat, NEW u \in Nat, NEW e, NEW e2, NEW j \in Nat, l <= j, j <= u,
         Linked(at, l, k, u, e), Back(at, l, j), \A i \in j + 1 .. u : node[at[i]].tail = null,
         \A i \in l .. u : i # j => node'[at[i]] = node[at[i]],
         /\ node'[at[j]].next = node[at[j]].next /\ node'[at[j]].prev = node[at[j]].prev
         /\ node'[at[j]].tail = e2
  PROVE  /\ Linked(at, l, j, u, e2)'
         /\ \A i, m \in Nat : l <= i /\ m <= u => (Back(at, i, m)' <=> Back(at, i, m))
<1>1. j \in l .. u /\ u \in l .. u
  OBVIOUS
<1>2. \A i \in l .. u : /\ node'[at[i]].next = node[at[i]].next /\ node'[at[i]].prev = node[at[i]].prev
                        /\ node'[at[i]].tail = IF i = j THEN e2 ELSE node[at[i]].tail
  OBVIOUS
<1>3. ASSUME NEW i \in Nat, NEW m \in Nat, l <= i, m <= u PROVE Back(at, i, m)' <=> Back(at, i, m)
  <2>1. \A q \in i .. m - 1 : q \in l .. u
    BY <1>3
  <2> QED
    BY <1>2, <2>1, SameBack
<1>4. ASSUME NEW i \in l + 1 .. u PROVE node'[at[i]].next = at[i - 1]
  <2>1. i \in l .. u
    OBVIOUS
  <2> QED
    BY <1>2, <2>1 DEF Linked
<1>6. node'[at[j]].tail = e2 /\ node'[at[u]].prev = null
  BY <1>1, <1>2 DEF Linked
<1>7. ASSUME NEW i \in j .. u, node'[at[i]].tail # null PROVE node'[at[i]].tail = e2 /\ Back(at, l, i)'
  <2>1. CASE i = j
    BY <1>1, <1>3, <1>6, <2>1
  <2>2. CASE i # j
    <3>1. i \in j + 1 .. u /\ i \in l .. u
      BY <2>2
    <3> QED
      BY <1>2, <1>7, <2>2, <3>1
  <2> QED
    BY <2>1, <2>2
<1>8. ASSUME NEW i \in l .. u - 1 PROVE node'[at[i]].prev \in {null, at[i + 1]}
  <2>1. i \in l .. u /\ node[at[i]].prev \in {null, at[i + 1]}
    BY DEF Linked
  <2> QED
    BY <1>2, <2>1
<1>9. Linked(at, l, j, u, e2)'
  BY <1>1, <1>4, <1>6, <1>7, <1>8 DEF Linked
<1> QED
  BY <1>3, <1>9

LEMMA decrement_shape ==
  ASSUME IInv, NEW t \in Threads, decrement(t)
  PROVE  Shaped'
<1>0. TypeOK /\ CallInv /\ OwnerInv /\ HolderInv
  BY DEF IInv
<1>1. PICK at, lo, hi, k, dl, dh, h, c, f : Inv(at, lo, hi, k, dl, dh, h, c, f)
  BY DEF IInv, Shaped
<1>2. pc[t] = "decrement" /\ Decrements(t)
  BY <1>0 DEF decrement, CallInv, CallOK, Decrements
<1>3. /\ "QUEUED" \in word.flags /\ h[t] \in lo .. hi /\ Walk(t, at, lo, k, h[t], c[t]) /\ Registered(at[lo])
  BY <1>0, <1>1, <1>2, MainWalk
<1>4. /\ h \in [Threads -> Nat] /\ c \in [Threads -> Nat] /\ lo \in Nat /\ hi \in Nat /\ k \in Nat /\ lo \in lo .. hi
      /\ ~Splitting /\ Linked(at, lo, k, hi, at[lo]) /\ word.rest = at[hi] /\ QueueInv(at, lo, hi, k)
  <2>1. ~Splitting
    BY <1>0, <1>2, OtherHolders
  <2> QED
    BY <1>1, <1>3, <2>1 DEF Inv, QueueInv
<1> DEFINE n == at[lo]
<1>5. n \in Threads /\ n = loc[t].tail
  BY <1>2, <1>3 DEF Walk, Registered
<1>6. /\ \A u \in Threads \ {t} : pc'[u] = pc[u] /\ loc'[u] = loc[u]
      /\ pc'[t] \in {"unlock", "idle"} /\ word' = word /\ loc'[t].caller = "none"
      /\ NodeIs(n, node[n].next - 1, node[n].prev, node[n].tail, node[n].completed)
  BY <1>0, <1>5, decrement_does DEF Moves, LocalIs
<1>7. Counted /\ node[at[lo]].next = Cardinality(Reading) /\ Cardinality(Reading)' = Cardinality(Reading) - 1
  <2>1. Counted
    BY <1>0, <1>2, WordOfOwners
  <2> QED
    BY <1>4, <2>1, decrement_owners DEF QueueInv
<1>8. \A i \in lo .. hi : i # lo => node'[at[i]] = node[at[i]]
  BY <1>1, <1>4, <1>6, MainNode DEF NodeIs
<1>9. /\ Linked(at, lo, k, hi, at[lo])'
      /\ \A i, m \in Nat : lo <= i /\ m <= hi => (Back(at, i, m)' <=> Back(at, i, m))
  BY <1>4, <1>6, <1>8, SetNext DEF NodeIs
<1>10. ~Splitting'
  BY <1>2, <1>4, <1>6 DEF Splitting
<1>11. QueueInv(at, lo, hi, k)'
  <2>1. node'[at[lo]].next = Cardinality(Reading)'
    BY <1>6, <1>7 DEF NodeIs
  <2> QED
    BY <1>3, <1>4, <1>6, <1>9, <1>10, <2>1 DEF QueueInv
<1>12. ~Holds(t)' /\ ~Decrements(t)' /\ ~Takes(t)' /\ pc'[t] \notin {"complete", "complete_all", "unpark"}
  BY <1>6 DEF Takes, Holds, Decrements
<1>13. (\A x \in Threads \ {at[lo]} : node'[x] = node[x]) /\ node'[at[lo]].completed = node[at[lo]].completed
  BY <1>6 DEF NodeIs
<1>14. Inv(at, lo, hi, k, dl, dh, h, c, f)'
  BY <1>0, <1>1, <1>2, <1>4, <1>6, <1>9, <1>11, <1>12, <1>13, MainFrame
<1> QED
  BY <1>14 DEF Shaped

\* The tail is split off, ...
LEMMA split_shape ==
  ASSUME IInv, NEW t \in Threads, split(t)
  PROVE  Shaped'
<1>0. TypeOK /\ CallInv /\ OwnerInv /\ HolderInv
  BY DEF IInv
<1>1. PICK at, lo, hi, k, dl, dh, h, c, f : Inv(at, lo, hi, k, dl, dh, h, c, f)
  BY DEF IInv, Shaped
<1>2. pc[t] = "unlock_queue" /\ Holds(t) /\ ~LockedBy(loc[t].state) /\ WakesWriter(t)
  BY <1>0 DEF split, Goto, CallInv, CallOK, Holds
<1>3. /\ "QUEUED" \in word.flags /\ h[t] \in lo .. hi /\ k <= h[t] /\ Walk(t, at, lo, k, h[t], c[t])
      /\ Registered(at[h[t]]) /\ loc[t].state.rest = at[h[t]]
  BY <1>0, <1>1, <1>2, MainWalk
<1>4. /\ h \in [Threads -> Nat] /\ c \in [Threads -> Nat] /\ lo \in Nat /\ hi \in Nat /\ k \in Nat
      /\ ~Splitting /\ Linked(at, lo, k, hi, at[lo]) /\ word.rest = at[hi]
  <2>1. ~Splitting
    BY <1>0, <1>2, OtherHolders
  <2> QED
    BY <1>1, <1>3, <2>1 DEF Inv, QueueInv
<1>5. h[t] \in Nat /\ h[t] <= hi /\ lo <= h[t] /\ loc[t].tail = at[lo] /\ Back(at, lo, h[t])
  BY <1>2, <1>3, <1>4 DEF Walk
<1>6. /\ \A i \in h[t] .. hi : node[at[i]].prev = null
      /\ \A i \in h[t] + 1 .. hi : node[at[i]].tail = null
  BY <1>1, <1>2 DEF Inv, WalkInv, Holder
<1>7. lo < h[t] /\ node[at[lo]].prev = at[lo + 1]
  <2>1. node[at[lo]].prev # null
    BY <1>2, <1>5 DEF WakesWriter
  <2>2. lo \notin h[t] .. hi
    BY <1>6, <2>1
  <2>3. lo < h[t] /\ lo \in lo .. h[t] - 1
    BY <1>4, <1>5, <2>2
  <2> QED
    BY <1>5, <2>3 DEF Back
<1>8. ~Counted /\ ~Counted' /\ \A u \in Threads \ {t} : ~Holds(u) /\ ~Decrements(u)
  <2>1. ~Counted
    BY <1>0, <1>2 DEF HolderInv
  <2> QED
    BY <1>0, <1>2, <2>1, OtherHolders, split_owners DEF SameCount
<1> DEFINE n == at[h[t]]
<1>9. n \in Threads /\ n = loc[t].state.rest
  BY <1>3 DEF Registered
<1>10. /\ \A u \in Threads \ {t} : pc'[u] = pc[u] /\ loc'[u] = loc[u]
       /\ pc'[t] = "split" /\ word' = word
       /\ LocalIs(t, loc[t].state, n, loc[t].prev, loc[t].tail, loc[t].caller)
       /\ NodeIs(n, node[n].next, node[n].prev, at[lo + 1], node[n].completed)
  BY <1>0, <1>5, <1>7, <1>9, split_does DEF Moves
<1>11. \A i \in lo .. hi : i # h[t] => at[i] # n /\ node'[at[i]] = node[at[i]]
  BY <1>1, <1>3, <1>10, MainNode DEF NodeIs
<1>12. /\ Linked(at, lo, h[t], hi, at[lo + 1])'
       /\ \A i, m \in Nat : lo <= i /\ m <= hi => (Back(at, i, m)' <=> Back(at, i, m))
  <2>1. /\ \A i \in lo .. hi : i # h[t] => node'[at[i]] = node[at[i]]
        /\ node'[at[h[t]]].next = node[at[h[t]]].next /\ node'[at[h[t]]].prev = node[at[h[t]]].prev
        /\ node'[at[h[t]]].tail = at[lo + 1]
    BY <1>10, <1>11 DEF NodeIs
  <2>2. lo \in Nat /\ k \in Nat /\ hi \in Nat /\ h[t] \in Nat /\ lo <= h[t] /\ h[t] <= hi
    BY <1>4, <1>5
  <2>3. Linked(at, lo, k, hi, at[lo]) /\ Back(at, lo, h[t]) /\ \A i \in h[t] + 1 .. hi : node[at[i]].tail = null
    BY <1>4, <1>5, <1>6
  <2> QED
    BY ONLY <2>1, <2>2, <2>3, SetEnd
<1>13. Splitting'
  BY <1>10 DEF Splitting
<1>14. QueueInv(at, lo, hi, h[t])'
  BY <1>3, <1>4, <1>8, <1>10, <1>12, <1>13 DEF QueueInv
<1>15. Walk(t, at, lo, h[t], h[t], c[t])'
  BY <1>3, <1>4, <1>5, <1>10, <1>12 DEF Walk, LocalIs
<1>16. Holder(t, at, lo, hi, h[t], h[t])'
  <2>1. \A i \in h[t] .. hi : i \in lo .. hi /\ node'[at[i]].prev = node[at[i]].prev
    BY <1>3, <1>4, <1>5, <1>10, <1>11 DEF NodeIs
  <2>2. \A i \in h[t] + 1 .. hi : node'[at[i]].tail = node[at[i]].tail
    BY <1>3, <1>4, <1>5, <1>11
  <2> QED
    BY <1>6, <1>7, <1>10, <2>1, <2>2 DEF Holder, LocalIs
<1>17. ~Takes(t)' /\ pc'[t] \notin {"complete", "complete_all", "unpark"}
  BY <1>10 DEF Takes
<1>18. (\A x \in Threads \ {at[h[t]]} : node'[x] = node[x]) /\ node'[at[h[t]]].completed = node[at[h[t]]].completed
  BY <1>10 DEF NodeIs
<1>19. Inv(at, lo, hi, h[t], dl, dh, h, c, f)'
  BY <1>0, <1>1, <1>2, <1>3, <1>4, <1>5, <1>8, <1>10, <1>12, <1>14, <1>15, <1>16, <1>17, <1>18, MainFrame
<1> QED
  BY <1>19 DEF Shaped

\* ... or put back, when an owner came in between.
LEMMA undo_shape ==
  ASSUME IInv, NEW t \in Threads, undo(t)
  PROVE  Shaped'
<1>0. TypeOK /\ CallInv /\ OwnerInv /\ HolderInv
  BY DEF IInv
<1>1. PICK at, lo, hi, k, dl, dh, h, c, f : Inv(at, lo, hi, k, dl, dh, h, c, f)
  BY DEF IInv, Shaped
<1>2. pc[t] = "undo" /\ Holds(t) /\ loc[t].caller \in {"lock", "unlock"}
  BY <1>0 DEF undo, Find, Goto, CallInv, CallOK, Holds
<1>3. /\ "QUEUED" \in word.flags /\ h[t] \in lo .. hi /\ k <= h[t] /\ Walk(t, at, lo, k, h[t], c[t])
      /\ loc[t].state.rest = at[h[t]]
  BY <1>0, <1>1, <1>2, MainWalk
<1>4. /\ h \in [Threads -> Nat] /\ c \in [Threads -> Nat] /\ lo \in Nat /\ hi \in Nat /\ k \in Nat
      /\ Linked(at, lo, k, hi, at[lo + 1]) /\ word.rest = at[hi]
  <2>1. Splitting
    BY <1>2 DEF Splitting
  <2> QED
    BY <1>1, <1>3, <2>1 DEF Inv, QueueInv
<1>5. h[t] \in Nat /\ h[t] <= hi /\ loc[t].tail = at[lo] /\ lo <= k /\ k <= hi /\ k \in lo .. hi
  BY <1>2, <1>3, <1>4 DEF Walk, Linked
<1>6. Holder(t, at, lo, hi, k, h[t]) /\ lo < k /\ loc[t].current = at[k] /\ \A i \in k + 1 .. hi : node[at[i]].tail = null
  BY <1>1, <1>2 DEF Inv, WalkInv, Holder
<1>7. Back(at, lo, k) /\ Registered(at[k])
  <2>1. lo + 1 \in lo .. hi
    BY <1>4, <1>5, <1>6
  <2>2. Registered(at[lo + 1]) /\ Registered(at[k])
    BY <1>1, <1>5, <2>1, LiveNodes
  <2>3. k \in k .. hi /\ node[at[k]].tail # null
    BY <1>4, <1>5, <2>2, NoNull DEF Linked, Registered
  <2> QED
    BY <1>4, <2>2, <2>3 DEF Linked
<1>8. ~Counted /\ ~Counted' /\ \A u \in Threads \ {t} : ~Holds(u) /\ ~Decrements(u)
  <2>1. ~Counted
    BY <1>0, <1>2 DEF HolderInv
  <2> QED
    BY <1>0, <1>2, <2>1, OtherHolders, undo_owners DEF SameCount
<1> DEFINE n == at[k]
           c2 == [c EXCEPT ![t] = h[t]]
<1>9. n \in Threads /\ n = loc[t].current
  BY <1>6, <1>7 DEF Registered
<1>10. /\ \A u \in Threads \ {t} : pc'[u] = pc[u] /\ loc'[u] = loc[u]
       /\ pc'[t] = "find" /\ word' = word
       /\ LocalIs(t, loc[t].state, loc[t].state.rest, null, null, loc[t].caller)
       /\ NodeIs(n, node[n].next, node[n].prev, at[lo], node[n].completed)
  BY <1>0, <1>5, <1>9, undo_does DEF Moves
<1>a. /\ c2 \in [Threads -> Nat] /\ c2[t] = h[t] /\ \A u \in Threads \ {t} : c2[u] = c[u]
  BY <1>4
<1> HIDE DEF c2
<1>11. \A i \in lo .. hi : i # k => at[i] # n /\ node'[at[i]] = node[at[i]]
  BY <1>1, <1>5, <1>10, MainNode DEF NodeIs
<1>12. /\ Linked(at, lo, k, hi, at[lo])'
       /\ \A i, m \in Nat : lo <= i /\ m <= hi => (Back(at, i, m)' <=> Back(at, i, m))
  <2>1. /\ \A i \in lo .. hi : i # k => node'[at[i]] = node[at[i]]
        /\ node'[at[k]].next = node[at[k]].next /\ node'[at[k]].prev = node[at[k]].prev
        /\ node'[at[k]].tail = at[lo]
    BY <1>10, <1>11 DEF NodeIs
  <2>2. lo \in Nat /\ k \in Nat /\ hi \in Nat /\ lo <= k /\ k <= hi
    BY <1>4, <1>5
  <2>3. Linked(at, lo, k, hi, at[lo + 1]) /\ Back(at, lo, k) /\ \A i \in k + 1 .. hi : node[at[i]].tail = null
    BY <1>4, <1>6, <1>7
  <2> QED
    BY ONLY <2>1, <2>2, <2>3, SetEnd
<1>13. ~Splitting'
  <2>1. ASSUME NEW u \in Threads, pc[u] \in {"split", "undo"} PROVE u = t
    BY <1>0, <1>8, <2>1 DEF CallInv, CallOK, Holds
  <2> QED
    BY <1>10, <2>1 DEF Splitting
<1>14. QueueInv(at, lo, hi, k)'
  BY <1>3, <1>4, <1>8, <1>10, <1>12, <1>13 DEF QueueInv
<1>15. Walk(t, at, lo, k, h[t], c2[t])'
  <2>1. Back(at, h[t], h[t])'
    BY <1>5 DEF Back
  <2> QED
    BY <1>3, <1>5, <1>10, <1>a, <2>1 DEF Walk, LocalIs
<1>16. Holder(t, at, lo, hi, k, h[t])'
  <2>1. \A i \in h[t] .. hi : i \in lo .. hi /\ node'[at[i]].prev = node[at[i]].prev
    BY <1>3, <1>4, <1>5, <1>10, <1>11 DEF NodeIs
  <2>2. \A i \in h[t] + 1 .. hi : node'[at[i]].tail = node[at[i]].tail
    BY <1>3, <1>4, <1>5, <1>11
  <2> QED
    BY <1>6, <1>10, <2>1, <2>2 DEF Holder, LocalIs, LockedBy
<1>17. ~Takes(t)' /\ pc'[t] \notin {"complete", "complete_all", "unpark"}
  BY <1>2, <1>10 DEF Takes, LocalIs
<1>18. (\A x \in Threads \ {at[k]} : node'[x] = node[x]) /\ node'[at[k]].completed = node[at[k]].completed
  BY <1>10 DEF NodeIs
<1>19. Inv(at, lo, hi, k, dl, dh, h, c2, f)'
  BY <1>0, <1>1, <1>2, <1>3, <1>4, <1>5, <1>8, <1>10, <1>a, <1>12, <1>14, <1>15, <1>16, <1>17, <1>18, MainFrame
<1> QED
  BY <1>19 DEF Shaped

-----------------------------------------------------------------------------
(***************************************************************************)
(* The queue: nodes that are taken, completed and added                    *)
(***************************************************************************)
\* Thread t takes the nodes lo .. j.
LEMMA TakeFrame ==
  ASSUME NEW at, NEW lo, NEW hi, NEW k, NEW dl, NEW dh, NEW h, NEW c, NEW f, NEW j, NEW dl2, NEW dh2, NEW c2, NEW f2,
         Inv(at, lo, hi, k, dl, dh, h, c, f), j \in lo .. hi,
         NEW t \in Threads, \A u \in Threads \ {t} : pc'[u] = pc[u] /\ loc'[u] = loc[u], node' = node,
         dl2 \in [Threads -> Nat], dh2 \in [Threads -> Nat], c2 \in [Threads -> Nat], f2 \in [Threads -> Nat],
         dl2[t] = lo, dh2[t] = j,
         \A u \in Threads \ {t} : dl2[u] = dl[u] /\ dh2[u] = dh[u] /\ c2[u] = c[u] /\ f2[u] = f[u],
         \A u \in Threads \ {t} : ~Holds(u) /\ ~Decrements(u), ~Holds(t)', ~Decrements(t)',
         QueueInv(at, j + 1, hi, k)', Taken(t, at, lo, j, f2[t], c2[t])'
  PROVE  Inv(at, j + 1, hi, k, dl2, dh2, h, c2, f2)'
<1>1. /\ at \in [Nat -> Links] /\ lo \in Nat /\ hi \in Nat /\ k \in Nat /\ j \in Nat /\ lo <= j /\ j <= hi
      /\ dl \in [Threads -> Nat] /\ dh \in [Threads -> Nat]
      /\ h \in [Threads -> Nat] /\ c \in [Threads -> Nat] /\ f \in [Threads -> Nat]
      /\ NodeInv(at, lo, hi, dl, dh) /\ TakenInv(at, dl, dh, f, c)
  BY DEF Inv
<1>2. ASSUME NEW i \in Nat, Live(j + 1, hi, dl2, dh2, i) PROVE Live(lo, hi, dl, dh, i)
  <2>1. CASE j + 1 <= i /\ i <= hi
    BY <1>1, <2>1 DEF Live
  <2>2. ASSUME NEW u \in Threads, dl2[u] <= i, i <= dh2[u] PROVE Live(lo, hi, dl, dh, i)
    <3>1. CASE u = t
      BY <1>1, <2>2, <3>1 DEF Live
    <3>2. CASE u # t
      BY <1>1, <2>2, <3>2 DEF Live
    <3> QED
      BY <3>1, <3>2
  <2> QED
    BY <1>2, <2>1, <2>2 DEF Live
<1>3. \A u \in Threads : dh[u] < lo /\ dh[u] \in Nat
  BY <1>1 DEF NodeInv
<1>4. \A u \in Threads : dh2[u] < j + 1
  BY <1>1, <1>3
<1>5. ASSUME NEW u \in Threads, NEW v \in Threads, NEW i \in Nat, dl2[u] <= i, i <= dh2[u], dl2[v] <= i, i <= dh2[v]
      PROVE  u = v
  <2>1. CASE u # t /\ v # t
    BY <1>1, <1>5, <2>1 DEF NodeInv
  <2>2. CASE u = t /\ v # t
    BY <1>1, <1>3, <1>5, <2>2
  <2>3. CASE u # t /\ v = t
    BY <1>1, <1>3, <1>5, <2>3
  <2> QED
    BY <2>1, <2>2, <2>3
<1>6. NodeInv(at, j + 1, hi, dl2, dh2)'
  <2>1. \A i \in Nat : Live(j + 1, hi, dl2, dh2, i) => at[i] \in Threads /\ ~node'[at[i]].completed
    BY <1>1, <1>2 DEF NodeInv
  <2>2. \A i, m \in Nat : Live(j + 1, hi, dl2, dh2, i) /\ Live(j + 1, hi, dl2, dh2, m) /\ at[i] = at[m] => i = m
    BY <1>1, <1>2 DEF NodeInv
  <2>3. \A i : Live(j + 1, hi, dl2, dh2, i)' <=> Live(j + 1, hi, dl2, dh2, i)
    BY DEF Live
  <2>4. j + 1 <= hi + 1
    BY <1>1
  <2> QED
    BY <1>4, <1>5, <2>1, <2>2, <2>3, <2>4 DEF NodeInv
<1>7. WalkInv(at, j + 1, hi, k, h, c2)'
  <2>1. \A u \in Threads : ~Holds(u)' /\ ~Decrements(u)'
    BY DEF Holds, Decrements
  <2> QED
    BY <2>1 DEF WalkInv
<1>8. ASSUME NEW u \in Threads PROVE Taken(u, at, dl2[u], dh2[u], f2[u], c2[u])'
  <2>1. CASE u = t
    BY <2>1
  <2>2. CASE u # t
    <3>1. pc'[u] = pc[u] /\ loc'[u] = loc[u] /\ c2[u] = c[u] /\ f2[u] = f[u] /\ dl2[u] = dl[u] /\ dh2[u] = dh[u]
      BY <2>2
    <3>2. Taken(u, at, dl[u], dh[u], f[u], c[u]) /\ dl[u] \in Nat /\ dh[u] \in Nat /\ f[u] \in Nat /\ c[u] \in Nat
      BY <1>1 DEF TakenInv
    <3>3. Taken(u, at, dl[u], dh[u], f[u], c[u])'
      BY <3>1, <3>2, SameTaken
    <3> QED
      BY <3>1, <3>3
  <2> QED
    BY <2>1, <2>2
<1>9. j + 1 \in Nat
  BY <1>1
<1> QED
  BY <1>1, <1>6, <1>7, <1>8, <1>9 DEF Inv, TakenInv

LEMMA split_release_shape ==
  ASSUME IInv, NEW t \in Threads, split_release(t)
  PROVE  Shaped'
<1>0. TypeOK /\ CallInv /\ OwnerInv /\ HolderInv
  BY DEF IInv
<1>1. PICK at, lo, hi, k, dl, dh, h, c, f : Inv(at, lo, hi, k, dl, dh, h, c, f)
  BY DEF IInv, Shaped
<1>2. /\ \A u \in Threads \ {t} : pc'[u] = pc[u] /\ loc'[u] = loc[u]
      /\ pc[t] = "split" /\ pc'[t] = "complete" /\ node' = node
      /\ LocalIs(t, loc[t].state, loc[t].tail, loc[t].prev, loc[t].tail, loc[t].caller)
      /\ word' = S(word.flags \ {"QUEUE_LOCKED"}, word.rest)
  BY <1>0, split_release_does DEF Moves
<1>3. Holds(t) /\ loc[t].caller \in {"lock", "unlock"} /\ ~Takes(t)
  BY <1>0, <1>2 DEF CallInv, CallOK, Holds, Takes
<1>4. /\ "QUEUED" \in word.flags /\ h[t] \in lo .. hi /\ Walk(t, at, lo, k, h[t], c[t])
  BY <1>0, <1>1, <1>3, MainWalk
<1>5. /\ h \in [Threads -> Nat] /\ c \in [Threads -> Nat] /\ f \in [Threads -> Nat]
      /\ dl \in [Threads -> Nat] /\ dh \in [Threads -> Nat]
      /\ lo \in Nat /\ hi \in Nat /\ k \in Nat
      /\ Linked(at, lo, k, hi, at[lo + 1]) /\ word.rest = at[hi]
  <2>1. Splitting
    BY <1>2 DEF Splitting
  <2> QED
    BY <1>1, <1>4, <2>1 DEF Inv, QueueInv
<1>6. loc[t].tail = at[lo] /\ lo < k /\ k <= hi /\ lo \in lo .. hi
  BY <1>1, <1>2, <1>3, <1>4, <1>5 DEF Walk, Linked, Inv, WalkInv, Holder
<1>7. ~Counted /\ ~Counted' /\ \A u \in Threads \ {t} : ~Holds(u) /\ ~Decrements(u)
  <2>1. ~Counted
    BY <1>0, <1>2, <1>3 DEF HolderInv
  <2> QED
    BY <1>0, <1>3, <2>1, OtherHolders, split_release_owners DEF SameCount
<1> DEFINE dl2 == [dl EXCEPT ![t] = lo]
           dh2 == [dh EXCEPT ![t] = lo]
<1>8. /\ dl2 \in [Threads -> Nat] /\ dh2 \in [Threads -> Nat] /\ dl2[t] = lo /\ dh2[t] = lo
      /\ \A u \in Threads \ {t} : dl2[u] = dl[u] /\ dh2[u] = dh[u]
  BY <1>5
<1> HIDE DEF dl2, dh2
<1>9. ~Splitting'
  <2>1. ASSUME NEW u \in Threads, pc[u] \in {"split", "undo"} PROVE u = t
    BY <1>0, <1>7, <2>1 DEF CallInv, CallOK, Holds
  <2> QED
    BY <1>2, <2>1 DEF Splitting
<1>10. Linked(at, lo + 1, k, hi, at[lo + 1])'
  <2>1. /\ lo + 1 <= k /\ k <= hi
        /\ \A i \in lo + 1 + 1 .. hi : i \in lo + 1 .. hi
        /\ \A i \in lo + 1 .. hi - 1 : i \in lo .. hi - 1
    BY <1>5, <1>6
  <2>2. ASSUME NEW i \in k .. hi, Back(at, lo, i) PROVE Back(at, lo + 1, i)'
    <3>1. \A m \in lo + 1 .. i - 1 : m \in lo .. i - 1
      BY <1>5
    <3> QED
      BY <1>2, <2>2, <3>1 DEF Back
  <2> QED
    BY <1>2, <1>5, <2>1, <2>2 DEF Linked
<1>11. QueueInv(at, lo + 1, hi, k)'
  <2>1. "QUEUED" \in word'.flags /\ word'.rest = at[hi]
    BY <1>2, <1>4, <1>5 DEF S
  <2> QED
    BY <1>7, <1>9, <1>10, <2>1 DEF QueueInv
<1>12. ~Holds(t)' /\ ~Decrements(t)' /\ ~Takes(t)'
  BY <1>2, <1>3 DEF Holds, Decrements, Takes, LocalIs
<1>13. Taken(t, at, lo, lo, f[t], c[t])'
  BY <1>2, <1>5, <1>6, <1>12 DEF Taken, LocalIs
<1>14. Inv(at, lo + 1, hi, k, dl2, dh2, h, c, f)'
  BY <1>1, <1>2, <1>5, <1>6, <1>7, <1>8, <1>11, <1>12, <1>13, TakeFrame
<1> QED
  BY <1>14 DEF Shaped

LEMMA wake_queue_shape ==
  ASSUME IInv, NEW t \in Threads, wake_queue(t)
  PROVE  Shaped'
<1>0. TypeOK /\ CallInv /\ OwnerInv /\ HolderInv
  BY DEF IInv
<1>1. PICK at, lo, hi, k, dl, dh, h, c, f : Inv(at, lo, hi, k, dl, dh, h, c, f)
  BY DEF IInv, Shaped
<1>2. /\ \A u \in Threads \ {t} : pc'[u] = pc[u] /\ loc'[u] = loc[u]
      /\ pc[t] = "unlock_queue" /\ pc'[t] = "complete_all" /\ node' = node /\ word = loc[t].state
      /\ LocalIs(t, loc[t].state, loc[t].tail, loc[t].prev, loc[t].tail, loc[t].caller)
      /\ word' = IF "DOWNGRADED" \in word.flags THEN S({"LOCKED"}, 1) ELSE UNLOCKED
  BY <1>0, wake_queue_does DEF Moves
<1>3. Holds(t) /\ loc[t].caller \in {"lock", "unlock"}
  BY <1>0, <1>2 DEF CallInv, CallOK, Holds
<1>4. /\ "QUEUED" \in word.flags /\ h[t] \in lo .. hi /\ Walk(t, at, lo, k, h[t], c[t])
      /\ loc[t].state.rest = at[h[t]]
  BY <1>0, <1>1, <1>3, MainWalk
<1>5. /\ h \in [Threads -> Nat] /\ c \in [Threads -> Nat] /\ f \in [Threads -> Nat]
      /\ dl \in [Threads -> Nat] /\ dh \in [Threads -> Nat]
      /\ lo \in Nat /\ hi \in Nat /\ k \in Nat /\ word.rest = at[hi] /\ hi \in lo .. hi /\ lo <= hi
  BY <1>1, <1>4 DEF Inv, QueueInv
<1>6. h[t] = hi
  <2>1. /\ h[t] \in Nat /\ Live(lo, hi, dl, dh, h[t]) /\ Live(lo, hi, dl, dh, hi) /\ at[h[t]] = at[hi]
    BY <1>1, <1>2, <1>4, <1>5, LiveNodes
  <2> QED
    BY <1>1, <1>5, <2>1 DEF Inv, NodeInv
<1>7. loc[t].tail = at[lo] /\ Back(at, lo, hi) /\ node[at[hi]].prev = null
  <2>1. node[at[hi]].prev = null
    BY <1>0, <1>1, <1>4, MainQueue DEF Linked
  <2> QED
    BY <1>2, <1>4, <1>6, <2>1 DEF Walk
<1>8. \A u \in Threads \ {t} : ~Holds(u) /\ ~Decrements(u)
  BY <1>0, <1>3, wake_queue_owners DEF HolderInv
<1> DEFINE dl2 == [dl EXCEPT ![t] = lo]
           dh2 == [dh EXCEPT ![t] = hi]
<1>9. /\ dl2 \in [Threads -> Nat] /\ dh2 \in [Threads -> Nat] /\ dl2[t] = lo /\ dh2[t] = hi
      /\ \A u \in Threads \ {t} : dl2[u] = dl[u] /\ dh2[u] = dh[u]
  BY <1>5
<1> HIDE DEF dl2, dh2
<1>10. "QUEUED" \notin word'.flags
  BY <1>2 DEF S, UNLOCKED
<1>11. QueueInv(at, hi + 1, hi, k)'
  BY <1>10 DEF QueueInv, Counted
<1>12. ~Holds(t)' /\ ~Decrements(t)' /\ ~Takes(t)'
  BY <1>2, <1>3 DEF Holds, Decrements, Takes, LocalIs
<1>13. Taken(t, at, lo, hi, f[t], c[t])'
  <2>1. Back(at, lo, hi)'
    BY <1>2, <1>7 DEF Back
  <2> QED
    BY <1>2, <1>5, <1>7, <1>12, <2>1 DEF Taken, LocalIs
<1>14. Inv(at, hi + 1, hi, k, dl2, dh2, h, c, f)'
  BY <1>1, <1>2, <1>5, <1>8, <1>9, <1>11, <1>12, <1>13, TakeFrame
<1> QED
  BY <1>14 DEF Shaped

LEMMA downgrade_slow_shape ==
  ASSUME IInv, NEW t \in Threads, downgrade_slow(t)
  PROVE  Shaped'
<1>0. TypeOK /\ CallInv /\ OwnerInv /\ HolderInv
  BY DEF IInv
<1>1. PICK at, lo, hi, k, dl, dh, h, c, f : Inv(at, lo, hi, k, dl, dh, h, c, f)
  BY DEF IInv, Shaped
<1>2. /\ \A u \in Threads \ {t} : pc'[u] = pc[u] /\ loc'[u] = loc[u]
      /\ pc[t] = "downgrade" /\ loc[t].caller = "none" /\ node' = node /\ "QUEUED" \in word.flags
  BY <1>0, downgrade_slow_does, StepNodes DEF Moves, CallInv, CallOK
<1>3. CASE /\ pc'[t] = "reading" /\ LocalIs(t, UNLOCKED, null, null, null, "none")
           /\ word' = S(word.flags \cup {"DOWNGRADED"}, word.rest)
  <2>1. ~Active(t) /\ ~Active(t)'
    BY <1>2, <1>3 DEF Active, Holds, Decrements, Takes, LocalIs
  <2>2. "QUEUED" \in word'.flags /\ word'.rest = word.rest
    BY <1>2, <1>3 DEF S
  <2>3. SameCount
    BY downgrade_slow_owners
  <2> QED
    BY <1>2, <1>3, <2>1, <2>2, <2>3, PassiveShape
<1>4. CASE /\ pc'[t] = "find" /\ "QUEUE_LOCKED" \notin word.flags
           /\ LocalIs(t, word, word.rest, null, null, "downgrade") /\ word' = S({"LOCKED"}, 1)
  <2>1. \A u \in Threads : ~Holds(u) /\ ~Decrements(u)
    <3>1. \A u \in Threads : ~Holds(u)
      BY <1>0, <1>4 DEF HolderInv
    <3>2. Reading = {}
      BY downgrade_slow_owners
    <3> QED
      BY <1>0, <3>1, <3>2, WordOfOwners
  <2>2. ~Splitting
    BY <1>0, <2>1 DEF Splitting, Holds, CallInv, CallOK
  <2>3. /\ h \in [Threads -> Nat] /\ c \in [Threads -> Nat] /\ f \in [Threads -> Nat]
        /\ dl \in [Threads -> Nat] /\ dh \in [Threads -> Nat]
        /\ lo \in Nat /\ hi \in Nat /\ k \in Nat /\ word.rest = at[hi] /\ Linked(at, lo, k, hi, at[lo])
    BY <1>1, <1>2, <2>2 DEF Inv, QueueInv
  <2>4. lo <= hi /\ hi \in lo .. hi /\ k <= hi
    BY <2>3 DEF Linked
  <2> DEFINE dl2 == [dl EXCEPT ![t] = lo]
             dh2 == [dh EXCEPT ![t] = hi]
             c2 == [c EXCEPT ![t] = hi]
             f2 == [f EXCEPT ![t] = k]
  <2>5. /\ dl2 \in [Threads -> Nat] /\ dh2 \in [Threads -> Nat] /\ dl2[t] = lo /\ dh2[t] = hi
        /\ c2 \in [Threads -> Nat] /\ f2 \in [Threads -> Nat] /\ c2[t] = hi /\ f2[t] = k
        /\ \A u \in Threads \ {t} : dl2[u] = dl[u] /\ dh2[u] = dh[u] /\ c2[u] = c[u] /\ f2[u] = f[u]
    BY <2>3
  <2> HIDE DEF dl2, dh2, c2, f2
  <2>6. "QUEUED" \notin word'.flags
    BY <1>4 DEF S
  <2>7. QueueInv(at, hi + 1, hi, k)'
    BY <2>6 DEF QueueInv, Counted
  <2>8. ~Holds(t)' /\ ~Decrements(t)' /\ Takes(t)'
    BY <1>4 DEF Holds, Decrements, Takes, LocalIs
  <2>9. Taken(t, at, lo, hi, k, hi)'
    <3>1. Linked(at, lo, k, hi, at[lo])'
      BY <1>2, <2>3, SameLinked
    <3>2. Back(at, hi, hi)'
      BY <2>3 DEF Back
    <3>3. Walk(t, at, lo, k, hi, hi)'
      BY <1>4, <2>3, <2>4, <3>2 DEF Walk, LocalIs
    <3> QED
      BY <1>4, <2>8, <3>1, <3>3 DEF Taken
  <2>10. Inv(at, hi + 1, hi, k, dl2, dh2, h, c2, f2)'
    BY <1>1, <1>2, <2>1, <2>3, <2>4, <2>5, <2>7, <2>8, <2>9, TakeFrame
  <2> QED
    BY <2>10 DEF Shaped
<1> QED
  BY <1>0, <1>3, <1>4, downgrade_slow_does DEF Moves

\* A taken node is completed: its thread may leave, and nobody has its number.
LEMMA complete_shape ==
  ASSUME IInv, NEW t \in Threads, complete(t)
  PROVE  Shaped'
<1>0. TypeOK /\ CallInv /\ OwnerInv /\ HolderInv
  BY DEF IInv
<1>1. PICK at, lo, hi, k, dl, dh, h, c, f : Inv(at, lo, hi, k, dl, dh, h, c, f)
  BY DEF IInv, Shaped
<1>2. pc[t] \in {"complete", "complete_all"} /\ loc[t].prev = null /\ loc[t].caller \in {"lock", "unlock", "downgrade"}
  BY <1>0 DEF complete, Goto, CallInv, CallOK
<1>3. /\ h \in [Threads -> Nat] /\ c \in [Threads -> Nat] /\ dl \in [Threads -> Nat] /\ dh \in [Threads -> Nat]
      /\ lo \in Nat /\ hi \in Nat /\ Taken(t, at, dl[t], dh[t], f[t], c[t]) /\ NodeInv(at, lo, hi, dl, dh)
  BY <1>1 DEF Inv, TakenInv
<1>4. /\ dl[t] \in Nat /\ dh[t] \in Nat /\ dl[t] <= dh[t] /\ loc[t].current = at[dl[t]] /\ dl[t] \in dl[t] .. dh[t]
      /\ pc[t] = "complete" => dl[t] = dh[t]
      /\ pc[t] = "complete_all" => Back(at, dl[t], dh[t]) /\ node[at[dh[t]]].prev = null
  BY <1>2, <1>3 DEF Taken
<1> DEFINE n == at[dl[t]]
           dl2 == [dl EXCEPT ![t] = dl[t] + 1]
<1>5. n \in Threads
  BY <1>1, <1>4, LiveNodes DEF Registered
<1>6. /\ \A u \in Threads \ {t} : pc'[u] = pc[u] /\ loc'[u] = loc[u]
      /\ pc'[t] = "unpark" /\ word' = word /\ loc'[t].current = n /\ loc'[t].caller = loc[t].caller
      /\ pc[t] = "complete" => loc'[t].prev = null
      /\ pc[t] = "complete_all" => loc'[t].prev = node[n].prev
      /\ NodeIs(n, node[n].next, node[n].prev, node[n].tail, TRUE)
  BY <1>0, <1>2, <1>4, <1>5, complete_does DEF Moves, LocalIs
<1>7. dl2 \in [Threads -> Nat] /\ dl2[t] = dl[t] + 1 /\ \A u \in Threads \ {t} : dl2[u] = dl[u]
  BY <1>3, <1>4
<1> HIDE DEF dl2
<1>8. /\ \A i \in lo .. hi : node'[at[i]] = node[at[i]]
      /\ \A u \in Threads \ {t} : \A i \in dl[u] .. dh[u] : node'[at[i]] = node[at[i]]
      /\ \A i \in dl[t] .. dh[t] : i # dl[t] => node'[at[i]] = node[at[i]]
  BY <1>1, <1>4, <1>6, TakenNode DEF NodeIs
<1>9. NodeInv(at, lo, hi, dl2, dh)'
  <2>1. ASSUME NEW i \in Nat, NEW u \in Threads, dl2[u] <= i, i <= dh[u]
        PROVE  dl[u] <= i /\ node'[at[i]] = node[at[i]]
    <3>1. dl[u] \in Nat /\ dh[u] \in Nat
      BY <1>3
    <3>2. CASE u = t
      <4>1. i \in dl[t] .. dh[t] /\ i # dl[t] /\ dl[t] <= i
        BY <1>4, <1>7, <2>1, <3>2
      <4> QED
        BY <1>8, <3>2, <4>1
    <3>3. CASE u # t
      <4>1. i \in dl[u] .. dh[u] /\ dl[u] <= i
        BY <1>7, <2>1, <3>1, <3>3
      <4> QED
        BY <1>8, <3>3, <4>1
    <3> QED
      BY <3>2, <3>3
  <2>2. ASSUME NEW i \in Nat, Live(lo, hi, dl2, dh, i)
        PROVE  Live(lo, hi, dl, dh, i) /\ node'[at[i]] = node[at[i]]
    <3>1. CASE lo <= i /\ i <= hi
      <4>1. i \in lo .. hi
        BY <1>3, <3>1
      <4> QED
        BY <1>8, <3>1, <4>1 DEF Live
    <3>2. CASE \E u \in Threads : dl2[u] <= i /\ i <= dh[u]
      BY <2>1, <3>2 DEF Live
    <3> QED
      BY <2>2, <3>1, <3>2 DEF Live
  <2>3. \A i \in Nat : Live(lo, hi, dl2, dh, i) => at[i] \in Threads /\ ~node'[at[i]].completed
    BY <1>3, <2>2 DEF NodeInv
  <2>4. \A i, m \in Nat : Live(lo, hi, dl2, dh, i) /\ Live(lo, hi, dl2, dh, m) /\ at[i] = at[m] => i = m
    BY <1>3, <2>2 DEF NodeInv
  <2>5. \A u, v \in Threads : \A i \in Nat : dl2[u] <= i /\ i <= dh[u] /\ dl2[v] <= i /\ i <= dh[v] => u = v
    BY <1>3, <2>1 DEF NodeInv
  <2>6. \A i : Live(lo, hi, dl2, dh, i)' <=> Live(lo, hi, dl2, dh, i)
    BY DEF Live
  <2> QED
    BY <1>3, <2>3, <2>4, <2>5, <2>6 DEF NodeInv
<1>10. ~Holds(t)' /\ ~Decrements(t)' /\ ~Takes(t)'
  BY <1>2, <1>6 DEF Holds, Decrements, Takes
<1>11. Taken(t, at, dl2[t], dh[t], f[t], c[t])'
  <2>1. CASE pc[t] = "complete"
    <3>1. ~(dl2[t] <= dh[t]) /\ dl2[t] = dh[t] + 1
      BY <1>4, <1>7, <2>1
    <3>2. Back(at, dl2[t], dh[t])'
      BY <1>4, <3>1 DEF Back
    <3> QED
      BY <1>5, <1>6, <1>10, <2>1, <3>1, <3>2 DEF Taken
  <2>2. CASE pc[t] = "complete_all"
    <3>1. Back(at, dl[t] + 1, dh[t])'
      <4>1. \A m \in dl[t] + 1 .. dh[t] - 1 : m \in dl[t] .. dh[t] /\ m # dl[t] /\ m \in dl[t] .. dh[t] - 1
        BY <1>4
      <4> QED
        BY <1>4, <1>8, <2>2, <4>1 DEF Back
    <3>2. ASSUME dl[t] + 1 <= dh[t] PROVE node[n].prev = at[dl[t] + 1] /\ node'[at[dh[t]]].prev = null
      <4>1. dl[t] \in dl[t] .. dh[t] - 1 /\ dh[t] \in dl[t] .. dh[t] /\ dh[t] # dl[t]
        BY <1>4, <3>2
      <4> QED
        BY <1>4, <1>8, <2>2, <4>1 DEF Back
    <3>3. ASSUME ~(dl[t] + 1 <= dh[t]) PROVE node[n].prev = null
      <4>1. dl[t] = dh[t]
        BY <1>4, <3>3
      <4> QED
        BY <1>4, <2>2, <4>1
    <3> QED
      BY <1>5, <1>6, <1>7, <1>10, <2>2, <3>1, <3>2, <3>3 DEF Taken
  <2> QED
    BY <1>2, <2>1, <2>2
<1>12. SameCount
  BY complete_owners
<1>13. Inv(at, lo, hi, k, dl2, dh, h, c, f)'
  BY <1>0, <1>1, <1>2, <1>3, <1>6, <1>7, <1>8, <1>9, <1>10, <1>11, <1>12, TakerFrame
<1> QED
  BY <1>13 DEF Shaped

\* The places after the queue are free.
LEMMA SameAt ==
  ASSUME NEW at, NEW at2, NEW lo, NEW hi, NEW k, NEW dl, NEW dh, NEW h, NEW c, NEW f,
         TypeOK, CallInv, OwnerInv, HolderInv, Inv(at, lo, hi, k, dl, dh, h, c, f),
         at2 \in [Nat -> Links], \A i \in 0 .. hi : at2[i] = at[i]
  PROVE  Inv(at2, lo, hi, k, dl, dh, h, c, f)
<1>1. /\ at \in [Nat -> Links] /\ lo \in Nat /\ hi \in Nat /\ k \in Nat
      /\ dl \in [Threads -> Nat] /\ dh \in [Threads -> Nat]
      /\ h \in [Threads -> Nat] /\ c \in [Threads -> Nat] /\ f \in [Threads -> Nat]
      /\ NodeInv(at, lo, hi, dl, dh) /\ QueueInv(at, lo, hi, k)
      /\ WalkInv(at, lo, hi, k, h, c) /\ TakenInv(at, dl, dh, f, c)
  BY DEF Inv
<1>2. /\ \A i \in lo .. hi : at2[i] = at[i] /\ i \in 0 .. hi
      /\ \A u \in Threads : \A i \in dl[u] .. dh[u] : at2[i] = at[i] /\ i \in 0 .. hi
      /\ \A i \in Nat : Live(lo, hi, dl, dh, i) => at2[i] = at[i]
  <2>1. \A u \in Threads : dh[u] <= hi /\ dl[u] \in Nat /\ dh[u] \in Nat
    BY <1>1 DEF NodeInv
  <2> QED
    BY <1>1, <2>1 DEF Live
<1>3. NodeInv(at2, lo, hi, dl, dh)
  <2>1. \A i \in Nat : Live(lo, hi, dl, dh, i) => at2[i] \in Threads /\ ~node[at2[i]].completed
    BY <1>1, <1>2 DEF NodeInv
  <2>2. \A i, m \in Nat : Live(lo, hi, dl, dh, i) /\ Live(lo, hi, dl, dh, m) /\ at2[i] = at2[m] => i = m
    BY <1>1, <1>2 DEF NodeInv
  <2> QED
    BY <1>1, <2>1, <2>2 DEF NodeInv
<1>4. ASSUME NEW i \in Nat, NEW j \in Nat, j <= hi PROVE Back(at2, i, j) <=> Back(at, i, j)
  <2>1. \A m \in i .. j - 1 : m \in 0 .. hi /\ m + 1 \in 0 .. hi
    BY <1>1, <1>4
  <2> QED
    BY <2>1 DEF Back
<1>5. ASSUME NEW l \in Nat, NEW j \in Nat, NEW u \in Nat, NEW e, u <= hi, Linked(at, l, j, u, e)
      PROVE  Linked(at2, l, j, u, e)
  <2>1. l <= j /\ j <= u
    BY <1>5 DEF Linked
  <2>2. \A i \in l + 1 .. u : node[at2[i]].next = at2[i - 1]
    <3>1. \A i \in l + 1 .. u : i \in 0 .. hi /\ i - 1 \in 0 .. hi
      BY <1>1, <1>5
    <3> QED
      BY <1>5, <3>1 DEF Linked
  <2>3. j \in 0 .. hi /\ u \in 0 .. hi
    BY <1>1, <1>5, <2>1
  <2>4. node[at2[j]].tail = e /\ node[at2[u]].prev = null
    BY <1>5, <2>3 DEF Linked
  <2>5. ASSUME NEW i \in j .. u, node[at2[i]].tail # null PROVE node[at2[i]].tail = e /\ Back(at2, l, i)
    <3>1. i \in 0 .. hi /\ i \in Nat /\ i <= hi
      BY <1>1, <1>5
    <3> QED
      BY <1>4, <1>5, <2>5, <3>1 DEF Linked
  <2>6. ASSUME NEW i \in l .. u - 1 PROVE node[at2[i]].prev \in {null, at2[i + 1]}
    <3>1. i \in 0 .. hi /\ i + 1 \in 0 .. hi
      BY <1>1, <1>5
    <3> QED
      BY <1>5, <3>1 DEF Linked
  <2> QED
    BY <2>1, <2>2, <2>4, <2>5, <2>6 DEF Linked
<1>6. QueueInv(at2, lo, hi, k)
  <2>1. ASSUME "QUEUED" \in word.flags
        PROVE  /\ word.rest = at2[hi]
               /\ ~Splitting => Linked(at2, lo, k, hi, at2[lo])
               /\ Splitting => Linked(at2, lo, k, hi, at2[lo + 1])
               /\ at2[lo] = at[lo]
    <3>1. /\ word.rest = at[hi]
          /\ ~Splitting => Linked(at, lo, k, hi, at[lo])
          /\ Splitting => Linked(at, lo, k, hi, at[lo + 1])
      BY <1>1, <2>1 DEF QueueInv
    <3>2. lo \in 0 .. hi /\ hi \in 0 .. hi
      BY <1>1, <2>1, MainQueue
    <3>3. Splitting => lo + 1 \in 0 .. hi
      <4>1. ASSUME NEW t \in Threads, pc[t] \in {"split", "undo"} PROVE lo < k
        BY <1>1, <4>1 DEF CallInv, CallOK, Holds, WalkInv, Holder
      <4>2. k <= hi
        BY <1>1, <2>1, MainQueue
      <4> QED
        BY <1>1, <4>1, <4>2 DEF Splitting
    <3>4. hi <= hi
      BY <1>1
    <3> QED
      BY <1>1, <1>5, <3>1, <3>2, <3>3, <3>4
  <2>2. Counted => node[at2[lo]].next = Cardinality(Reading)
    BY <1>1, <2>1 DEF QueueInv, Counted
  <2> QED
    BY <1>1, <2>1, <2>2 DEF QueueInv
<1>7. ASSUME NEW t \in Threads, NEW l \in Nat, NEW j \in Nat, NEW u \in Nat, NEW d \in Nat, l <= u, u <= hi, l <= j,
             Walk(t, at, l, j, u, d)
      PROVE  Walk(t, at2, l, j, u, d)
  <2>1. u \in 0 .. hi /\ l \in 0 .. hi /\ (d <= u => d \in 0 .. hi)
    BY <1>1, <1>7
  <2>2. (Back(at2, d, u) <=> Back(at, d, u)) /\ (Back(at2, l, u) <=> Back(at, l, u))
    BY <1>4, <1>7
  <2> QED
    BY <1>7, <2>1, <2>2 DEF Walk
<1>8. WalkInv(at2, lo, hi, k, h, c)
  <2> SUFFICES ASSUME NEW t \in Threads, Holds(t) \/ Decrements(t)
               PROVE  /\ Walk(t, at2, lo, k, h[t], c[t]) /\ h[t] <= hi
                      /\ Holds(t) => Holder(t, at2, lo, hi, k, h[t])
    BY DEF WalkInv
  <2>1. "QUEUED" \in word.flags /\ h[t] \in lo .. hi /\ c[t] \in Nat /\ Walk(t, at, lo, k, h[t], c[t])
    BY MainWalk
  <2>2. lo <= k /\ k <= hi
    BY <2>1, MainQueue DEF Linked
  <2>3. h[t] \in Nat /\ h[t] <= hi /\ lo <= h[t]
    BY <1>1, <2>1
  <2>4. Walk(t, at2, lo, k, h[t], c[t])
    BY <1>1, <1>7, <2>1, <2>2, <2>3
  <2>5. ASSUME Holds(t) PROVE Holder(t, at2, lo, hi, k, h[t])
    <3>1. Holder(t, at, lo, hi, k, h[t])
      BY <1>1, <2>5 DEF WalkInv
    <3>2. /\ \A i \in h[t] .. hi : i \in 0 .. hi
          /\ \A i \in h[t] + 1 .. hi : i \in 0 .. hi
          /\ \A i \in k + 1 .. hi : i \in 0 .. hi
          /\ k \in 0 .. hi
      BY <1>1, <2>2, <2>3
    <3> QED
      BY <3>1, <3>2 DEF Holder
  <2> QED
    BY <2>3, <2>4, <2>5
<1>9. TakenInv(at2, dl, dh, f, c)
  <2> SUFFICES ASSUME NEW t \in Threads PROVE Taken(t, at2, dl[t], dh[t], f[t], c[t])
    BY DEF TakenInv
  <2>1. /\ Taken(t, at, dl[t], dh[t], f[t], c[t]) /\ dl[t] \in Nat /\ dh[t] \in Nat /\ f[t] \in Nat /\ c[t] \in Nat
        /\ dh[t] <= hi
    BY <1>1 DEF TakenInv, NodeInv
  <2>2. dl[t] <= dh[t] => at2[dl[t]] = at[dl[t]] /\ at2[dh[t]] = at[dh[t]]
    BY <1>1, <2>1
  <2>3. Back(at2, dl[t], dh[t]) <=> Back(at, dl[t], dh[t])
    BY <1>4, <2>1
  <2>4. ASSUME Takes(t)
        PROVE  Linked(at2, dl[t], f[t], dh[t], at2[dl[t]]) /\ Walk(t, at2, dl[t], f[t], dh[t], c[t])
    <3>1. Linked(at, dl[t], f[t], dh[t], at[dl[t]]) /\ Walk(t, at, dl[t], f[t], dh[t], c[t])
      BY <2>1, <2>4 DEF Taken
    <3>2. dl[t] <= dh[t] /\ dl[t] <= f[t]
      BY <2>1, <3>1 DEF Linked
    <3>3. Linked(at2, dl[t], f[t], dh[t], at[dl[t]])
      BY <1>5, <2>1, <3>1
    <3>4. Walk(t, at2, dl[t], f[t], dh[t], c[t])
      BY <1>7, <2>1, <3>1, <3>2
    <3> QED
      BY <2>2, <3>2, <3>3, <3>4
  <2> QED
    BY <2>1, <2>2, <2>3, <2>4 DEF Taken
<1> QED
  BY <1>1, <1>3, <1>6, <1>8, <1>9 DEF Inv

\* A node is put in front of the others.
LEMMA ExtendLinked ==
  ASSUME NEW at, NEW l \in Nat, NEW k \in Nat, NEW u \in Nat, NEW e, Linked(at, l, k, u, e),
         \A i \in l .. u : node'[at[i]] = node[at[i]],
         node'[at[u + 1]].next = at[u], node'[at[u + 1]].prev = null, node'[at[u + 1]].tail = null
  PROVE  Linked(at, l, k, u + 1, e)'
<1>1. Linked(at, l, k, u, e)'
  BY SameLinked
<1>2. l <= k /\ k <= u /\ k <= u + 1
  BY DEF Linked
<1>3. ASSUME NEW i \in l + 1 .. u + 1 PROVE node'[at[i]].next = at[i - 1]
  <2>1. CASE i = u + 1
    <3>1. i - 1 = u
      BY <2>1
    <3> QED
      BY <2>1, <3>1
  <2>2. CASE i # u + 1
    <3>1. i \in l + 1 .. u
      BY <2>2
    <3> QED
      BY <1>1, <3>1 DEF Linked
  <2> QED
    BY <2>1, <2>2
<1>4. ASSUME NEW i \in k .. u + 1, node'[at[i]].tail # null PROVE node'[at[i]].tail = e /\ Back(at, l, i)'
  <2>1. i \in k .. u
    BY <1>4
  <2> QED
    BY <1>1, <1>4, <2>1 DEF Linked
<1>5. ASSUME NEW i \in l .. u + 1 - 1 PROVE node'[at[i]].prev \in {null, at[i + 1]}
  <2>1. CASE i = u
    BY <1>1, <2>1 DEF Linked
  <2>2. CASE i # u
    <3>1. i \in l .. u - 1
      BY <2>2
    <3> QED
      BY <1>1, <3>1 DEF Linked
  <2> QED
    BY <2>1, <2>2
<1>6. node'[at[k]].tail = e
  BY <1>1 DEF Linked
<1> QED
  BY <1>2, <1>3, <1>4, <1>5, <1>6 DEF Linked

\* A queue of one node.
LEMMA OneLinked ==
  ASSUME NEW at, NEW l \in Nat, NEW e, node'[at[l]].tail = e, node'[at[l]].prev = null
  PROVE  Linked(at, l, l, l, e)'
<1>1. Back(at, l, l)'
  BY DEF Back
<1>2. ASSUME NEW i \in l .. l - 1 PROVE FALSE
  OBVIOUS
<1>3. ASSUME NEW i \in l + 1 .. l PROVE FALSE
  OBVIOUS
<1>4. \A i \in l .. l : i = l
  OBVIOUS
<1> QED
  BY <1>1, <1>2, <1>3, <1>4 DEF Linked

\* A new node becomes the head: the next number.
LEMMA enqueue_shape ==
  ASSUME IInv, NEW t \in Threads, enqueue(t)
  PROVE  Shaped'
<1>0. TypeOK /\ CallInv /\ OwnerInv /\ HolderInv
  BY DEF IInv
<1>1. PICK at0, lo, hi, k, dl, dh, h, c, f : Inv(at0, lo, hi, k, dl, dh, h, c, f)
  BY DEF IInv, Shaped
<1>2. /\ at0 \in [Nat -> Links] /\ lo \in Nat /\ hi \in Nat /\ k \in Nat
      /\ dl \in [Threads -> Nat] /\ dh \in [Threads -> Nat]
      /\ h \in [Threads -> Nat] /\ c \in [Threads -> Nat] /\ f \in [Threads -> Nat]
  BY <1>1 DEF Inv
<1> DEFINE at == [at0 EXCEPT ![hi + 1] = t]
           h2 == [h EXCEPT ![t] = hi + 1]
           c2 == [c EXCEPT ![t] = hi + 1]
<1>3. at \in [Nat -> Links] /\ at[hi + 1] = t /\ \A i \in 0 .. hi : at[i] = at0[i]
  BY <1>2 DEF Links
<1>4. /\ h2 \in [Threads -> Nat] /\ c2 \in [Threads -> Nat] /\ h2[t] = hi + 1 /\ c2[t] = hi + 1
      /\ \A u \in Threads \ {t} : h2[u] = h[u] /\ c2[u] = c[u]
  BY <1>2
<1> HIDE DEF at, h2, c2
<1>5. Inv(at, lo, hi, k, dl, dh, h, c, f)
  BY <1>0, <1>1, <1>3, SameAt
<1>6. /\ NodeInv(at, lo, hi, dl, dh) /\ QueueInv(at, lo, hi, k)
      /\ WalkInv(at, lo, hi, k, h, c) /\ TakenInv(at, dl, dh, f, c)
  BY <1>5 DEF Inv
<1>7. pc[t] = "attempt" /\ loc[t].caller = "none" /\ node[t].completed /\ ~Takes(t)
  BY <1>0 DEF enqueue, CallInv, CallOK, Takes
<1>8. /\ \A u \in Threads \ {t} : pc'[u] = pc[u] /\ loc'[u] = loc[u]
      /\ node'[t].next = word.rest /\ node'[t].prev = null /\ ~node'[t].completed
      /\ node'[t].tail = IF "QUEUED" \in word.flags THEN null ELSE t
      /\ \A u \in Threads \ {t} : node'[u] = node[u]
      /\ \/ pc'[t] = "wait" /\ loc'[t].caller = "none"
         \/ /\ pc'[t] = "find" /\ loc'[t].state.rest = t /\ loc'[t].current = t /\ loc'[t].caller = "lock"
            /\ "QUEUED" \in word.flags
      /\ "QUEUED" \in word'.flags /\ word'.rest = t
  <2>1. CASE /\ Moves(t, "attempt", "wait") /\ "QUEUED" \notin word.flags
             /\ LocalIs(t, UNLOCKED, null, null, null, "none")
             /\ NodeIs(t, word.rest, null, t, FALSE)
             /\ word' = S((word.flags \cap {"DOWNGRADED", "LOCKED"}) \cup {"QUEUED"}, t)
    BY <2>1 DEF Moves, LocalIs, NodeIs, S
  <2>2. CASE /\ Moves(t, "attempt", "wait") /\ "QUEUED" \in word.flags
             /\ LocalIs(t, UNLOCKED, null, null, null, "none")
             /\ NodeIs(t, word.rest, null, null, FALSE)
             /\ word' = S((word.flags \cap {"DOWNGRADED", "LOCKED"}) \cup {"QUEUED", "QUEUE_LOCKED"}, t)
    BY <2>2 DEF Moves, LocalIs, NodeIs, S
  <2>3. CASE /\ Moves(t, "attempt", "find") /\ "QUEUED" \in word.flags
             /\ LocalIs(t, word', t, null, null, "lock")
             /\ NodeIs(t, word.rest, null, null, FALSE)
             /\ word' = S((word.flags \cap {"DOWNGRADED", "LOCKED"}) \cup {"QUEUED", "QUEUE_LOCKED"}, t)
    BY <2>3 DEF Moves, LocalIs, NodeIs, S
  <2> QED
    BY <1>0, <2>1, <2>2, <2>3, enqueue_does
<1>9. \A i \in Nat : Live(lo, hi, dl, dh, i) => at[i] \in Threads /\ at[i] # t /\ node'[at[i]] = node[at[i]]
  BY <1>6, <1>7, <1>8 DEF NodeInv
<1>10. /\ \A i \in lo .. hi : node'[at[i]] = node[at[i]]
       /\ \A u \in Threads : \A i \in dl[u] .. dh[u] : node'[at[i]] = node[at[i]]
  BY <1>5, <1>9, LiveNodes
<1>11. NodeInv(at, lo, hi + 1, dl, dh)'
  <2>1. lo <= hi + 1 + 1 /\ hi + 1 \in Nat
    BY <1>2, <1>6 DEF NodeInv
  <2>2. ASSUME NEW i \in Nat, Live(lo, hi + 1, dl, dh, i) PROVE Live(lo, hi, dl, dh, i) \/ i = hi + 1
    BY <1>2, <2>2 DEF Live
  <2>3. \A i \in Nat : Live(lo, hi + 1, dl, dh, i) => at[i] \in Threads /\ ~node'[at[i]].completed
    BY <1>3, <1>6, <1>8, <1>9, <2>2 DEF NodeInv
  <2>4. ASSUME NEW i \in Nat, NEW m \in Nat, Live(lo, hi + 1, dl, dh, i), Live(lo, hi + 1, dl, dh, m), at[i] = at[m]
        PROVE  i = m
    <3>1. CASE i = hi + 1 \/ m = hi + 1
      BY <1>3, <1>9, <2>2, <2>4, <3>1
    <3>2. CASE i # hi + 1 /\ m # hi + 1
      BY <1>6, <2>2, <2>4, <3>2 DEF NodeInv
    <3> QED
      BY <3>1, <3>2
  <2>5. \A i : Live(lo, hi + 1, dl, dh, i)' <=> Live(lo, hi + 1, dl, dh, i)
    BY DEF Live
  <2> QED
    BY <1>6, <2>1, <2>3, <2>4, <2>5 DEF NodeInv
<1>12. Splitting' <=> Splitting
  BY <1>7, <1>8 DEF Splitting
<1>13. Reading' = Reading
  BY enqueue_owners
<1>14. CASE "QUEUED" \notin word.flags
  <2>1. \A u \in Threads : ~Holds(u) /\ ~Decrements(u)
    BY <1>0, <1>14 DEF HolderInv, OwnerInv
  <2>2. ~Splitting
    BY <1>0, <2>1 DEF Splitting, Holds, CallInv, CallOK
  <2>3. \A u \in Threads : ~Holds(u)' /\ ~Decrements(u)'
    BY <1>8, <1>14, <2>1 DEF Holds, Decrements
  <2>4. lo = hi + 1 /\ hi + 1 \in Nat
    BY <1>2, <1>6, <1>14 DEF QueueInv
  <2>5. Linked(at, lo, hi + 1, hi + 1, at[lo])'
    <3>5. node'[at[hi + 1]].tail = at[hi + 1] /\ node'[at[hi + 1]].prev = null
      BY <1>3, <1>8, <1>14
    <3>7. Linked(at, hi + 1, hi + 1, hi + 1, at[hi + 1])'
      BY <2>4, <3>5, OneLinked
    <3> QED
      BY <2>4, <3>7
  <2>6. node'[at[lo]].next = Cardinality(Reading')
    BY <1>3, <1>8, <1>13, <1>14, <2>4, enqueue_owners
  <2>7. QueueInv(at, lo, hi + 1, hi + 1)'
    BY <1>3, <1>8, <1>12, <2>2, <2>5, <2>6 DEF QueueInv
  <2>8. ASSUME NEW u \in Threads PROVE Taken(u, at, dl[u], dh[u], f[u], c2[u])'
    <3>1. CASE u = t
      BY <1>5, <1>7, <1>8, <1>14, <3>1, TakesNone DEF Taken, Takes
    <3>2. CASE u # t
      <4>1. pc'[u] = pc[u] /\ loc'[u] = loc[u] /\ c2[u] = c[u]
        BY <1>4, <1>8, <3>2
      <4>2. Taken(u, at, dl[u], dh[u], f[u], c[u]) /\ dl[u] \in Nat /\ dh[u] \in Nat /\ f[u] \in Nat /\ c[u] \in Nat
        BY <1>2, <1>6 DEF TakenInv
      <4>3. Taken(u, at, dl[u], dh[u], f[u], c[u])'
        BY <1>10, <4>1, <4>2, SameTaken
      <4> QED
        BY <4>1, <4>3
    <3> QED
      BY <3>1, <3>2
  <2>9. Inv(at, lo, hi + 1, hi + 1, dl, dh, h2, c2, f)'
    BY <1>2, <1>3, <1>4, <1>11, <2>3, <2>4, <2>7, <2>8 DEF Inv, WalkInv, TakenInv
  <2> QED
    BY <2>9 DEF Shaped
<1>15. CASE "QUEUED" \in word.flags
  <2>1. word.rest = at[hi] /\ hi + 1 \in Nat /\ lo \in lo .. hi /\ k <= hi + 1 /\ lo <= k /\ k <= hi
    BY <1>0, <1>2, <1>5, <1>6, <1>15, MainQueue DEF QueueInv
  <2>2. /\ node'[at[hi + 1]].next = at[hi] /\ node'[at[hi + 1]].prev = null /\ node'[at[hi + 1]].tail = null
    BY <1>3, <1>8, <1>15, <2>1
  <2>3. ASSUME NEW e, Linked(at, lo, k, hi, e) PROVE Linked(at, lo, k, hi + 1, e)'
    BY <1>2, <1>10, <2>2, <2>3, ExtendLinked
  <2>4. QueueInv(at, lo, hi + 1, k)'
    <3>1. /\ ~Splitting => Linked(at, lo, k, hi + 1, at[lo])'
          /\ Splitting => Linked(at, lo, k, hi + 1, at[lo + 1])'
      BY <1>6, <1>15, <2>3 DEF QueueInv
    <3>2. Counted' => node'[at[lo]].next = Cardinality(Reading')
      BY <1>6, <1>10, <1>13, <1>15, <2>1, enqueue_owners DEF SameCount, QueueInv
    <3> QED
      BY <1>3, <1>8, <1>12, <3>1, <3>2 DEF QueueInv
  <2>5. ASSUME NEW u \in Threads
        PROVE  /\ Holds(u)' \/ Decrements(u)' => Walk(u, at, lo, k, h2[u], c2[u])' /\ h2[u] <= hi + 1
               /\ Holds(u)' => Holder(u, at, lo, hi + 1, k, h2[u])'
    <3>1. CASE u = t
      <4>1. ASSUME Holds(t)' \/ Decrements(t)'
            PROVE  pc'[t] = "find" /\ loc'[t].state.rest = t /\ loc'[t].current = t
        BY <1>8, <4>1 DEF Holds, Decrements
      <4>2. Back(at, hi + 1, hi + 1)'
        BY <2>1 DEF Back
      <4>3. hi + 1 <= hi + 1 /\ \A i \in hi + 1 + 1 .. hi + 1 : FALSE
        BY <2>1
      <4>4. \A i \in hi + 1 .. hi + 1 : i = hi + 1
        BY <2>1
      <4>5. Holds(t)' \/ Decrements(t)' => Walk(t, at, lo, k, hi + 1, hi + 1)'
        BY <1>3, <2>1, <4>1, <4>2, <4>3 DEF Walk
      <4>6. Holds(t)' => Holder(t, at, lo, hi + 1, k, hi + 1)'
        BY <2>2, <4>1, <4>3, <4>4 DEF Holder
      <4> QED
        BY <1>4, <3>1, <4>3, <4>5, <4>6
    <3>2. ASSUME u # t, Holds(u)' \/ Decrements(u)'
          PROVE  /\ Walk(u, at, lo, k, h2[u], c2[u])' /\ h2[u] <= hi + 1
                 /\ Holds(u)' => Holder(u, at, lo, hi + 1, k, h2[u])'
      <4>1. pc'[u] = pc[u] /\ loc'[u] = loc[u] /\ h2[u] = h[u] /\ c2[u] = c[u]
        BY <1>4, <1>8, <3>2
      <4>2. (Holds(u)' <=> Holds(u)) /\ (Holds(u) \/ Decrements(u))
        BY <3>2, <4>1 DEF Holds, Decrements
      <4>3. h[u] \in lo .. hi /\ c[u] \in Nat /\ Walk(u, at, lo, k, h[u], c[u])
        BY <1>0, <1>5, <4>2, MainWalk
      <4>4. h[u] \in Nat /\ h[u] <= hi /\ h[u] <= hi + 1 /\ lo <= h[u]
        BY <1>2, <4>3
      <4>5. ASSUME NEW m \in Nat, lo <= m PROVE Back(at, m, h[u])' <=> Back(at, m, h[u])
        <5>1. \A i \in m .. h[u] - 1 : i \in lo .. hi
          BY <1>2, <4>4, <4>5
        <5> QED
          BY <1>10, <4>4, <5>1, SameBack
      <4>6. Walk(u, at, lo, k, h[u], c[u])'
        BY <1>2, <2>1, <4>1, <4>3, <4>4, <4>5, SameWalk
      <4>7. ASSUME Holds(u)' PROVE Holder(u, at, lo, hi + 1, k, h[u])'
        <5>1. Holder(u, at, lo, hi, k, h[u])
          BY <1>6, <4>2, <4>7 DEF WalkInv
        <5>2. ASSUME NEW i \in Nat, lo <= i, i <= hi + 1
              PROVE  IF i = hi + 1 THEN node'[at[i]].prev = null /\ node'[at[i]].tail = null
                     ELSE i \in lo .. hi /\ node'[at[i]] = node[at[i]]
          BY <1>2, <1>10, <2>2, <5>2
        <5>3. ASSUME ~LockedBy(loc[u].state)
              PROVE  /\ \A i \in h[u] .. hi + 1 : node'[at[i]].prev = null
                     /\ \A i \in h[u] + 1 .. hi + 1 : node'[at[i]].tail = null
          <6>1. /\ \A i \in h[u] .. hi + 1 : i \in Nat /\ lo <= i /\ i <= hi + 1 /\ (i # hi + 1 => i \in h[u] .. hi)
                /\ \A i \in h[u] + 1 .. hi + 1 : i \in Nat /\ lo <= i /\ i <= hi + 1 /\ (i # hi + 1 => i \in h[u] + 1 .. hi)
            BY <1>2, <4>4
          <6> QED
            BY <5>1, <5>2, <5>3, <6>1 DEF Holder
        <5>4. ASSUME pc[u] \in {"split", "undo"}
              PROVE  \A i \in k + 1 .. hi + 1 : node'[at[i]].tail = null
          <6>1. \A i \in k + 1 .. hi + 1 : i \in Nat /\ lo <= i /\ i <= hi + 1 /\ (i # hi + 1 => i \in k + 1 .. hi)
            BY <1>2, <2>1
          <6> QED
            BY <5>1, <5>2, <5>4, <6>1 DEF Holder
        <5> QED
          BY <4>1, <5>1, <5>3, <5>4 DEF Holder, LockedBy
      <4> QED
        BY <4>1, <4>4, <4>6, <4>7
    <3> QED
      BY <3>1, <3>2
  <2>6. ASSUME NEW u \in Threads PROVE Taken(u, at, dl[u], dh[u], f[u], c2[u])'
    <3>1. CASE u = t
      BY <1>5, <1>7, <1>8, <3>1, TakesNone DEF Taken, Takes
    <3>2. CASE u # t
      <4>1. pc'[u] = pc[u] /\ loc'[u] = loc[u] /\ c2[u] = c[u]
        BY <1>4, <1>8, <3>2
      <4>2. Taken(u, at, dl[u], dh[u], f[u], c[u]) /\ dl[u] \in Nat /\ dh[u] \in Nat /\ f[u] \in Nat /\ c[u] \in Nat
        BY <1>2, <1>6 DEF TakenInv
      <4>3. Taken(u, at, dl[u], dh[u], f[u], c[u])'
        BY <1>10, <4>1, <4>2, SameTaken
      <4> QED
        BY <4>1, <4>3
    <3> QED
      BY <3>1, <3>2
  <2>7. Inv(at, lo, hi + 1, k, dl, dh, h2, c2, f)'
    BY <1>2, <1>3, <1>4, <1>11, <2>1, <2>4, <2>5, <2>6 DEF Inv, WalkInv, TakenInv
  <2> QED
    BY <2>7 DEF Shaped
<1> QED
  BY <1>14, <1>15

\* The shape of the queue is kept.
LEMMA ShapeStep ==
  ASSUME IInv, [Next]_vars
  PROVE  Shaped'
<1>1. ASSUME NEW t \in Threads, lock(t) \/ Inside(t) \/ park_spuriously(t) PROVE Shaped'
  BY <1>1, lock_shape, load_shape, reload_shape, lock_contended_shape, enqueue_shape, wait_shape, park_shape,
     park_spuriously_shape, find_tail_shape, cache_tail_shape, read_unlock_shape, decrement_shape,
     write_unlock_shape, unlock_contended_shape, reunlock_shape, downgrade_shape, downgrade_slow_shape,
     redowngrade_shape, release_queue_shape, split_shape, split_release_shape, split_fail_shape, undo_shape,
     wake_queue_shape, requeue_shape, complete_shape, unpark_shape
     DEF Inside
<1>2. ASSUME AllDone \/ UNCHANGED vars PROVE Shaped'
  <2>1. pc' = pc /\ word' = word /\ node' = node /\ loc' = loc
    BY <1>2 DEF AllDone, vars
  <2>2. PICK at, lo, hi, k, dl, dh, h, c, f : Inv(at, lo, hi, k, dl, dh, h, c, f)
    BY DEF IInv, Shaped
  <2>3. Inv(at, lo, hi, k, dl, dh, h, c, f)'
    BY <2>1, <2>2 DEF Inv, NodeInv, Live, QueueInv, WalkInv, TakenInv, Taken, Walk, Holder, Linked, Back, Splitting,
                      Counted, Reading, Walks, Holds, Decrements, Takes, LockedBy
  <2> QED
    BY <2>3 DEF Shaped
<1> QED
  BY <1>1, <1>2 DEF Next

\* The first queue has no nodes.
LEMMA InitShape ==
  ASSUME Init
  PROVE  Shaped
<1> DEFINE at == [i \in Nat |-> null]
           one == [t \in Threads |-> 1]
           zero == [t \in Threads |-> 0]
<1>1. /\ at \in [Nat -> Links] /\ one \in [Threads -> Nat] /\ zero \in [Threads -> Nat]
      /\ \A t \in Threads : one[t] = 1 /\ zero[t] = 0
  BY DEF Links
<1> HIDE DEF at, one, zero
<1>2. ASSUME NEW i \in Nat PROVE ~Live(1, 0, one, zero, i)
  BY <1>1 DEF Live
<1>3. NodeInv(at, 1, 0, one, zero)
  BY <1>1, <1>2 DEF NodeInv
<1>4. \A t \in Threads : pc[t] = "idle" /\ loc[t].caller = "none"
  BY DEF Init, NoLocals
<1>5. "QUEUED" \notin word.flags
  BY DEF Init, UNLOCKED, S
<1>6. QueueInv(at, 1, 0, 0)
  BY <1>5 DEF QueueInv, Counted
<1>7. WalkInv(at, 1, 0, 0, zero, zero)
  BY <1>4 DEF WalkInv, Holds, Decrements
<1>8. TakenInv(at, one, zero, zero, zero)
  BY <1>1, <1>4 DEF TakenInv, Taken, Takes
<1>9. Inv(at, 1, 0, 0, one, zero, zero, zero, zero)
  BY <1>1, <1>3, <1>6, <1>7, <1>8 DEF Inv
<1> QED
  BY <1>9 DEF Shaped

\* The invariant holds initially.
LEMMA InitInv ==
  ASSUME Init
  PROVE  IInv
<1>1. \A t \in Threads : pc[t] = "idle" /\ loc[t] = NoLocals /\ node[t] = NoNode
  BY DEF Init
<1>2. word.flags = {} /\ word.rest = 0 /\ UNLOCKED \in Words
  BY DEF Init, UNLOCKED, S, Words, null
<1>3. Reading = {} /\ Locking = {}
  BY <1>1 DEF Reading, Locking, Walks, NoLocals
<1>4. TypeOK
  <2>1. NoLocals \in [state : Words, current : Links, prev : Links, tail : Links,
                      caller : {"none", "lock", "unlock", "read_unlock", "downgrade"}]
    BY <1>2 DEF NoLocals, Links
  <2>2. NoNode \in [next : Nat \cup Threads, prev : Links, tail : Links, completed : BOOLEAN]
    BY DEF NoNode, Links, null
  <2> HIDE DEF NoLocals, NoNode
  <2> QED
    BY <1>2, <2>1, <2>2, ThreadsAssumption DEF Init, TypeOK, Points
<1>5. CallInv
  BY <1>1 DEF CallInv, CallOK, NoLocals, NoNode
<1>6. OwnerInv
  BY <1>1, <1>2, <1>3, OwnersFinite DEF OwnerInv, Decrements, NoLocals
<1>7. HolderInv
  BY <1>1 DEF HolderInv, Holds
<1> QED
  BY <1>4, <1>5, <1>6, <1>7, InitShape DEF IInv

\* The invariant of the proofs.  The ghosts of Shaped (which node was put into
\* the queue when) are bound in it: they are no variables of the lock.
THEOREM QueueInvariant == Spec => []IInv
<1>1. Init => IInv
  BY InitInv
<1>2. IInv /\ [Next]_vars => IInv'
  BY TypeStep, CallStep, OwnerStep, HolderStep, ShapeStep DEF IInv
<1> QED
  BY <1>1, <1>2, PTL DEF Spec

\* Nobody looks at the node of a thread that may have left, and the assertions
\* of the slow paths hold: for any number of threads.
THEOREM NodesInUse == Spec => []NodesOutliveUse
<1>1. IInv => NodesOutliveUse
  BY Uses
<1> QED
  BY <1>1, QueueInvariant, PTL

-----------------------------------------------------------------------------
(***************************************************************************)
(* The queue as the word gives it                                          *)
(***************************************************************************)
\* A set of natural numbers has a least one: induction as the provers take it.
LEMMA Least ==
  ASSUME NEW I \in SUBSET Nat, I # {}
  PROVE  \E n \in I : \A m \in I : n <= m
<1> DEFINE R == {p \in Nat \X Nat : p[1] < p[2]}
<1>1. IsWellFoundedOn(R, Nat)
  BY NatLessThanWellFounded DEF OpToRel
<1> HIDE DEF R
<1>2. PICK n \in I : \A m \in I : <<m, n>> \notin R
  BY <1>1, WFMin
<1>3. ASSUME NEW m \in I, m < n PROVE FALSE
  <2>1. <<m, n>> \in Nat \X Nat /\ <<m, n>>[1] < <<m, n>>[2]
    BY <1>3
  <2>2. <<m, n>> \in R
    BY <2>1 DEF R
  <2> QED
    BY <1>2, <2>2
<1> QED
  BY <1>3

\* The first n links from the word.
Follows(g, n) ==
  g = [i \in 0 .. n |-> IF i = 0 THEN word.rest ELSE IF g[i - 1] \in Threads THEN node[g[i - 1]].next ELSE null]

\* chain is the recursive function that its definition says, by the least number
\* of links for which there is none.
LEMMA ChainIs ==
  /\ DOMAIN chain = 0 .. Cardinality(Threads) /\ Cardinality(Threads) \in Nat
  /\ chain[0] = word.rest
  /\ \A i \in 1 .. Cardinality(Threads) :
       chain[i] = IF chain[i - 1] \in Threads THEN node[chain[i - 1]].next ELSE null
<1> DEFINE N == Cardinality(Threads)
<1>1. N \in Nat
  BY NoNull, FS_CardinalityType
<1>2. ASSUME NEW n \in Nat, NEW g, Follows(g, n)
      PROVE  \E g2 : Follows(g2, n + 1)
  <2> DEFINE g2 == [i \in 0 .. n + 1 |-> IF i <= n THEN g[i] ELSE IF g[n] \in Threads THEN node[g[n]].next ELSE null]
             g3 == [i \in 0 .. n + 1 |-> IF i = 0 THEN word.rest
                                         ELSE IF g2[i - 1] \in Threads THEN node[g2[i - 1]].next ELSE null]
  <2>1. \A i \in 0 .. n : g[i] = IF i = 0 THEN word.rest ELSE IF g[i - 1] \in Threads THEN node[g[i - 1]].next ELSE null
    BY <1>2 DEF Follows
  <2>2. \A i \in 0 .. n : g2[i] = g[i]
    OBVIOUS
  <2>3. ASSUME NEW i \in 0 .. n + 1 PROVE g2[i] = g3[i]
    <3>1. CASE i = 0
      BY <2>1, <2>2, <3>1
    <3>2. CASE i # 0 /\ i <= n
      <4>1. i \in 0 .. n /\ i - 1 \in 0 .. n
        BY <3>2
      <4> QED
        BY <2>1, <2>2, <3>2, <4>1
    <3>3. CASE i = n + 1
      <4>1. i - 1 = n /\ n \in 0 .. n /\ ~(i <= n) /\ i # 0
        BY <3>3
      <4> QED
        BY <2>2, <4>1
    <3> QED
      BY <3>1, <3>2, <3>3
  <2>4. g2 = g3
    BY <2>3
  <2> HIDE DEF g2
  <2>5. Follows(g2, n + 1)
    BY <2>4 DEF Follows
  <2> QED
    BY <2>5
<1>3. \E g : Follows(g, 0)
  <2> DEFINE g == [i \in 0 .. 0 |-> word.rest]
             g2 == [i \in 0 .. 0 |-> IF i = 0 THEN word.rest ELSE IF g[i - 1] \in Threads THEN node[g[i - 1]].next ELSE null]
  <2>1. \A i \in 0 .. 0 : i = 0
    OBVIOUS
  <2>2. g = g2
    BY <2>1
  <2> HIDE DEF g
  <2>3. Follows(g, 0)
    BY <2>2 DEF Follows
  <2> QED
    BY <2>3
<1>4. \A n \in Nat : \E g : Follows(g, n)
  <2> DEFINE I == {n \in Nat : ~\E g : Follows(g, n)}
  <2> SUFFICES ASSUME I # {} PROVE FALSE
    OBVIOUS
  <2>1. PICK n \in I : \A m \in I : n <= m
    BY Least
  <2>2. n \in Nat /\ n # 0
    BY <1>3
  <2>3. n - 1 \in Nat /\ n - 1 \notin I /\ n - 1 + 1 = n
    BY <2>1, <2>2
  <2>4. PICK g : Follows(g, n - 1)
    BY <2>3
  <2>5. \E g2 : Follows(g2, n)
    BY <1>2, <2>3, <2>4
  <2> QED
    BY <2>5
<1>5. \E g : g = [i \in 0 .. N |-> IF i = 0 THEN word.rest ELSE IF g[i - 1] \in Threads THEN node[g[i - 1]].next ELSE null]
  BY <1>1, <1>4 DEF Follows
<1>6. chain = [i \in 0 .. N |-> IF i = 0 THEN word.rest
                                ELSE IF chain[i - 1] \in Threads THEN node[chain[i - 1]].next ELSE null]
  BY <1>5 DEF chain
<1> HIDE DEF N
<1>7. DOMAIN chain = 0 .. N
  BY <1>6
<1>8. ASSUME NEW i \in 0 .. N
      PROVE  chain[i] = IF i = 0 THEN word.rest ELSE IF chain[i - 1] \in Threads THEN node[chain[i - 1]].next ELSE null
  BY <1>6
<1>9. 0 \in 0 .. N /\ \A i \in 1 .. N : i \in 0 .. N /\ i # 0
  BY <1>1
<1> QED
  BY <1>1, <1>7, <1>8, <1>9 DEF N

\* It leads through the nodes of the queue, from the head to the tail.
LEMMA ChainOfQueue ==
  ASSUME NEW at, NEW lo, NEW hi, NEW k, NEW dl, NEW dh, NEW h, NEW c, NEW f,
         TypeOK, CallInv, OwnerInv, HolderInv, Inv(at, lo, hi, k, dl, dh, h, c, f), "QUEUED" \in word.flags
  PROVE  /\ hi - lo \in 0 .. Cardinality(Threads)
         /\ \A i \in 0 .. hi - lo : i \in DOMAIN chain /\ chain[i] = at[hi - i] /\ Registered(chain[i])
<1> DEFINE N == Cardinality(Threads)
<1>1. /\ DOMAIN chain = 0 .. N /\ N \in Nat /\ chain[0] = word.rest
      /\ \A i \in 1 .. N : chain[i] = IF chain[i - 1] \in Threads THEN node[chain[i - 1]].next ELSE null
  BY ChainIs
<1> HIDE DEF N
<1>2. /\ lo \in Nat /\ hi \in Nat /\ lo <= hi /\ word.rest = at[hi]
      /\ \A i \in lo .. hi : at[i] \in Threads /\ Registered(at[i])
      /\ \A i \in lo + 1 .. hi : node[at[i]].next = at[i - 1]
  <2>1. Linked(at, lo, k, hi, End(at, lo)) /\ lo \in Nat /\ hi \in Nat /\ hi \in lo .. hi
        /\ \A i \in lo .. hi : Registered(at[i])
    BY MainQueue
  <2>2. word.rest = at[hi]
    BY DEF Inv, QueueInv
  <2> QED
    BY <2>1, <2>2 DEF Linked, Registered
<1>3. hi - lo + 1 <= N
  <2> DEFINE g == [i \in lo .. hi |-> at[i]]
  <2>1. \A i, j \in lo .. hi : at[i] = at[j] => i = j
    <3>1. \A i \in lo .. hi : i \in Nat /\ Live(lo, hi, dl, dh, i)
      BY LiveNodes
    <3> QED
      BY <3>1 DEF Inv, NodeInv
  <2>2. g \in [lo .. hi -> Threads]
    BY <1>2
  <2>3. g \in Injection(lo .. hi, Threads)
    BY <2>1, <2>2 DEF Injection, IsInjective
  <2>4. Cardinality(lo .. hi) <= N
    BY <2>3, NoNull, FS_Injection DEF N
  <2>5. lo \in Int /\ hi \in Int
    BY <1>2
  <2>6. Cardinality(lo .. hi) = hi - lo + 1
    BY <1>2, <2>5, FS_Interval
  <2> QED
    BY <2>4, <2>6
<1>4. hi - lo \in 0 .. N /\ \A i \in 0 .. hi - lo : i \in 0 .. N /\ i \in Nat /\ hi - i \in lo .. hi
  BY <1>1, <1>2, <1>3
<1>5. \A i \in 0 .. hi - lo : chain[i] = at[hi - i]
  <2> DEFINE I == {i \in 0 .. hi - lo : chain[i] # at[hi - i]}
  <2> SUFFICES ASSUME I # {} PROVE FALSE
    OBVIOUS
  <2>1. I \in SUBSET Nat
    BY <1>4
  <2>2. PICK n \in I : \A m \in I : n <= m
    BY <2>1, Least
  <2>3. n # 0
    <3>1. hi - 0 = hi
      BY <1>2
    <3> QED
      BY <1>1, <1>2, <3>1
  <2>4. /\ n - 1 \in 0 .. hi - lo /\ n - 1 \notin I /\ n \in 1 .. N /\ hi - (n - 1) \in lo + 1 .. hi
        /\ hi - (n - 1) - 1 = hi - n /\ hi - (n - 1) \in lo .. hi
    BY <1>2, <1>4, <2>2, <2>3
  <2>5. chain[n - 1] = at[hi - (n - 1)]
    BY <2>4
  <2>6. chain[n] = node[at[hi - (n - 1)]].next
    BY <1>1, <1>2, <2>4, <2>5
  <2>7. chain[n] = at[hi - n]
    BY <1>2, <2>4, <2>6
  <2> QED
    BY <2>7
<1> QED
  BY <1>1, <1>2, <1>4, <1>5 DEF N

\* The first node with a tail is one of them.
LEMMA FirstTailIs ==
  ASSUME NEW at, NEW lo, NEW hi, NEW k, NEW dl, NEW dh, NEW h, NEW c, NEW f,
         TypeOK, CallInv, OwnerInv, HolderInv, Inv(at, lo, hi, k, dl, dh, h, c, f), "QUEUED" \in word.flags
  PROVE  /\ FirstTail \in 0 .. hi - k /\ FirstTail \in 0 .. hi - lo
         /\ \A j \in 0 .. FirstTail - 1 : node[chain[j]].tail = null
         /\ node[chain[FirstTail]].tail = End(at, lo) /\ Back(at, lo, hi - FirstTail)
<1>1. /\ hi - lo \in 0 .. Cardinality(Threads)
      /\ \A i \in 0 .. hi - lo : i \in DOMAIN chain /\ chain[i] = at[hi - i] /\ Registered(chain[i])
  BY ChainOfQueue
<1>2. /\ Linked(at, lo, k, hi, End(at, lo)) /\ End(at, lo) # null
      /\ lo \in Nat /\ hi \in Nat /\ k \in Nat /\ lo <= k /\ k <= hi
  BY MainQueue DEF Linked
<1>3. /\ hi - k \in 0 .. hi - lo /\ hi - (hi - k) = k /\ hi - k \in Nat
      /\ \A i \in 0 .. hi - k : i \in 0 .. hi - lo /\ hi - i \in k .. hi /\ i \in Nat
  BY <1>2
<1> DEFINE I == {i \in 0 .. hi - k : node[chain[i]].tail # null}
           P(i) == node[chain[i]].tail # null /\ \A j \in 0 .. i - 1 : node[chain[j]].tail = null
<1>4. hi - k \in I
  BY <1>1, <1>2, <1>3 DEF Linked
<1>5. PICK m \in I : \A n \in I : m <= n
  BY <1>3, <1>4, Least
<1>6. m \in 0 .. hi - k /\ m \in 0 .. hi - lo /\ m \in DOMAIN chain /\ m \in Nat
  BY <1>1, <1>3
<1>7. P(m)
  <2>1. \A j \in 0 .. m - 1 : j \in 0 .. hi - k /\ ~(m <= j)
    BY <1>3, <1>6
  <2> QED
    BY <1>5, <2>1
<1>8. DOMAIN chain \subseteq Nat
  BY ChainIs
<1>9. ASSUME NEW i \in DOMAIN chain, P(i) PROVE i = m
  <2>1. i < m => i \in 0 .. m - 1
    BY <1>6, <1>8
  <2>2. m < i => m \in 0 .. i - 1
    BY <1>6, <1>8
  <2>3. ~(i < m) /\ ~(m < i)
    BY <1>7, <1>9, <2>1, <2>2
  <2> QED
    BY <1>6, <1>8, <2>3
<1>10. FirstTail = m
  BY <1>6, <1>7, <1>9 DEF FirstTail
<1>11. node[chain[m]].tail = End(at, lo) /\ Back(at, lo, hi - m)
  <2>1. hi - m \in k .. hi /\ chain[m] = at[hi - m] /\ node[chain[m]].tail # null
    BY <1>1, <1>3, <1>6, <1>7
  <2> QED
    BY <1>2, <2>1 DEF Linked
<1> QED
  BY <1>6, <1>7, <1>10, <1>11

\* The invariant says who owns the lock.
LEMMA Exact ==
  ASSUME IInv
  PROVE  OwnersAreExact
<1>0. TypeOK /\ CallInv /\ OwnerInv /\ HolderInv
  BY DEF IInv
<1>1. PICK at, lo, hi, k, dl, dh, h, c, f : Inv(at, lo, hi, k, dl, dh, h, c, f)
  BY DEF IInv, Shaped
<1>2. \A t \in Writing : Writing = {t} /\ Reading = {}
  <2>1. Writing \subseteq Locking
    BY DEF Writing, Locking
  <2> QED
    BY <1>0, <2>1 DEF OwnerInv
<1>3. Reading # {} => "LOCKED" \in word.flags
  BY <1>0 DEF OwnerInv
<1>4. "QUEUED" \notin word.flags => Cardinality(Reading) = word.rest
  BY <1>0 DEF OwnerInv
<1>5. "DOWNGRADED" \in word.flags => Cardinality(Reading) = 1
  BY <1>0 DEF OwnerInv
<1>6. ASSUME Counted PROVE Cardinality(Reading) = node[node[chain[FirstTail]].tail].next
  <2>1. ~Splitting
    BY <1>0, <1>6 DEF Splitting, HolderInv, CallInv, CallOK, Holds
  <2>2. node[chain[FirstTail]].tail = at[lo]
    BY <1>0, <1>1, <1>6, <2>1, FirstTailIs DEF Counted, End
  <2> QED
    BY <1>1, <1>6, <2>2 DEF Inv, QueueInv
<1> QED
  BY <1>2, <1>3, <1>4, <1>5, <1>6 DEF OwnersAreExact, Counted

\* The invariant says how the queue is linked.
LEMMA Leads ==
  ASSUME IInv
  PROVE  QueueIsLinked
<1>0. TypeOK /\ CallInv /\ OwnerInv /\ HolderInv
  BY DEF IInv
<1>1. PICK at, lo, hi, k, dl, dh, h, c, f : Inv(at, lo, hi, k, dl, dh, h, c, f)
  BY DEF IInv, Shaped
<1> SUFFICES ASSUME "QUEUED" \in word.flags
             PROVE  \E m \in DOMAIN chain : \E l \in m .. Cardinality(Threads) :
                      /\ \A i \in 0 .. l : Registered(chain[i])
                      /\ \A i \in 0 .. m - 1 : node[chain[i]].tail = null
                      /\ node[chain[m]].tail = chain[l]
                      /\ \A i \in m .. l - 1 : node[chain[i + 1]].prev = chain[i]
  BY DEF QueueIsLinked
<1>2. /\ hi - lo \in 0 .. Cardinality(Threads)
      /\ \A i \in 0 .. hi - lo : i \in DOMAIN chain /\ chain[i] = at[hi - i] /\ Registered(chain[i])
  BY <1>0, <1>1, ChainOfQueue
<1>3. /\ FirstTail \in 0 .. hi - k /\ FirstTail \in 0 .. hi - lo
      /\ \A j \in 0 .. FirstTail - 1 : node[chain[j]].tail = null
      /\ node[chain[FirstTail]].tail = End(at, lo) /\ Back(at, lo, hi - FirstTail)
  BY <1>0, <1>1, FirstTailIs
<1>4. lo \in Nat /\ hi \in Nat /\ k \in Nat /\ lo <= k /\ k <= hi /\ Cardinality(Threads) \in Nat
  BY <1>0, <1>1, MainQueue, ChainIs DEF Linked
<1>5. PICK e \in lo .. k : End(at, lo) = at[e] /\ e \in Nat
  <2>1. CASE Splitting
    <3>1. PICK t \in Threads : pc[t] \in {"split", "undo"}
      BY <2>1 DEF Splitting
    <3>2. lo < k
      BY <1>0, <1>1, <3>1 DEF CallInv, CallOK, Holds, Inv, WalkInv, Holder
    <3>3. lo + 1 \in lo .. k /\ lo + 1 \in Nat
      BY <1>4, <3>2
    <3> QED
      BY <2>1, <3>3 DEF End
  <2>2. CASE ~Splitting
    <3>1. lo \in lo .. k
      BY <1>4
    <3> QED
      BY <1>4, <2>2, <3>1 DEF End
  <2> QED
    BY <2>1, <2>2
<1> DEFINE m == FirstTail
           l == hi - e
<1>6. /\ m \in DOMAIN chain /\ l \in m .. Cardinality(Threads) /\ l \in 0 .. hi - lo /\ hi - l = e
      /\ m \in Nat /\ l \in Nat /\ \A i \in 0 .. l : i \in 0 .. hi - lo
  BY <1>2, <1>3, <1>4, <1>5
<1> HIDE DEF m, l
<1>7. \A i \in 0 .. l : Registered(chain[i])
  BY <1>2, <1>6
<1>8. node[chain[m]].tail = chain[l]
  BY <1>2, <1>3, <1>5, <1>6 DEF m
<1>9. ASSUME NEW i \in m .. l - 1 PROVE node[chain[i + 1]].prev = chain[i]
  <2>1. /\ i \in 0 .. hi - lo /\ i + 1 \in 0 .. hi - lo /\ hi - (i + 1) \in lo .. (hi - m) - 1
        /\ hi - (i + 1) + 1 = hi - i
    BY <1>3, <1>4, <1>5, <1>6
  <2>2. chain[i + 1] = at[hi - (i + 1)] /\ chain[i] = at[hi - i]
    BY <1>2, <2>1
  <2>3. node[at[hi - (i + 1)]].prev = at[hi - (i + 1) + 1]
    BY <1>3, <2>1 DEF Back, m
  <2> QED
    BY <2>1, <2>2, <2>3
<1>10. \A i \in 0 .. m - 1 : node[chain[i]].tail = null
  BY <1>3 DEF m
<1> QED
  BY <1>6, <1>7, <1>8, <1>9, <1>10

\* Whatever read, write, downgrade and the unlocks interleave to, a writer
\* excludes everybody else, and the readers are counted exactly, in the word or
\* in the tail of the queue: for any number of threads.
THEOREM QueueOwnersAreExact == Spec => []OwnersAreExact
<1>1. IInv => OwnersAreExact
  BY Exact
<1> QED
  BY <1>1, QueueInvariant, PTL

\* From the word the links lead to a node that knows the tail, over nodes that
\* are all waiting, and from there on the back links are complete: what
\* find_tail and the unlocks rely on, for any number of threads.
THEOREM QueueLinks == Spec => []QueueIsLinked
<1>1. IInv => QueueIsLinked
  BY Leads
<1> QED
  BY <1>1, QueueInvariant, PTL
=============================================================================
