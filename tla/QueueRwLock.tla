----------------------------- MODULE QueueRwLock -----------------------------
(***************************************************************************)
(* The readers-writer lock with a lock-free queue of waiters,              *)
(* library/std/src/sys/sync/rwlock/queue.rs, over the token of             *)
(* thread::park (AbstractParker).                                          *)
(*                                                                         *)
(* The state word is kept as its set of flags and the remaining bits: null *)
(* (0), a reader count, or a node.  A node lies on the stack of the thread *)
(* that waits with it, and is named by that thread; while it is not        *)
(* registered it has the fields of NoNode.  It may come back at the same   *)
(* address.  One action per access of the word; a compare_exchange that    *)
(* fails, like a spin that has seen a new state, only replaces the local   *)
(* copy of the word.  A local that has gone out of scope has its initial   *)
(* value.                                                                  *)
(***************************************************************************)
EXTENDS Naturals, FiniteSets

CONSTANTS Readers, Writers,   \* the threads, by the call they make
          MaxCalls            \* bound on the calls of all threads

ASSUME ThreadsAssumption ==
  IsFiniteSet(Readers \cup Writers) /\ Readers \cap Writers = {} /\ MaxCalls \in Nat

\* A node is not a number.
ASSUME NodesAssumption == (Readers \cup Writers) \cap Nat = {}

VARIABLES pc,
          word,           \* RwLock::state
          node,           \* node[t]: the node of t
          token,          \* token[t]: the parker of t
          loc,            \* loc[t]: the local variables of t
          left            \* the calls that may still be made

vars == <<pc, word, node, token, loc, left>>

Threads == Readers \cup Writers

null == 0

S(flags, rest) == [flags |-> flags, rest |-> rest]

UNLOCKED == S({}, null)

\* write_lock and read_lock: may t lock in state s, and what becomes of it?
Lockable(t, s) ==
  IF t \in Writers THEN "LOCKED" \notin s.flags ELSE "QUEUED" \notin s.flags /\ s # S({"LOCKED"}, null)

Lock(t, s) ==
  IF t \in Writers THEN S(s.flags \cup {"LOCKED"}, s.rest) ELSE S({"LOCKED"}, s.rest + 1)

NoNode == [next |-> null, prev |-> null, tail |-> null, completed |-> TRUE]

\* state: the local copy of the word; current, prev, tail: of the walks over
\* the queue; caller: the function that walks.
NoLocals == [state |-> UNLOCKED, current |-> null, prev |-> null, tail |-> null, caller |-> "none"]

Init ==
  /\ pc = [t \in Threads |-> "idle"]
  /\ word = UNLOCKED
  /\ node = [t \in Threads |-> NoNode]
  /\ token = [t \in Threads |-> FALSE]
  /\ loc = [t \in Threads |-> NoLocals]
  /\ left = MaxCalls

Goto(t, from, to) == pc[t] = from /\ pc' = [pc EXCEPT ![t] = to]

Leave(t) == loc' = [loc EXCEPT ![t] = NoLocals]

\* The local copy of the word is old: load it again and start over.
Reload(t, from, to) ==
  /\ word # loc[t].state
  /\ Goto(t, from, to)
  /\ loc' = [loc EXCEPT ![t].state = word]
  /\ UNCHANGED <<word, node, token, left>>

\* compare_exchange(state, new) succeeds.
Exchange(t, new) == word = loc[t].state /\ word' = new

\* find_tail_and_add_backlinks(to_node(s)) is called.
Find(t, from, s, caller) ==
  /\ Goto(t, from, "find")
  /\ loc' = [loc EXCEPT ![t] = [NoLocals EXCEPT !.state = s, !.current = s.rest, !.caller = caller]]

held(t) == IF t \in Writers THEN "writing" ELSE "reading"
-----------------------------------------------------------------------------
(***************************************************************************)
(* read and write                                                          *)
(***************************************************************************)
\* try_read or try_write; and if it fails, lock_contended loads the state.
lock(t) ==
  /\ left > 0
  /\ left' = left - 1
  /\ IF Lockable(t, word)
     THEN Goto(t, "idle", held(t)) /\ word' = Lock(t, word)
     ELSE Goto(t, "idle", "load") /\ UNCHANGED word
  /\ UNCHANGED <<node, token, loc>>

load(t) ==
  /\ Goto(t, "load", "attempt")
  /\ loc' = [loc EXCEPT ![t].state = word]
  /\ UNCHANGED <<word, node, token, left>>

reload(t) == Reload(t, "attempt", "attempt")

lock_contended(t) ==
  /\ Goto(t, "attempt", held(t))
  /\ Lockable(t, loc[t].state)
  /\ Exchange(t, Lock(t, loc[t].state))
  /\ Leave(t)
  /\ UNCHANGED <<node, token, left>>

\* The node becomes the first one of the queue.  If it is not the only one,
\* its thread also takes the queue lock, to add back links.
enqueue(t) ==
  LET s      == loc[t].state
      queued == "QUEUED" \in s.flags
      flags  == (s.flags \cap {"DOWNGRADED", "LOCKED"}) \cup {"QUEUED"}
      new    == S(flags \cup (IF queued THEN {"QUEUE_LOCKED"} ELSE {}), t)
  IN  /\ pc[t] = "attempt"
      /\ ~Lockable(t, s)
      /\ Exchange(t, new)
      /\ node' = [node EXCEPT ![t] = [next |-> s.rest, prev |-> null, completed |-> FALSE,
                                      tail |-> IF queued THEN null ELSE t]]
      /\ IF queued /\ "QUEUE_LOCKED" \notin s.flags
         THEN Find(t, "attempt", new, "lock")
         ELSE Goto(t, "attempt", "wait") /\ Leave(t)
      /\ UNCHANGED <<token, left>>

\* Node::wait.  A node that is completed is no longer in the queue.
wait(t) ==
  /\ IF node[t].completed
     THEN Goto(t, "wait", "load") /\ node' = [node EXCEPT ![t] = NoNode]
     ELSE Goto(t, "wait", "park") /\ UNCHANGED node
  /\ UNCHANGED <<word, token, loc, left>>

park(t) ==
  /\ Goto(t, "park", "wait")
  /\ token[t]
  /\ token' = [token EXCEPT ![t] = FALSE]
  /\ UNCHANGED <<word, node, loc, left>>

\* park may return for no reason.
park_spuriously(t) == Goto(t, "park", "wait") /\ UNCHANGED <<word, node, token, loc, left>>
-----------------------------------------------------------------------------
(***************************************************************************)
(* find_tail_and_add_backlinks                                             *)
(***************************************************************************)
\* Mutant: the walk adds no back links.
Mut_find_tail(t) ==
  LET c == loc[t].current
  IN  /\ pc[t] = "find"
      /\ IF node[c].tail # null
         THEN /\ Goto(t, "find", "cache_tail")
              /\ loc' = [loc EXCEPT ![t].tail = node[c].tail, ![t].current = null]
         ELSE /\ loc' = [loc EXCEPT ![t].current = node[c].next]
              /\ UNCHANGED pc
      /\ UNCHANGED <<word, node, token, left>>

\* One node: its tail ends the walk, otherwise go on to the next one.
find_tail(t) ==
  LET c == loc[t].current
      n == node[c].next
  IN  /\ pc[t] = "find"
      /\ IF node[c].tail # null
         THEN /\ Goto(t, "find", "cache_tail")
              /\ loc' = [loc EXCEPT ![t].tail = node[c].tail, ![t].current = null]
              /\ UNCHANGED node
         ELSE /\ node' = [node EXCEPT ![n].prev = c]
              /\ loc' = [loc EXCEPT ![t].current = n]
              /\ UNCHANGED pc
      /\ UNCHANGED <<word, token, left>>

\* The tail is kept in the head.  Then it depends on who asked for it.
Found == [lock |-> "unlock_queue", unlock |-> "unlock_queue",
          read_unlock |-> "decrement", downgrade |-> "complete_all"]

cache_tail(t) ==
  /\ Goto(t, "cache_tail", Found[loc[t].caller])
  /\ node' = [node EXCEPT ![loc[t].state.rest].tail = loc[t].tail]
  /\ loc' = [loc EXCEPT ![t].current = IF loc[t].caller = "downgrade" THEN loc[t].tail ELSE null]
  /\ UNCHANGED <<word, token, left>>
-----------------------------------------------------------------------------
(***************************************************************************)
(* read_unlock, write_unlock, downgrade                                    *)
(***************************************************************************)
\* Without a queue the count is in the word.  If this thread's downgrade is
\* still to be done, whoever holds the queue lock wakes the waiters.
read_unlock(t) ==
  /\ \/ /\ "QUEUED" \notin word.flags
        /\ Goto(t, "reading", "idle")
        /\ word' = IF word.rest > 1 THEN S({"LOCKED"}, word.rest - 1) ELSE UNLOCKED
        /\ UNCHANGED loc
     \/ /\ {"QUEUED", "DOWNGRADED"} \subseteq word.flags
        /\ Goto(t, "reading", "idle")
        /\ word' = S(word.flags \ {"DOWNGRADED", "LOCKED"}, word.rest)
        /\ UNCHANGED loc
     \/ /\ "QUEUED" \in word.flags /\ "DOWNGRADED" \notin word.flags
        /\ Find(t, "reading", word, "read_unlock")
        /\ UNCHANGED word
  /\ UNCHANGED <<node, token, left>>

\* read_unlock_contended: the count is in the tail.
decrement(t) ==
  LET tail == loc[t].tail
  IN  /\ pc[t] = "decrement"
      /\ node' = [node EXCEPT ![tail].next = @ - 1]
      /\ IF node[tail].next = 1
         THEN /\ Goto(t, "decrement", "unlock")
              /\ loc' = [loc EXCEPT ![t] = [NoLocals EXCEPT !.state = loc[t].state]]
         ELSE Goto(t, "decrement", "idle") /\ Leave(t)
      /\ UNCHANGED <<word, token, left>>

write_unlock(t) ==
  /\ IF word = S({"LOCKED"}, null)
     THEN Goto(t, "writing", "idle") /\ word' = UNLOCKED /\ UNCHANGED loc
     ELSE /\ Goto(t, "writing", "unlock")
          /\ loc' = [loc EXCEPT ![t].state = word]
          /\ UNCHANGED word
  /\ UNCHANGED <<node, token, left>>

\* Release the lock, and take the queue lock if it is free.
unlock_contended(t) ==
  LET s == loc[t].state
      new == S((s.flags \ {"LOCKED"}) \cup {"QUEUE_LOCKED"}, s.rest)
  IN  /\ pc[t] = "unlock"
      /\ Exchange(t, new)
      /\ IF "QUEUE_LOCKED" \in s.flags
         THEN Goto(t, "unlock", "idle") /\ Leave(t)
         ELSE Find(t, "unlock", new, "unlock")
      /\ UNCHANGED <<node, token, left>>

reunlock(t) == Reload(t, "unlock", "unlock")

downgrade(t) ==
  /\ IF word = S({"LOCKED"}, null)
     THEN Goto(t, "writing", "reading") /\ word' = S({"LOCKED"}, 1) /\ UNCHANGED loc
     ELSE /\ Goto(t, "writing", "downgrade")
          /\ loc' = [loc EXCEPT ![t].state = word]
          /\ UNCHANGED word
  /\ UNCHANGED <<node, token, left>>

\* Leave it to the holder of the queue lock, or take the entire queue.
downgrade_slow(t) ==
  LET s == loc[t].state
  IN  /\ pc[t] = "downgrade"
      /\ IF "QUEUE_LOCKED" \in s.flags
         THEN /\ Exchange(t, S(s.flags \cup {"DOWNGRADED"}, s.rest))
              /\ Goto(t, "downgrade", "reading")
              /\ Leave(t)
         ELSE /\ Exchange(t, S({"LOCKED"}, 1))
              /\ Find(t, "downgrade", s, "downgrade")
      /\ UNCHANGED <<node, token, left>>

redowngrade(t) == Reload(t, "downgrade", "downgrade")
-----------------------------------------------------------------------------
(***************************************************************************)
(* unlock_queue                                                            *)
(***************************************************************************)
\* Where a thread goes when its walk over the queue is done.
Return == [lock |-> "wait", unlock |-> "idle", downgrade |-> "reading"]

LockedBy(s) == s.flags \cap {"DOWNGRADED", "LOCKED"} = {"LOCKED"}

\* Somebody holds the lock, and will wake the waiters when it is released.
release_queue(t) ==
  LET s == loc[t].state
  IN  /\ Goto(t, "unlock_queue", Return[loc[t].caller])
      /\ LockedBy(s)
      /\ Exchange(t, S(s.flags \ {"QUEUE_LOCKED"}, s.rest))
      /\ Leave(t)
      /\ UNCHANGED <<node, token, left>>

\* Is only the tail, a writer, to be woken?
WakesWriter(t) ==
  /\ "DOWNGRADED" \notin loc[t].state.flags
  /\ loc[t].tail \in Writers /\ node[loc[t].tail].prev # null

\* Mutant: the head keeps the old tail.
Mut_split(t) ==
  /\ Goto(t, "unlock_queue", "split")
  /\ ~LockedBy(loc[t].state) /\ WakesWriter(t)
  /\ loc' = [loc EXCEPT ![t].current = loc[t].state.rest]
  /\ UNCHANGED <<word, node, token, left>>

\* Then the tail is split off, ...
split(t) ==
  LET head == loc[t].state.rest
  IN  /\ Goto(t, "unlock_queue", "split")
      /\ ~LockedBy(loc[t].state) /\ WakesWriter(t)
      /\ node' = [node EXCEPT ![head].tail = node[loc[t].tail].prev]
      /\ loc' = [loc EXCEPT ![t].current = head]
      /\ UNCHANGED <<word, token, left>>

\* ... the queue released, ...
split_release(t) ==
  LET s == loc[t].state
  IN  /\ Goto(t, "split", "complete")
      /\ Exchange(t, S(s.flags \ {"QUEUE_LOCKED"}, s.rest))
      /\ loc' = [loc EXCEPT ![t].current = loc[t].tail]
      /\ UNCHANGED <<node, token, left>>

\* ... or, if the state has changed, the tail put back.
split_fail(t) == Reload(t, "split", "undo")

\* Mutant: the tail is not put back.
Mut_undo(t) == Find(t, "undo", loc[t].state, loc[t].caller) /\ UNCHANGED <<word, node, token, left>>

undo(t) ==
  /\ node' = [node EXCEPT ![loc[t].current].tail = loc[t].tail]
  /\ Find(t, "undo", loc[t].state, loc[t].caller)
  /\ UNCHANGED <<word, token, left>>

\* Mutant: a downgrade is forgotten.
Mut_wake_queue(t) ==
  /\ Goto(t, "unlock_queue", "complete_all")
  /\ ~LockedBy(loc[t].state) /\ ~WakesWriter(t)
  /\ Exchange(t, UNLOCKED)
  /\ loc' = [loc EXCEPT ![t].current = loc[t].tail]
  /\ UNCHANGED <<node, token, left>>

\* Otherwise all waiters are woken, and the queue is cleared.
wake_queue(t) ==
  /\ Goto(t, "unlock_queue", "complete_all")
  /\ ~LockedBy(loc[t].state) /\ ~WakesWriter(t)
  /\ Exchange(t, IF "DOWNGRADED" \in loc[t].state.flags THEN S({"LOCKED"}, 1) ELSE UNLOCKED)
  /\ loc' = [loc EXCEPT ![t].current = loc[t].tail]
  /\ UNCHANGED <<node, token, left>>

\* A compare_exchange of unlock_queue fails: find the tail again.
requeue(t) ==
  /\ word # loc[t].state
  /\ Find(t, "unlock_queue", word, loc[t].caller)
  /\ UNCHANGED <<word, node, token, left>>

\* Node::complete: the flag, after which the node may be gone, ...
complete(t) ==
  /\ \/ /\ Goto(t, "complete", "unpark")
        /\ UNCHANGED loc
     \/ /\ Goto(t, "complete_all", "unpark")
        /\ loc' = [loc EXCEPT ![t].prev = node[loc[t].current].prev]
  /\ node' = [node EXCEPT ![loc[t].current].completed = TRUE]
  /\ UNCHANGED <<word, token, left>>

\* ... then the token.  complete_all goes on with the previous node.
unpark(t) ==
  /\ token' = [token EXCEPT ![loc[t].current] = TRUE]
  /\ IF loc[t].prev = null
     THEN Goto(t, "unpark", Return[loc[t].caller]) /\ Leave(t)
     ELSE /\ Goto(t, "unpark", "complete_all")
          /\ loc' = [loc EXCEPT ![t].current = loc[t].prev, ![t].prev = null]
  /\ UNCHANGED <<word, node, left>>
-----------------------------------------------------------------------------
Inside(t) ==
  \/ load(t) \/ reload(t) \/ lock_contended(t) \/ enqueue(t) \/ wait(t) \/ park(t)
  \/ find_tail(t) \/ cache_tail(t)
  \/ read_unlock(t) \/ decrement(t) \/ write_unlock(t) \/ unlock_contended(t) \/ reunlock(t)
  \/ downgrade(t) \/ downgrade_slow(t) \/ redowngrade(t)
  \/ release_queue(t) \/ split(t) \/ split_release(t) \/ split_fail(t) \/ undo(t)
  \/ wake_queue(t) \/ requeue(t) \/ complete(t) \/ unpark(t)

AllDone == left = 0 /\ (\A t \in Threads : pc[t] = "idle") /\ UNCHANGED vars

Next == (\E t \in Threads : lock(t) \/ Inside(t) \/ park_spuriously(t)) \/ AllDone

Spec == Init /\ [][Next]_vars

\* A thread in a call is run, and releases what it holds.
FairSpec == Spec /\ \A t \in Threads : WF_vars(Inside(t))
-----------------------------------------------------------------------------
Walks(t, caller) == loc[t].caller = caller

\* Who reads and who writes: a reader until it has taken itself off the count,
\* a writer until it releases the word.
Reading ==
  {t \in Threads : pc[t] \in {"reading", "decrement"} \/ Walks(t, "read_unlock") \/ Walks(t, "downgrade")}

Writing == {t \in Threads : pc[t] \in {"writing", "downgrade"}}

\* The queue as the word gives it: its nodes along the next links, the first of
\* them with a tail, and the tail.
chain[i \in 0 .. Cardinality(Threads)] ==
  IF i = 0 THEN word.rest ELSE IF chain[i - 1] \in Threads THEN node[chain[i - 1]].next ELSE null

Registered(n) == n \in Threads /\ ~node[n].completed

FirstTail ==
  CHOOSE i \in DOMAIN chain : node[chain[i]].tail # null /\ \A j \in 0 .. i - 1 : node[chain[j]].tail = null

\* A writer excludes everybody else, barging, downgrades and the hand-over to
\* the queue included; and the readers are counted exactly, in the word or in
\* the tail of the queue (a downgrade that is still to be done: one).
OwnersAreExact ==
  /\ \A t \in Writing : Writing = {t} /\ Reading = {}
  /\ Reading # {} =>
       /\ "LOCKED" \in word.flags
       /\ Cardinality(Reading) = IF "QUEUED" \notin word.flags THEN word.rest
                                 ELSE IF "DOWNGRADED" \in word.flags THEN 1
                                 ELSE node[node[chain[FirstTail]].tail].next

\* The invariants 1 to 4 of the module's documentation: the links lead from the
\* word to a node with a tail, and back links from that tail to this node.
QueueIsLinked ==
  "QUEUED" \in word.flags =>
    \E k \in DOMAIN chain : \E l \in k .. Cardinality(Threads) :
      /\ \A i \in 0 .. l : Registered(chain[i])
      /\ \A i \in 0 .. k - 1 : node[chain[i]].tail = null
      /\ node[chain[k]].tail = chain[l]
      /\ \A i \in k .. l - 1 : node[chain[i + 1]].prev = chain[i]

\* The nodes that the next step of t reads or writes.
Touches(t) ==
  CASE pc[t] = "find" -> {loc[t].current} \cup
         (IF Registered(loc[t].current) /\ node[loc[t].current].tail = null
          THEN {node[loc[t].current].next} ELSE {})
    [] pc[t] = "cache_tail" -> {loc[t].state.rest}
    [] pc[t] = "decrement" -> {loc[t].tail}
    [] pc[t] = "unlock_queue" /\ ~LockedBy(loc[t].state) -> {loc[t].tail, loc[t].state.rest}
    [] pc[t] \in {"undo", "complete", "complete_all"} -> {loc[t].current}
    [] OTHER -> {}

\* Nobody looks at a node whose thread may have left: one that is completed,
\* or not in the queue.  And the assertions of the slow paths hold.
NodesOutliveUse ==
  \A t \in Threads :
    /\ \A n \in Touches(t) : Registered(n)
    /\ pc[t] \in {"unlock", "downgrade"} => loc[t].state.flags \ {"QUEUE_LOCKED"} = {"QUEUED", "LOCKED"}
    /\ pc[t] = "unlock_queue" => {"QUEUED", "QUEUE_LOCKED"} \subseteq loc[t].state.flags

\* Every call of read and write returns, whoever has to do the waking.
CallsReturn == \A t \in Threads : pc[t] # "idle" ~> pc[t] = "idle"
=============================================================================
