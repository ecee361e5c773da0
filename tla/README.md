# TLA+ models of the Rust standard library's synchronization primitives

The repository is a fork of the Rust standard library that is set up for
verification (Kani contracts, VeriFast proofs, a book of challenges).  Those
tools look at one function or one data structure at a time, in one thread.  What
they do not reach is the library's concurrency: the locks, parkers, condition
variables and one-time cells of `std::sync`, built on a few atomic words and the
futex system calls; the channels and the queue-based lock that park threads on top
of them; and the reference counts of `alloc::sync::Arc`.  That is the part modelled
here.

## Inventory

| Component | State | Operations | Interacts with | What makes it correct |
|---|---|---|---|---|
| futex layer, `sys/pal/unix/futex.rs` | kernel wait queues | `futex_wait`, `futex_wake`, `futex_wake_all` | called by all below | sleep only while the word has the expected value |
| `sys::Mutex`, `sys/sync/mutex/futex.rs` | a word: UNLOCKED, LOCKED, CONTENDED | `lock`, `try_lock`, `unlock` | futex; used by Condvar, `sync::Mutex` | one owner; no sleeper forgotten |
| `sys::RwLock`, `sys/sync/rwlock/futex.rs` | reader count, two waiting bits, `writer_notify` | `read`, `write`, `try_*`, unlocks, `downgrade` | two futexes | a writer excludes all; exact count; every call returns |
| `sys::Once`, `sys/sync/once/futex.rs` and `sync/poison/once.rs` | state and QUEUED bit | `call_once`, `call_once_force`, `wait`, `wait_force`; `state`, `set_state` (exclusive) | futex, user closures; used by OnceLock, LazyLock | one closure at a time; completion is final; waiters leave |
| thread parking, `sys/sync/thread_parking/futex.rs` | EMPTY, NOTIFIED, PARKED | `park`, `park_timeout`, `unpark` | futex; used by channels, scopes, queue locks | a token is never lost |
| `sys::Condvar`, `sys/sync/condvar/futex.rs`; `sync/nonpoison/condvar.rs` | notification counter | `wait*`, `wait_while`, `notify_*` | mutex, futex | no notification missed |
| `sync::Barrier` | count, generation | `wait` | mutex, condvar | rounds do not mix, all leave |
| poison flag and `sync::poison::*` | a flag beside each lock | guard creation and drop, `clear_poison` | panics | poison is seen by the next owner |
| `OnceLock`, `LazyLock` | cell + Once | `get_or_try_init`, `take`, `force` | Once | value read only when written |
| `ReentrantLock` | mutex, owner id, count | `lock`, `try_lock`, drop | mutex | owner check by a relaxed load is sound |
| channel handles, `mpmc/counter.rs`, drops in `mpmc/mod.rs` | handles of each side, `destroy` flag | clone, drop (disconnect, then free) | flavours | freed once, with nobody inside |
| contexts and wakers, `mpmc/context.rs`, `waker.rs` | `select` word of a blocked thread; queue of blocked threads and its `is_empty` flag | `register`, `unregister`, `try_select`, `notify`, `disconnect`, `wait_until` | parking; used by the flavours | one decision per operation; no wake-up lost |
| bounded channel, `mpmc/array.rs` | ring of stamped slots, head, tail with a mark bit | `send`, `recv`, try and timed forms, disconnect, discard | wakers, contexts | a bounded queue; a slot has one owner |
| unbounded channel, `mpmc/list.rs` | blocks, two positions, three bits for a slot | the same, and freeing blocks | wakers, contexts | an unbounded queue; blocks freed once, after use |
| rendezvous, `mpmc/zero.rs` | packets on stacks, a flag, one mutex | the same | wakers, contexts | message and success of both calls go together |
| `mpmc/mod.rs`, `sync/mpsc.rs` | — | dispatch to a flavour | — | — |
| queue RwLock, `sys/sync/rwlock/queue.rs` | state word, intrusive list of stack nodes | `read`, `write`, `try_*`, unlocks, `downgrade` | parking | exact owners; a node is not used after its owner left; every call returns |
| queue Once | intrusive list of stack nodes | as Once | parking | as Once |
| threads, scopes | scope counter, join packet | spawn, join, `scope` | parking, Arc | a scope outlives its threads |
| `Arc`, `Weak` | strong and weak count | clone, drop, upgrade, `get_mut`, `make_mut` | — | dropped once, after the last use |
| everything else | — | — | — | sequential code or operating-system wrappers |

The hard behaviours are the usual ones of lock-free code: a decision taken on a value
loaded earlier, a wake-up that falls between a check and the sleep, one waiting bit
for many sleepers, threads that barge in front of woken ones, spurious and
interrupted waits, time-outs that race a late notification, closures that panic
half-way, counters at their limits, memory (a block, a node or packet on a stack, the
channel, an allocation) that one thread gives up while another is still on its way to it,
and states that are half installed when the other side leaves.  `hazards` in `PROJECT.json` lists them by line.

## Modules

Each module has one action per atomic access of the source (or per critical section,
where a mutex guards one); `pc[t]` is
the control point of thread `t`, and a thread in the kernel's queue is at a control
point of its own ("asleep").  Actions have the names of the functions, or of the
step inside the function that they stand for (`mark_contended`, `write_check`).

| Module | Models |
|---|---|
| `Futex` | the wait queue: sleep-if-equal, wake one (any), wake all, EINTR, spurious return |
| `FutexMutex`, `AbstractMutex` | the mutex, and what it promises |
| `FutexRwLock` (`MCFutexRwLock` for TLC) | the readers-writer lock with `downgrade` |
| `FutexOnce`, `AbstractOnce` | one-time initialization with poisoning |
| `FutexParker`, `AbstractParker` | the parker of one thread, and the token it promises |
| `FutexCondvar` | the condition variable's operations over `AbstractMutex` |
| `CondvarQueue` | a producer/consumer program around `wait_while` and `wait_timeout_while` |
| `Barrier`, `AbstractBarrier` | the barrier over `FutexCondvar`, and the rounds it promises |
| `Mpmc` | what the channel flavours share: handles, contexts, the queue of blocked threads |
| `SyncWaker` | that queue behind a mutex with a flag in front |
| `ArrayChannel`, `ListChannel`, `AbstractChannel` | the buffered channels, and the queue they promise |
| `ZeroChannel`, `AbstractRendezvous` | the channel without a buffer, and the meeting it promises |
| `QueueRwLock` | the readers-writer lock of platforms without futexes |
| `Arc` | the life of one allocation under `Arc` and `Weak` |
| `FutexRwLockProofs`, `ZeroChannelProofs`, `ArrayChannelProofs`, `QueueRwLockProofs`, `ArcProofs` | theorems, each about the module of its name |
| `FutexProofs` | theorems about `FutexMutex`, `FutexOnce` and `FutexParker` |
| `CondvarProofs` | theorems about `CondvarQueue` and `Barrier` |
| `MpmcProofs` | lemmas about the queues of blocked threads, for all flavours |

Composition: `Barrier` and `CondvarQueue` extend `FutexCondvar`, which uses the
contract `AbstractMutex`; `FutexProofs` proves that `FutexMutex` keeps that
contract.  `ArrayChannel` and `ListChannel` extend `SyncWaker`, which extends `Mpmc`;
`ZeroChannel` extends `Mpmc` and has a mutex of its own.  These and `QueueRwLock` use
the token of `AbstractParker`, which `FutexProofs` proves of the futex parker.
Components that one module proves about are all extended by it, so that their
definitions have different names: `MutexSpec`, `ParkerSpec` and `QueueSpec` are the specifications of
`FutexMutex`, `FutexParker` and `CondvarQueue`, and the barrier's use of `wait_while` is `wait_generation`.
`Mut_*` operators beside a definition are plausible bugs of that
definition; each property is known to fail for the mutant that `PROJECT.json` names.

### How state corresponds

* `FutexMutex`: `futex` is the word; `local_state[t]` the local `state` of `lock_contended`.  The
  spin loops only load, and any moment's value is a possible result: one load.
* `FutexRwLock`: `word` has the three fields of the state word; a carry or borrow
  out of the counter shows as a count out of range.  `state`, `has_slept`, `others`
  are the locals `state`, `has_slept`, `other_writers_waiting`.  `writer_notify` is
  only compared with a value loaded from it, so it is kept as the set `current` of
  threads whose loaded value is up to date.  `WakeReports` tells the platforms apart
  on which `futex_wake` says whether it woke somebody.
* `FutexOnce`: `word` is `state_and_queued`, `seen[t]` the local copy.  The closure
  is external: `finish` ends it with COMPLETE, or POISONED (a panic, or
  `OnceState::poison`).
* `FutexParker`: `state` is an integer modulo `MAX + 1`, because `park` relies on
  `EMPTY - 1 = PARKED`; `timed` tells `park_timeout` from `park`.
* `FutexCondvar`: `current` as above for the notification counter.  A time-out is a
  return from the wait at any moment.
* `Barrier`: `count`, `generation_id`, `local_gen` as in the source.
* `Mpmc`: `handles` and `destroy` are the fields of `Counter`, `freed` the drop of its
  box; `select[t]` and `token[t]` are the context of `t` and its parker; `selectors` are
  the two wakers' queues; `woken[t]` are the threads that `t` has selected and, still
  inside the critical section, not yet unparked.  Each thread has one handle.  A reset
  of the context at its next use is done when the wait ends.
* `ArrayChannel`: `head`, `tail`, `stamp` are the code's numbers (lap, mark bit, index);
  the mark bit of the tail is the variable `mark`, read and written with it.  `pos[t]` is
  the local head or tail, later the token.
* `ListChannel`: an index is `index >> SHIFT` with its mark bit apart; blocks are named by
  the lap they serve, `live` are the allocated ones, `next`, `state`, `slot` their
  contents.  A block allocated in advance and not installed stays with its thread
  and is left out.
* `ZeroChannel`: `msg[t]` and `ready[t]` are the packet on the stack of `t`, `partner[t]`
  the owner of the packet in the token of `t`.
* `QueueRwLock`: `word` is the state word as its flags and the rest (null, a count, or a
  node); a node is named by its thread, so that it may come back at the same address.
  `loc[t].caller` is the function inside which `t` walks the queue.
* `Arc`: `strong` and `weak` are words with `MAX` for `usize::MAX`; `arcs` and `weaks` are
  the threads that own a handle, one of each kind at most; `data` and `freed` are value
  and allocation.

### Abstractions

* Interleaving of atomic steps, as if all accesses were sequentially consistent.
  For the control of a primitive on a single word this is exact; for the RwLock's
  second futex, for the several words of a channel, for the two counters of an `Arc`
  (fences included) and for the data that a lock protects, the orderings in the code
  are taken to work.
* `compare_exchange_weak` may fail for no reason; inside a loop that reloads, the
  failure changes nothing and is a stutter; on the fast paths of `RwLock` it is a
  step to the contended path.
* `try_*` calls that fail, and calls on a completed Once, change nothing.
* A panic for too many readers returns to the caller; the panic of a poisoned Once too.
* A loop that only spins until a value is there is a guard on that value.
* A time-out may happen whenever a thread is parked; a call without a deadline behaves
  like one whose deadline never comes.  `try_send` and `try_recv` are calls that give up
  where the others would block.
* Critical sections of the wakers' mutex that make one visible change are one step.
  Selecting and unparking are two, with the mutex held; a disconnection selects all
  blocked threads in one step and unparks them in the next.
* `AbstractChannel` lets a sender hear "full" also while the last receiver throws
  messages away: `discard_all_messages` does not move the head.
* `Arc`: the handle that `clone` makes goes to a thread between its calls; a destructor
  that panics drops the shared weak reference all the same.
* The full turn of a 2^32 notification counter between a load and the sleep is left out.

## Runs

| Run | Instance | Shows |
|---|---|---|
| `futex_mutex` | 3 threads, endless calls | no lost wake-up; progress; refinement, exclusion included |
| `rwlock_safety` | 3 threads, endless calls, at most 2 readers, symmetry | exclusion through downgrades and barging; exact count at the limit; the debug_assert of `read_unlock`; the comment of `downgrade`; every sleeper is owed a wake-up; a free lock with waiters is in somebody's hands |
| `rwlock_live` | 3 threads, 3 calls, `futex_wake` says nothing | every call returns |
| `futex_once` | 3 threads, `call`/`wait` with and without `ignore_poisoning`, failing closures | nobody forgotten; `unreachable!()` is unreachable; calls return; refinement (one runner, completion is final) |
| `futex_parker` | an owner and 4 unparkers, 8 bits | no lost wake-up; a token ends the park; refinement |
| `condvar_queue` | 2 producers, 3 consumers (one timed), 2 items | no missed notification; condition re-checked; items are taken |
| `barrier` | 4 of 4 threads, wrapping generation | with threads of two rounds inside: released threads are woken; rounds go on for ever; refinement |
| `array_channel` | 1 sender of 3 messages, 2 receivers, capacity 2 | one owner for a slot; nothing left behind; all calls return and the channel is freed; refinement to a queue of 2 |
| `zero_channel` | 2 senders of 1 message, 2 receivers | a packet outlives its use; refinement to a rendezvous; all leave |
| `list_channel` | 2 senders of 1 message, 2 receivers, blocks of 2, symmetry | blocks used and freed right, half-installed ones included; who spins is owed a step, who sleeps a wake-up; refinement to a queue |
| `queue_rwlock` | 1 reader, 2 writers, 4 calls | exact owners; links of the queue; nodes outlive their use; every call returns |
| `arc` | 4 threads, one `Arc` and one `Weak` each | a mutable reference is alone; value and allocation go once and last |

Bounds.  Three threads are the fewest that show an owner, a sleeper and a third that
barges in between them; for the RwLock a sleeping reader, a sleeping writer and an
owner.  `MAX_READERS = 2` puts the limit in reach of three threads.  The mutex, the
Once, the parker, and the safety of the RwLock need no bound on the calls; `MaxCalls`
bounds them only for liveness.  `MaxItems` bounds the items nobody has taken.
`barrier` has as many threads as the barrier counts and wraps the generation after every
second round.  With more threads than `num_threads`, a waiter that does not run for a whole
turn of the counter (2^64 rounds in the code) would stay; a counter that wraps in reach of
a run would show only that, so the run leaves it out.

The channels are bounded by `MaxSends`, the messages of one sender; receivers call as
often as they like until they drop their handle.  Three messages through a buffer of two
meet it full, empty and half full and enter the second lap; two receivers race for a slot.
In a list with blocks of two, two senders race for the first block and for the last slot, the
next block is installed and becomes the head's, and the two readers leave the block in either order, or
drop their handles before the first block is in the head.  A block in which a reader
that destroys finds several slots unread needs more messages and is out of this run's bound.
Two threads on a side of `zero_channel` are what it
takes for a time-out to let a second thread into the queue.  In `queue_rwlock` a holder,
a queue, and a thread that pushes to it during the walk are three threads (a downgraded
writer is the second reader); `MaxCalls` counts the calls of all threads together.  Four threads of `Arc` let one lock the weak
count while others upgrade, downgrade and drop; `MAX` only has to be out of
reach of the counts.

Fairness.  Weak fairness of each thread's own steps inside a call: the operating
system runs every runnable thread, owners release locks and closures end.  Nothing
is assumed of new calls (except at the barrier, where threads come back), of spurious
wake-ups, interrupts or time-outs, and no lock is assumed to be fair, because none
is: `LockIsAcquired` says that somebody gets the mutex (so a thread that is alone does),
`EveryCallReturns` is about finitely many calls, and the barrier's liveness for waiters that do not wake up spuriously for
ever (each such wake-up takes the mutex).  `CallsReturn` is up to closures that do
not fail for ever.

`array_channel` and `zero_channel` also assume that every owner of a handle drops
it some day (strongly, since calls come in between): then `ChannelIsFreed` says that no call
hangs, because a handle is dropped only between calls.  A time-out is never relied upon.
`list_channel` has invariants instead of a liveness property: `SpinnersAreOwed` says that
each spin waits for a step that a thread is about to make, `SleepersAreOwed` that no
receiver sleeps while there are more messages than threads on their way to deliver them.
In `queue_rwlock` owners release what they
hold and spurious returns of `park` are possible, not fair.

## Proofs

Proved with TLAPS for every value of the constants under the named assumptions of the
modules: sets of threads of any size (finite for the two RwLocks, the condition variable, the
barrier and `Arc`, where threads are counted), `NoThread`, `NoOwner` and `None` are no threads,
a node of the queue-based lock is not a number (the word tells a node from a count by its flags),
senders and receivers are different threads and there are finitely many and at least one of
each, `MAX_READERS` is at least one, the two
counters of an `Arc` cannot reach `MAX` with the threads there are, `cap` of the bounded
channel is at least one and its `mark_bit` the power of two that the code computes
(`(cap + 1).next_power_of_two()`), and `None` is no message.

* `MutexExcludes`: mutual exclusion is not inductive alone: `unlock` stores UNLOCKED
  blindly, so that exclusion needs `WordTellsOwner`, which in turn needs it.
* `MutexNoLostWakeup` (`SleeperIsOwed`): the sleeper is owed a wake-up.  The delicate steps are
  `mark_contended` that takes the lock (the mark stays on the word) and `unlock`
  (takes it away and becomes responsible).
* `MutexRefines`: every step is an abstract `Acquire`, `Release` or stutter, with
  the owner as the refinement mapping.
* `RwLockExcludes`: the invariant is the word's counter against the cardinality of
  the readers; one lemma per way in which a thread comes or goes
  (`ReaderEnters`, `WriterLeaves`, `WriterBecomesReader`, ...), all other steps by
  `HoldersUnchanged`.  Also the type invariant: the counter never leaves its bits.
* `RwLockReadersBit`: the two assertions about the readers-waiting bit, by
  `DowngradeInv` (a downgrading thread is the only reader until it has cleared it).
* `RwLockReaderIsOwed`: from `ReaderMarked`, the value a reader sleeps on has the bit.
* `RwLockCountIsExact`: a part of the same invariant.
* `RwLockWriterIsOwed`: a writer's sleep rests on two things, the value of `writer_notify`
  that it has loaded and the waiting bit, and on a third when the bit has been taken away
  for another writer: `others`.  `WriterInv` joins them: whoever has waited once has
  `others` set (`OthersInv`), and a writer whose loaded value is still current has the bit
  on or a notifier before its `fetch_add` (`SeqInv`).
* `RwLockFreeIsHandedOn`: that somebody is in the waking code is not inductive, because that
  somebody may hold a copy of the word that has become old, so that its
  `compare_exchange` fails and it leaves.  `HandInv` names who is responsible for a free lock with
  waiters: the last unlocker, with a copy that is the word or that it can still correct,
  or a writer that is awake.
* `OnceOneRunner`, `OnceCompleteIsFinal`, `OnceWaiterIsOwed`, `OnceQueuedHasOwner`,
  `OnceExclusiveStateIsClean`: the last follows from the first and the fourth.
  `QueuedHasOwner` names, for a set QUEUED bit, a thread that cannot leave yet.
* `OnceRefines`: only `Run` and `finish` are abstract steps; with `OneRunner` the
  runner of the abstract once is the one thread inside its closure.
* `ParkerStates`, `ParkerNoLostWakeup`, `ParkerRefines`: for every `MAX` of at least 2.
  The invariant adds that nobody but the owner sleeps on the Parker's word, without
  which a wake-up could go to the wrong thread.

* `QueueConditionHolds`, `QueueNoMissedNotification`: that somebody is awake while there is an item is not
  inductive either: the one who is awake takes one of two items and leaves.  `CountInv`
  counts: while somebody sleeps there are no more items than threads on their way to one
  (awake, or about to wake somebody), and while a waiter's copy of the counter is current,
  no more than threads that are awake or have yet to increment it.  The step that
  matters is `futex_wake`, which turns one notifier into one waiter.
* `BarrierWakesReleased`: by `WaitInv`, a waiter whose copy of the counter is current waits
  for the current generation (or the leader has not incremented yet), and one that
  sleeps on an old copy is about to be woken.
* `BarrierRefinesRounds`: for any number of threads, from the count against the set of those
  who have arrived, under the hypothesis `NoFullTurn`: the generation that a leader starts
  is not that of a thread still inside.  Without it the claim is false for any finite
  counter; a full turn takes 2^64 rounds.  `BarrierRefines` discharges the hypothesis for a
  barrier used by at most `num_threads` threads: when the leader arrives, all the others
  have arrived in its own generation.
* `ArcExclusive`, `ArcFreedOnceAndLast`: the strong count is the number of `Arc`s, but for the
  window in which `make_mut` or a last drop has taken it to zero; the weak count that of the `Weak`s and one for all
  `Arc`s together, but for the window in which `is_unique` has locked it.  `CallInv` says what a
  thread inside each window may rely on: inside the lock there is no `Weak`, inside the
  emptied window there is no other `Arc`, and both windows keep the others out.
* `ZeroPacketOutlivesUse`: from `QueueInv` (the entries of the queues are undecided or
  leaving), `ContextInv` (a context is decided only inside `wait_until`) and `PairInv` (who has
  a partner is its only user, and the partner has been selected and not signalled).
* `ZeroRefinesRendezvous`: the refinement mapping looks at all threads (is there somebody
  who has taken my packet, which message is bound for me).  `MetIs` and `BoundIs` show that
  under `IInv` the answer is determined by the thread's own state and its partner's, so that a
  step changes the abstract state of at most two calls; pairing up is the
  meeting, a context decided by a time-out or a disconnection is the refusal, and every
  step that only moves the message is a stutter.

* `ArraySlotIsOwned`, `ArrayFreedWhenUnused`: for every capacity and any number of laps.  A
  position is a lap and an index (`Pos`); two facts about it are all the arithmetic needed:
  there is none between a position and the next, and none of the same slot within a lap
  (`Order`).  `SlotIsOwned` is not inductive: a thread's right to a slot was settled by a
  `compare_exchange` on a position, long before the access, and rests on the stamp.
  `RingInv` says what a stamp means: a slot is free for a position of the current lap, or full
  with one that the tail has passed, and when the other side has already passed it, some
  thread is at it.  `ClaimInv` says that who has moved a position is alone with its slot
  until it stores the stamp, `LocalInv` that the position a thread has loaded is never ahead
  of the real one and a stamp that fitted never behind it, which is why the
  `compare_exchange` succeeds only on a slot in the state that was seen; `SlotInv` ties message to stamp.
  `HandleInv`, `DestroyInv` and `QueueInv` count the handles, name the one thread of a side
  that disconnects and destroys, and say that an entry of a queue is a thread asleep; without
  them nothing keeps the last receiver's discard apart from other receivers.
* `ArrayRefinesChannel`: the queue of the refinement mapping is the messages of the positions
  from `first` to `tail`, by rank.  Ranks count positions (`rank(advance(p)) = rank(p) + 1`),
  so moving the tail appends, moving the head or discarding takes the first, and for every
  other step the message of each position in between is shown to stay the same: in its
  sender's hands, then in the slot.  No induction over the queue is needed.  The verdicts are
  the other half: the stamp that a sender finds a lap behind, and the head it then loads,
  show a full queue at the moment of that load; and the same for empty and closed.

* `QueueOwnersAreExact`, `QueueLinks`, `NodesInUse`: for queues of any length.  Whether a
  step may follow a link depends on the whole chain behind it, and the chain is changed at
  its head by threads that push, along the walk by up to all readers at once, and at its
  tail by the thread with the queue lock.  The invariant `QueueInvariant` therefore numbers
  the nodes in the order in which they were pushed: the queue is the interval `lo .. hi` of
  numbers, a downgrade or a release moves a part of it to the interval `dl[t] .. dh[t]` of the thread that will
  complete it, and no two live numbers have the same thread, although a thread may come back with the same
  node.  Links, back links and known tails are then claims about each number of
  an interval (`Linked`, `Back`), and a walk is a number that goes down (`Walk`).  The
  numbering is bound by an existential quantifier in the invariant (`Shaped`); each action has to show which
  numbering fits afterwards, and only a push, a taking and a completion change it.
  `OwnerInv` and `HolderInv` carry the rest: who owns the lock against the word, and that whoever
  is about to split the tail off has seen no owner, so that no reader's count is in it.
  The run's properties speak of the chain that starts in the word; `ChainIs` unfolds that
  recursive function by the least number at which it would fail, which the provers
  take, and `ChainOfQueue` shows it to be the interval read from the top.

`MutexExcludes`, `OnceOneRunner`, `OnceCompleteIsFinal` and `ParkerStates` have no run of
their own: they are the invariants behind the refinements, which runs and theorems both state.

Only model-checked: liveness under fairness (out of the prover's reach) and the unbounded
channel.  The blocks of `ListChannel` are a chain as well, in which only one `next` link lies between the
tail's and the head's block within the run's bounds; for any number of blocks its
invariants need a numbering like that of the queue-based lock, by laps, together with what each of a
block's readers knows of the others' bits.

## Plan

1. Theorems about `ListChannel` (`BlocksAreOwned`, from the readers' bits of a block).
2. `OnceLock` and `LazyLock` over `AbstractOnce`, `set_state` included; the queue
   Once as a second implementation of `AbstractOnce`.
3. The poison flag with `poison::Mutex`, `RwLock`, `Condvar`; `ReentrantLock` over
   `AbstractMutex`; scoped threads over `AbstractParker`; cloning of channel handles.

## Not modelled

Weak memory orders beyond what is said above; of the channels the cloning of handles,
`len`, observers and heap packets (no code of std makes them); of `Arc` cyclic construction, raw
pointers and slices, `UniqueArc` and the abort at `MAX_REFCOUNT`; the other platforms' back-ends (thin
wrappers over operating-system locks); I/O, file system, network and process
wrappers; `core` and the sequential collections of `alloc`, whose hazards are
pointer-level and belong to the verification challenges; SIMD and compiler builtins;
the verification tooling itself.
