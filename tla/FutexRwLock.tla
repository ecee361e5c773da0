----------------------------- MODULE FutexRwLock -----------------------------
(***************************************************************************)
(* The futex-based readers-writer lock,                                    *)
(* library/std/src/sys/sync/rwlock/futex.rs.                               *)
(*                                                                         *)
(* The 32-bit state word is kept as its three fields: the 30-bit counter   *)
(* and the two waiting bits.  A carry or borrow out of the counter, which  *)
(* would corrupt the bits in the code, shows as a counter outside its      *)
(* range.  The notification counter of the writers is only ever compared   *)
(* with a value loaded from it before, so it is kept as the set of threads *)
(* whose loaded value is still the current one; that 2^32 notifications    *)
(* fall between a writer's load and its futex_wait is left out.            *)
(*                                                                         *)
(* One action per atomic access.  A compare_exchange_weak that fails       *)
(* spuriously reloads the same value and goes round its loop: a step that  *)
(* changes nothing.  The fast paths of read and write load, test and       *)
(* compare-exchange; since they may fail at any moment, they are "acquire, *)
(* or go to the contended path".  A local variable that has gone out of    *)
(* scope, or whose value is not read again, has its initial value.         *)
(***************************************************************************)
EXTENDS Futex, Naturals, FiniteSets

CONSTANTS MAX_READERS,    \* the largest reader count, MASK - 1
          WakeReports     \* does futex_wake tell whether it woke a thread?

ASSUME MaxReadersAssumption == MAX_READERS \in Nat \ {0}
ASSUME WakeReportsAssumption == WakeReports \in BOOLEAN
ASSUME ThreadsAssumption == IsFiniteSet(Threads)

VARIABLES word,           \* the state word
          current,        \* threads whose loaded writer_notify is up to date
          state,          \* state[t]: the local variable "state"
          has_slept,      \* has_slept[t]: the local of read_contended
          others          \* others[t]: "other_writers_waiting" is set

vars == <<pc, word, current, state, has_slept, others>>

WRITE_LOCKED == MAX_READERS + 1

Word == [count : 0 .. WRITE_LOCKED, readers_waiting : BOOLEAN, writers_waiting : BOOLEAN]

W(n, r, w) == [count |-> n, readers_waiting |-> r, writers_waiting |-> w]

is_unlocked(s) == s.count = 0

is_write_locked(s) == s.count = WRITE_LOCKED

\* Mutant: only the waiting bits are looked at, not the counter.
Mut_is_read_lockable(s) == ~s.readers_waiting /\ ~s.writers_waiting

is_read_lockable(s) ==
  s.count < MAX_READERS /\ ~s.readers_waiting /\ ~s.writers_waiting

is_read_lockable_after_wakeup(s) ==
  /\ s.count < MAX_READERS
  /\ ~s.readers_waiting
  /\ ~is_write_locked(s)
  /\ ~is_unlocked(s)

has_reached_max_readers(s) == s.count = MAX_READERS

Init ==
  /\ word = W(0, FALSE, FALSE)
  /\ current = {}
  /\ pc = [t \in Threads |-> "idle"]
  /\ state = [t \in Threads |-> W(0, FALSE, FALSE)]
  /\ has_slept = [t \in Threads |-> FALSE]
  /\ others = [t \in Threads |-> FALSE]

\* Steps that leave all locals of the calls alone.
LocalsUnchanged == UNCHANGED <<state, has_slept, others>>

Load(t) == state' = [state EXCEPT ![t] = word]

Forget(t) == state' = [state EXCEPT ![t] = W(0, FALSE, FALSE)]

\* The call returns: its locals are gone.
Return(t, from, to) ==
  /\ Goto(t, from, to)
  /\ Forget(t)
  /\ has_slept' = [has_slept EXCEPT ![t] = FALSE]
  /\ others' = [others EXCEPT ![t] = FALSE]

AddReader == word' = [word EXCEPT !.count = @ + 1]

(***************************************************************************)
(* Readers                                                                 *)
(***************************************************************************)

\* try_read; a call that fails changes nothing.
try_read(t) ==
  /\ is_read_lockable(word)
  /\ AddReader
  /\ Goto(t, "idle", "reading")
  /\ UNCHANGED current /\ LocalsUnchanged

read(t) ==
  \/ try_read(t)
  \/ /\ Goto(t, "idle", "r_spin")
     /\ UNCHANGED <<word, current>> /\ LocalsUnchanged

spin_read(t) ==
  /\ Load(t)
  /\ Goto(t, "r_spin", "r_loop")
  /\ UNCHANGED <<word, current, has_slept, others>>

\* The test at the head of read_contended's loop.
may_read(t) ==
  \/ has_slept[t] /\ is_read_lockable_after_wakeup(state[t])
  \/ is_read_lockable(state[t])

\* compare_exchange_weak(state, state + READ_LOCKED)
read_lock(t) ==
  /\ pc[t] = "r_loop"
  /\ may_read(t)
  /\ \/ /\ word = state[t]
        /\ AddReader
        /\ Return(t, "r_loop", "reading")
     \/ /\ word # state[t]
        /\ Load(t)
        /\ UNCHANGED <<pc, word, has_slept, others>>
  /\ UNCHANGED current

\* assert!(!has_reached_max_readers(state)): the call panics.
read_overflow(t) ==
  /\ ~may_read(t)
  /\ has_reached_max_readers(state[t])
  /\ Return(t, "r_loop", "idle")
  /\ UNCHANGED <<word, current>>

\* Mutant: the readers-waiting bit is not set before going to sleep.
Mut_read_mark(t) ==
  /\ pc[t] = "r_loop"
  /\ ~may_read(t)
  /\ ~has_reached_max_readers(state[t])
  /\ state' = [state EXCEPT ![t] = word]
  /\ Goto(t, "r_loop", "r_wait")
  /\ UNCHANGED <<word, current, has_slept, others>>

\* Make sure that the readers-waiting bit is set, then wait on the word.
read_mark(t) ==
  /\ pc[t] = "r_loop"
  /\ ~may_read(t)
  /\ ~has_reached_max_readers(state[t])
  /\ \/ /\ state[t].readers_waiting
        /\ Goto(t, "r_loop", "r_wait")
        /\ UNCHANGED <<word, state>>
     \/ /\ ~state[t].readers_waiting
        /\ word = state[t]
        /\ word' = [word EXCEPT !.readers_waiting = TRUE]
        /\ state' = [state EXCEPT ![t] = [word EXCEPT !.readers_waiting = TRUE]]
        /\ Goto(t, "r_loop", "r_wait")
     \/ /\ ~state[t].readers_waiting
        /\ word # state[t]
        /\ Load(t)
        /\ UNCHANGED <<pc, word>>
  /\ UNCHANGED <<current, has_slept, others>>

\* futex_wait(&self.state, state | READERS_WAITING); has_slept = true
read_wait(t) ==
  /\ futex_wait(t, "r_wait", word, state[t], "r_asleep", "r_spin")
  /\ has_slept' = [has_slept EXCEPT ![t] = TRUE]
  /\ UNCHANGED <<word, current, state, others>>

read_leave_wait(t) ==
  /\ \/ futex_interrupted(t, "r_asleep", "r_wait")
     \/ futex_spurious(t, "r_asleep", "r_spin")
  /\ UNCHANGED <<word, current>> /\ LocalsUnchanged

\* fetch_sub(READ_LOCKED); the last reader wakes a waiting writer.
read_unlock(t) ==
  LET new == [word EXCEPT !.count = @ - 1]
      contended == is_unlocked(new) /\ new.writers_waiting
  IN /\ word' = new
     /\ Goto(t, "reading", IF contended THEN "wake_start" ELSE "idle")
     /\ state' = IF contended THEN [state EXCEPT ![t] = new] ELSE state
     /\ UNCHANGED <<current, has_slept, others>>

(***************************************************************************)
(* Writers                                                                 *)
(***************************************************************************)

\* try_write; a call that fails changes nothing.
try_write(t) ==
  /\ is_unlocked(word)
  /\ word' = [word EXCEPT !.count = @ + WRITE_LOCKED]
  /\ Goto(t, "idle", "writing")
  /\ UNCHANGED current /\ LocalsUnchanged

\* compare_exchange_weak(0, WRITE_LOCKED)
write(t) ==
  \/ /\ word = W(0, FALSE, FALSE)
     /\ word' = W(WRITE_LOCKED, FALSE, FALSE)
     /\ Goto(t, "idle", "writing")
     /\ UNCHANGED current /\ LocalsUnchanged
  \/ /\ Goto(t, "idle", "w_spin")
     /\ UNCHANGED <<word, current>> /\ LocalsUnchanged

spin_write(t) ==
  /\ Load(t)
  /\ Goto(t, "w_spin", "w_loop")
  /\ UNCHANGED <<word, current, has_slept, others>>

\* Mutant: a writer that has waited does not keep the writers-waiting bit.
Mut_write_lock(t) ==
  /\ pc[t] = "w_loop"
  /\ is_unlocked(state[t])
  /\ \/ /\ word = state[t]
        /\ word' = [word EXCEPT !.count = WRITE_LOCKED]
        /\ Return(t, "w_loop", "writing")
     \/ /\ word # state[t]
        /\ Load(t)
        /\ UNCHANGED <<pc, word, has_slept, others>>
  /\ UNCHANGED current

\* compare_exchange_weak(state, state | WRITE_LOCKED | other_writers_waiting)
write_lock(t) ==
  /\ pc[t] = "w_loop"
  /\ is_unlocked(state[t])
  /\ \/ /\ word = state[t]
        /\ word' = W(WRITE_LOCKED, word.readers_waiting, word.writers_waiting \/ others[t])
        /\ Return(t, "w_loop", "writing")
     \/ /\ word # state[t]
        /\ Load(t)
        /\ UNCHANGED <<pc, word, has_slept, others>>
  /\ UNCHANGED current

\* Make sure that the writers-waiting bit is set.
write_mark(t) ==
  /\ pc[t] = "w_loop"
  /\ ~is_unlocked(state[t])
  /\ \/ /\ state[t].writers_waiting \/ word = state[t]
        /\ word' = IF state[t].writers_waiting THEN word
                   ELSE [word EXCEPT !.writers_waiting = TRUE]
        /\ others' = [others EXCEPT ![t] = TRUE]
        /\ Goto(t, "w_loop", "w_seq")
        /\ Forget(t)
     \/ /\ ~state[t].writers_waiting /\ word # state[t]
        /\ Load(t)
        /\ UNCHANGED <<pc, word, others>>
  /\ UNCHANGED <<current, has_slept>>

\* let seq = self.writer_notify.load()
write_seq(t) ==
  /\ current' = current \cup {t}
  /\ Goto(t, "w_seq", "w_check")
  /\ UNCHANGED word /\ LocalsUnchanged

\* Mutant: the word is not looked at again after the counter.
Mut_write_check(t) ==
  /\ Goto(t, "w_check", "w_wait")
  /\ UNCHANGED <<word, current>> /\ LocalsUnchanged

\* Don't sleep if the lock is free or the writers-waiting bit is gone.
write_check(t) ==
  /\ \/ /\ is_unlocked(word) \/ ~word.writers_waiting
        /\ Load(t)
        /\ current' = current \ {t}
        /\ Goto(t, "w_check", "w_loop")
     \/ /\ ~is_unlocked(word) /\ word.writers_waiting
        /\ Goto(t, "w_check", "w_wait")
        /\ UNCHANGED <<current, state>>
  /\ UNCHANGED <<word, has_slept, others>>

\* futex_wait(&self.writer_notify, seq)
write_wait(t) ==
  /\ futex_wait(t, "w_wait", t \in current, TRUE, "w_asleep", "w_spin")
  /\ UNCHANGED <<word, current>> /\ LocalsUnchanged

write_leave_wait(t) ==
  /\ \/ futex_interrupted(t, "w_asleep", "w_wait")
     \/ futex_spurious(t, "w_asleep", "w_spin")
  /\ UNCHANGED <<word, current>> /\ LocalsUnchanged

\* Mutant: only waiting writers are thought of.
Mut_write_unlock(t) ==
  LET new == [word EXCEPT !.count = @ - WRITE_LOCKED]
  IN /\ word' = new
     /\ Goto(t, "writing", IF new.writers_waiting THEN "wake_start" ELSE "idle")
     /\ state' = IF new.writers_waiting THEN [state EXCEPT ![t] = new] ELSE state
     /\ UNCHANGED <<current, has_slept, others>>

\* fetch_sub(WRITE_LOCKED); wake somebody if anybody waits.
write_unlock(t) ==
  LET new == [word EXCEPT !.count = @ - WRITE_LOCKED]
      contended == new.writers_waiting \/ new.readers_waiting
  IN /\ word' = new
     /\ Goto(t, "writing", IF contended THEN "wake_start" ELSE "idle")
     /\ state' = IF contended THEN [state EXCEPT ![t] = new] ELSE state
     /\ UNCHANGED <<current, has_slept, others>>

(***************************************************************************)
(* downgrade: the word first, then the waiting readers                     *)
(***************************************************************************)

\* Mutant: the write bits are removed and no read bit is added.
Mut_downgrade_count(t) ==
  /\ word' = [word EXCEPT !.count = @ - WRITE_LOCKED]
  /\ Goto(t, "writing", IF word.readers_waiting THEN "d_clear" ELSE "reading")
  /\ UNCHANGED current /\ LocalsUnchanged

\* fetch_add(DOWNGRADE)
downgrade(t) ==
  /\ word' = [word EXCEPT !.count = @ + 1 - WRITE_LOCKED]
  /\ Goto(t, "writing", IF word.readers_waiting THEN "d_clear" ELSE "reading")
  /\ UNCHANGED current /\ LocalsUnchanged

\* fetch_sub(READERS_WAITING)
downgrade_clear(t) ==
  /\ word' = [word EXCEPT !.readers_waiting = FALSE]
  /\ Goto(t, "d_clear", "d_wake")
  /\ UNCHANGED current /\ LocalsUnchanged

downgrade_wake(t) ==
  /\ futex_wake_all(t, "d_wake", "reading", "r_asleep", "r_spin")
  /\ UNCHANGED <<word, current>> /\ LocalsUnchanged

(***************************************************************************)
(* wake_writer_or_readers                                                  *)
(***************************************************************************)

\* Only writers wait: clear the word and wake one of them.  If that fails,
\* or if readers wait too, go on with the value seen.
wake_start(t) ==
  /\ pc[t] = "wake_start"
  /\ \/ /\ state[t] = W(0, FALSE, TRUE)
        /\ word = state[t]
        /\ word' = W(0, FALSE, FALSE)
        /\ Goto(t, "wake_start", "notify")
        /\ Forget(t)
     \/ /\ state[t] = W(0, FALSE, TRUE)
        /\ word # state[t]
        /\ Load(t)
        /\ Goto(t, "wake_start", "wake_both")
        /\ UNCHANGED word
     \/ /\ state[t] # W(0, FALSE, TRUE)
        /\ Goto(t, "wake_start", "wake_both")
        /\ UNCHANGED <<word, state>>
  /\ UNCHANGED <<current, has_slept, others>>

\* Both wait: leave the readers waiting and wake one writer.  A failure means
\* that the lock got locked and its owner will take care.
wake_both(t) ==
  /\ pc[t] = "wake_both"
  /\ \/ /\ state[t] = W(0, TRUE, TRUE)
        /\ word = state[t]
        /\ word' = W(0, TRUE, FALSE)
        /\ Goto(t, "wake_both", "notify_both")
     \/ /\ state[t] = W(0, TRUE, TRUE)
        /\ word # state[t]
        /\ Goto(t, "wake_both", "idle")
        /\ UNCHANGED word
     \/ /\ state[t] # W(0, TRUE, TRUE)
        /\ Goto(t, "wake_both",
                IF state[t] = W(0, TRUE, FALSE) THEN "wake_readers" ELSE "idle")
        /\ UNCHANGED word
  /\ Forget(t)
  /\ UNCHANGED <<current, has_slept, others>>

\* wake_writer: writer_notify.fetch_add(1), then futex_wake(&writer_notify)
wake_writer_notify(t) ==
  /\ current' = {}
  /\ \/ Goto(t, "notify", "wake_writer")
     \/ Goto(t, "notify_both", "wake_writer_both")
  /\ UNCHANGED word /\ LocalsUnchanged

\* If the readers wait too, they are woken when no writer is known to be.
wake_writer(t) ==
  /\ \/ futex_wake(t, "wake_writer", "idle", "w_asleep", "w_spin")
     \/ futex_wake(t, "wake_writer_both",
                   IF WakeReports /\ Sleepers("w_asleep") # {}
                   THEN "idle" ELSE "wake_readers",
                   "w_asleep", "w_spin")
  /\ UNCHANGED <<word, current>> /\ LocalsUnchanged

\* Mutant: the bit is cleared whatever the word is by now.
Mut_wake_readers(t) ==
  /\ word' = [word EXCEPT !.readers_waiting = FALSE]
  /\ Goto(t, "wake_readers", "wake_all")
  /\ UNCHANGED current /\ LocalsUnchanged

\* Only readers wait (state = READERS_WAITING here): wake them all.
wake_readers(t) ==
  /\ \/ /\ word = W(0, TRUE, FALSE)
        /\ word' = W(0, FALSE, FALSE)
        /\ Goto(t, "wake_readers", "wake_all")
     \/ /\ word # W(0, TRUE, FALSE)
        /\ Goto(t, "wake_readers", "idle")
        /\ UNCHANGED word
  /\ UNCHANGED current /\ LocalsUnchanged

wake_all(t) ==
  /\ futex_wake_all(t, "wake_all", "idle", "r_asleep", "r_spin")
  /\ UNCHANGED <<word, current>> /\ LocalsUnchanged
-----------------------------------------------------------------------------
Call(t) == try_read(t) \/ read(t) \/ try_write(t) \/ write(t)

ReadStep(t) ==
  \/ spin_read(t) \/ read_lock(t) \/ read_overflow(t) \/ read_mark(t) \/ read_wait(t)

WriteStep(t) ==
  \/ spin_write(t) \/ write_lock(t) \/ write_mark(t) \/ write_seq(t)
  \/ write_check(t) \/ write_wait(t)

WakeStep(t) ==
  \/ wake_start(t) \/ wake_both(t) \/ wake_writer_notify(t) \/ wake_writer(t)
  \/ wake_readers(t) \/ wake_all(t)

Release(t) ==
  \/ read_unlock(t) \/ write_unlock(t) \/ downgrade(t)
  \/ downgrade_clear(t) \/ downgrade_wake(t)

\* The steps that a call once begun, or an owner, goes on taking.
Inside(t) == ReadStep(t) \/ WriteStep(t) \/ WakeStep(t) \/ Release(t)

Next ==
  \E t \in Threads :
    Call(t) \/ Inside(t) \/ read_leave_wait(t) \/ write_leave_wait(t)

Spec == Init /\ [][Next]_vars
-----------------------------------------------------------------------------
ControlPoints ==
  {"idle", "r_spin", "r_loop", "r_wait", "r_asleep", "reading",
   "w_spin", "w_loop", "w_seq", "w_check", "w_wait", "w_asleep", "writing",
   "d_clear", "d_wake", "wake_start", "wake_both", "notify", "notify_both",
   "wake_writer", "wake_writer_both", "wake_readers", "wake_all"}

\* The variables have their types; in particular the counter never carries
\* into the waiting bits and never borrows from them.
TypeOK ==
  /\ word \in Word
  /\ current \subseteq Threads
  /\ pc \in [Threads -> ControlPoints]
  /\ state \in [Threads -> Word]
  /\ has_slept \in [Threads -> BOOLEAN]
  /\ others \in [Threads -> BOOLEAN]

Readers == {t \in Threads : pc[t] \in {"reading", "d_clear", "d_wake"}}

Writers == {t \in Threads : pc[t] = "writing"}

\* A writer excludes every other owner: reads and writes of the protected
\* data never overlap, through downgrades and barging included.
Exclusion ==
  \A t \in Writers : Writers = {t} /\ Readers = {}

\* The counter tells exactly who holds the lock.
CountIsExact ==
  word.count = IF Writers # {} THEN WRITE_LOCKED ELSE Cardinality(Readers)

\* The debug_assert of read_unlock: readers wait on a read-locked lock only
\* if a writer waits too.  Between the two steps of a downgrade the bit may
\* still be on, but then the downgrading thread is the only reader.
ReadersWaitBehindWriter ==
  (Readers # {} /\ word.readers_waiting)
    => word.writers_waiting \/ \E t \in Threads : pc[t] = "d_clear" /\ Readers = {t}

\* "Since we had the exclusive lock, nobody else can unset this bit": the
\* fetch_sub of downgrade finds the readers-waiting bit set.
DowngradeFindsBit ==
  \A t \in Threads : pc[t] = "d_clear" => word.readers_waiting

\* What the code asserts of the readers-waiting bit, in read_unlock and in
\* downgrade, holds however calls interleave.
ReadersBitIsSound == ReadersWaitBehindWriter /\ DowngradeFindsBit

\* A sleeping reader is owed a wake-up by the bit or by a call on its way.
ReaderIsOwed ==
  Sleepers("r_asleep") # {} =>
    word.readers_waiting \/ \E t \in Threads : pc[t] \in {"wake_all", "d_wake"}

\* A writer in the loop of write_contended that is awake.
AwakeWriter(t) == pc[t] \in {"w_spin", "w_loop", "w_seq", "w_check", "w_wait"}

Notifying(t) == pc[t] \in {"notify", "notify_both", "wake_writer", "wake_writer_both"}

\* A sleeping writer is owed a wake-up by the bit, by a wake_writer on its
\* way, or by an awake writer that will set the bit again.
WriterIsOwed ==
  Sleepers("w_asleep") # {} =>
    \/ word.writers_waiting
    \/ \E t \in Threads : Notifying(t) \/ (AwakeWriter(t) /\ others[t])

\* A free lock with waiters is never left alone: while a waiting bit is set
\* on an unlocked word, some thread will go on to wake a waiter or lock it.
FreeLockIsHandedOn ==
  (is_unlocked(word) /\ (word.readers_waiting \/ word.writers_waiting)) =>
    \E t \in Threads :
      \/ pc[t] \in {"wake_start", "wake_both", "wake_readers"}
      \/ Notifying(t) \/ AwakeWriter(t)

Waiting(t) ==
  pc[t] \in {"r_spin", "r_loop", "r_wait", "r_asleep"} \/ AwakeWriter(t) \/ pc[t] = "w_asleep"
=============================================================================
