------------------------- MODULE FutexRwLockProofs -------------------------
(***************************************************************************)
(* Proofs about FutexRwLock for any finite set of threads and any reader   *)
(* limit: the counter is exact and stays in its range, a writer excludes   *)
(* every other owner, the readers-waiting bit behaves as the comments and  *)
(* debug assertions of the code say, no wake-up of a reader or of a writer *)
(* is lost, and a free lock with waiters is always handed on.              *)
(***************************************************************************)
EXTENDS FutexRwLock, FiniteSetTheorems, TLAPS

-----------------------------------------------------------------------------
(***************************************************************************)
(* The state word.                                                         *)
(***************************************************************************)
LEMMA WordOf ==
  ASSUME NEW n \in 0 .. WRITE_LOCKED, NEW r \in BOOLEAN, NEW w \in BOOLEAN
  PROVE  /\ W(n, r, w) \in Word
         /\ W(n, r, w).count = n
         /\ W(n, r, w).readers_waiting = r
         /\ W(n, r, w).writers_waiting = w
BY DEF W, Word

LEMMA WriteLockedIsNat ==
  /\ WRITE_LOCKED \in Nat /\ MAX_READERS \in Nat
  /\ WRITE_LOCKED = MAX_READERS + 1 /\ MAX_READERS >= 1
BY MaxReadersAssumption DEF WRITE_LOCKED

LEMMA WordFields ==
  ASSUME NEW v \in Word
  PROVE  /\ v.count \in 0 .. WRITE_LOCKED
         /\ v.readers_waiting \in BOOLEAN
         /\ v.writers_waiting \in BOOLEAN
BY DEF Word

LEMMA SetCount ==
  ASSUME NEW v \in Word, NEW n \in 0 .. WRITE_LOCKED
  PROVE  /\ [v EXCEPT !.count = n] \in Word
         /\ [v EXCEPT !.count = n].count = n
         /\ [v EXCEPT !.count = n].readers_waiting = v.readers_waiting
         /\ [v EXCEPT !.count = n].writers_waiting = v.writers_waiting
BY DEF Word

LEMMA SetReadersWaiting ==
  ASSUME NEW v \in Word, NEW b \in BOOLEAN
  PROVE  /\ [v EXCEPT !.readers_waiting = b] \in Word
         /\ [v EXCEPT !.readers_waiting = b].count = v.count
         /\ [v EXCEPT !.readers_waiting = b].readers_waiting = b
         /\ [v EXCEPT !.readers_waiting = b].writers_waiting = v.writers_waiting
BY DEF Word

LEMMA SetWritersWaiting ==
  ASSUME NEW v \in Word, NEW b \in BOOLEAN
  PROVE  /\ [v EXCEPT !.writers_waiting = b] \in Word
         /\ [v EXCEPT !.writers_waiting = b].count = v.count
         /\ [v EXCEPT !.writers_waiting = b].readers_waiting = v.readers_waiting
         /\ [v EXCEPT !.writers_waiting = b].writers_waiting = b
BY DEF Word

-----------------------------------------------------------------------------
(***************************************************************************)
(* Types: given that the word keeps its type, so does everything else.     *)
(***************************************************************************)
LEMMA TypeStep ==
  ASSUME TypeOK, word' \in Word, [Next]_vars
  PROVE  TypeOK'
<1>0. W(0, FALSE, FALSE) \in Word
  <2>1. 0 \in 0 .. WRITE_LOCKED
    BY WriteLockedIsNat
  <2> QED
    BY <2>1, WordOf
<1> USE <1>0 DEF TypeOK, ControlPoints
<1>1. ASSUME NEW t \in Threads, try_read(t) PROVE TypeOK'
  BY <1>1 DEF try_read, AddReader, Goto, LocalsUnchanged
<1>2. ASSUME NEW t \in Threads, read(t) PROVE TypeOK'
  BY <1>2 DEF read, try_read, AddReader, Goto, LocalsUnchanged
<1>3. ASSUME NEW t \in Threads, spin_read(t) PROVE TypeOK'
  BY <1>3 DEF spin_read, Load, Goto
<1>4. ASSUME NEW t \in Threads, read_lock(t) PROVE TypeOK'
  <2>1. CASE word = state[t]
    <3>1. UNCHANGED current /\ Return(t, "r_loop", "reading")
      BY <1>4, <2>1 DEF read_lock
    <3> QED
      BY <3>1 DEF Return, Forget, Goto
  <2>2. CASE word # state[t]
    <3>1. UNCHANGED <<current, pc, has_slept, others>> /\ Load(t)
      BY <1>4, <2>2 DEF read_lock
    <3> QED
      BY <3>1 DEF Load
  <2> QED
    BY <2>1, <2>2
<1>5. ASSUME NEW t \in Threads, read_overflow(t) PROVE TypeOK'
  BY <1>5 DEF read_overflow, Return, Forget, Goto
<1>6. ASSUME NEW t \in Threads, read_mark(t) PROVE TypeOK'
  <2>1. /\ UNCHANGED <<current, has_slept, others>>
        /\ pc' = [pc EXCEPT ![t] = "r_wait"] \/ UNCHANGED pc
    BY <1>6 DEF read_mark, Goto
  <2>2. \/ UNCHANGED state
        \/ state' = [state EXCEPT ![t] = word']
        \/ state' = [state EXCEPT ![t] = word]
    BY <1>6 DEF read_mark, Load
  <2>3. state' \in [Threads -> Word]
    BY <2>2
  <2> QED
    BY <2>1, <2>3
<1>7. ASSUME NEW t \in Threads, read_wait(t) PROVE TypeOK'
  BY <1>7 DEF read_wait, futex_wait, Goto
<1>8. ASSUME NEW t \in Threads, read_leave_wait(t) PROVE TypeOK'
  BY <1>8 DEF read_leave_wait, futex_interrupted, futex_spurious, Goto, LocalsUnchanged
<1>9. ASSUME NEW t \in Threads, read_unlock(t) PROVE TypeOK'
  BY <1>9 DEF read_unlock, Goto
<1>10. ASSUME NEW t \in Threads, try_write(t) PROVE TypeOK'
  BY <1>10 DEF try_write, Goto, LocalsUnchanged
<1>11. ASSUME NEW t \in Threads, write(t) PROVE TypeOK'
  BY <1>11 DEF write, Goto, LocalsUnchanged
<1>12. ASSUME NEW t \in Threads, spin_write(t) PROVE TypeOK'
  BY <1>12 DEF spin_write, Load, Goto
<1>13. ASSUME NEW t \in Threads, write_lock(t) PROVE TypeOK'
  <2>1. CASE word = state[t]
    <3>1. UNCHANGED current /\ Return(t, "w_loop", "writing")
      BY <1>13, <2>1 DEF write_lock
    <3> QED
      BY <3>1 DEF Return, Forget, Goto
  <2>2. CASE word # state[t]
    <3>1. UNCHANGED <<current, pc, has_slept, others>> /\ Load(t)
      BY <1>13, <2>2 DEF write_lock
    <3> QED
      BY <3>1 DEF Load
  <2> QED
    BY <2>1, <2>2
<1>14. ASSUME NEW t \in Threads, write_mark(t) PROVE TypeOK'
  BY <1>14 DEF write_mark, Load, Forget, Goto
<1>15. ASSUME NEW t \in Threads, write_seq(t) PROVE TypeOK'
  BY <1>15 DEF write_seq, Goto, LocalsUnchanged
<1>16. ASSUME NEW t \in Threads, write_check(t) PROVE TypeOK'
  BY <1>16 DEF write_check, Load, Goto
<1>17. ASSUME NEW t \in Threads, write_wait(t) PROVE TypeOK'
  BY <1>17 DEF write_wait, futex_wait, Goto, LocalsUnchanged
<1>18. ASSUME NEW t \in Threads, write_leave_wait(t) PROVE TypeOK'
  BY <1>18 DEF write_leave_wait, futex_interrupted, futex_spurious, Goto, LocalsUnchanged
<1>19. ASSUME NEW t \in Threads, write_unlock(t) PROVE TypeOK'
  BY <1>19 DEF write_unlock, Goto
<1>20. ASSUME NEW t \in Threads, downgrade(t) PROVE TypeOK'
  BY <1>20 DEF downgrade, Goto, LocalsUnchanged
<1>21. ASSUME NEW t \in Threads, downgrade_clear(t) PROVE TypeOK'
  BY <1>21 DEF downgrade_clear, Goto, LocalsUnchanged
<1>22. ASSUME NEW t \in Threads, downgrade_wake(t) PROVE TypeOK'
  BY <1>22 DEF downgrade_wake, futex_wake_all, LocalsUnchanged
<1>23. ASSUME NEW t \in Threads, wake_start(t) PROVE TypeOK'
  BY <1>23 DEF wake_start, Load, Forget, Goto
<1>24. ASSUME NEW t \in Threads, wake_both(t) PROVE TypeOK'
  BY <1>24 DEF wake_both, Forget, Goto
<1>25. ASSUME NEW t \in Threads, wake_writer_notify(t) PROVE TypeOK'
  BY <1>25 DEF wake_writer_notify, Goto, LocalsUnchanged
<1>26. ASSUME NEW t \in Threads, wake_writer(t) PROVE TypeOK'
  BY <1>26 DEF wake_writer, futex_wake, Sleepers, LocalsUnchanged
<1>27. ASSUME NEW t \in Threads, wake_readers(t) PROVE TypeOK'
  BY <1>27 DEF wake_readers, Goto, LocalsUnchanged
<1>28. ASSUME NEW t \in Threads, wake_all(t) PROVE TypeOK'
  BY <1>28 DEF wake_all, futex_wake_all, LocalsUnchanged
<1>29. CASE UNCHANGED vars
  BY <1>29 DEF vars
<1> QED
  BY <1>1, <1>2, <1>3, <1>4, <1>5, <1>6, <1>7, <1>8, <1>9, <1>10,
     <1>11, <1>12, <1>13, <1>14, <1>15, <1>16, <1>17, <1>18, <1>19, <1>20,
     <1>21, <1>22, <1>23, <1>24, <1>25, <1>26, <1>27, <1>28, <1>29
     DEF Next, Call, Inside, ReadStep, WriteStep, WakeStep, Release

-----------------------------------------------------------------------------
(***************************************************************************)
(* Who holds the lock.  The counter tells it, and a counter below          *)
(* WRITE_LOCKED means that nobody writes: this is what makes the guards of *)
(* the exchanges sufficient.  The lemmas give the six ways in which a step *)
(* can change the holders; every action is one of them.                    *)
(***************************************************************************)
ReadPoints == {"reading", "d_clear", "d_wake"}

HoldInv ==
  /\ word \in Word
  /\ Writers = {} => word.count = Cardinality(Readers) /\ word.count <= MAX_READERS
  /\ Writers # {} => word.count = WRITE_LOCKED
  /\ Exclusion

LEMMA ReadersFinite == IsFiniteSet(Readers) /\ IsFiniteSet(Readers')
<1>1. Readers \subseteq Threads /\ Readers' \subseteq Threads
  BY DEF Readers
<1> QED
  BY <1>1, ThreadsAssumption, FS_Subset

LEMMA HoldersUnchanged ==
  ASSUME HoldInv, word' \in Word, word'.count = word.count,
         \A u \in Threads : /\ pc'[u] \in ReadPoints <=> pc[u] \in ReadPoints
                            /\ pc'[u] = "writing" <=> pc[u] = "writing"
  PROVE  HoldInv'
<1>1. Readers' = Readers
  BY DEF Readers, ReadPoints
<1>2. Writers' = Writers
  BY DEF Writers
<1> QED
  BY <1>1, <1>2 DEF HoldInv, Exclusion

LEMMA ReaderEnters ==
  ASSUME TypeOK, HoldInv, NEW t \in Threads,
         pc[t] \notin ReadPoints \cup {"writing"}, pc' = [pc EXCEPT ![t] = "reading"],
         word.count < MAX_READERS, word' = [word EXCEPT !.count = @ + 1]
  PROVE  HoldInv'
<1>0. word \in Word /\ word.count \in Nat
  BY WordFields DEF HoldInv
<1>1. Writers = {}
  BY <1>0, WriteLockedIsNat DEF HoldInv
<1>2. Writers' = {}
  BY <1>1 DEF Writers, TypeOK
<1>3. Readers' = Readers \cup {t} /\ t \notin Readers
  BY DEF Readers, ReadPoints, TypeOK
<1>4. Cardinality(Readers') = Cardinality(Readers) + 1
  BY <1>3, ReadersFinite, FS_AddElement
<1>5. word.count + 1 \in 0 .. WRITE_LOCKED
  BY <1>0, WriteLockedIsNat
<1>6. word' \in Word /\ word'.count = word.count + 1
  BY <1>0, <1>5, SetCount
<1> QED
  BY <1>0, <1>1, <1>2, <1>4, <1>6, MaxReadersAssumption DEF HoldInv, Exclusion

LEMMA ReaderLeaves ==
  ASSUME TypeOK, HoldInv, NEW t \in Threads, NEW to,
         pc[t] \in ReadPoints, pc' = [pc EXCEPT ![t] = to],
         to \notin ReadPoints \cup {"writing"},
         word' = [word EXCEPT !.count = @ - 1]
  PROVE  HoldInv'
<1>0. word \in Word /\ word.count \in Nat
  BY WordFields DEF HoldInv
<1>1. Writers = {}
  BY DEF HoldInv, Exclusion, Readers, ReadPoints
<1>2. Writers' = {}
  BY <1>1 DEF Writers, TypeOK
<1>3. Readers' = Readers \ {t} /\ t \in Readers
  BY DEF Readers, ReadPoints, TypeOK
<1>4. Cardinality(Readers') = Cardinality(Readers) - 1
  BY <1>3, ReadersFinite, FS_RemoveElement
<1>5. Cardinality(Readers) \in Nat /\ Cardinality(Readers') \in Nat
  BY ReadersFinite, FS_CardinalityType
<1>6. word.count - 1 \in 0 .. WRITE_LOCKED
  BY <1>0, <1>1, <1>4, <1>5, WriteLockedIsNat DEF HoldInv
<1>7. word' \in Word /\ word'.count = word.count - 1
  BY <1>0, <1>6, SetCount
<1> QED
  BY <1>0, <1>1, <1>2, <1>4, <1>7, MaxReadersAssumption DEF HoldInv, Exclusion

LEMMA WriterEnters ==
  ASSUME TypeOK, HoldInv, NEW t \in Threads,
         pc[t] # "writing", pc' = [pc EXCEPT ![t] = "writing"],
         word.count = 0, word' \in Word, word'.count = WRITE_LOCKED
  PROVE  HoldInv'
<1>1. Writers = {} /\ Cardinality(Readers) = 0
  BY WriteLockedIsNat DEF HoldInv
<1>2. Readers = {}
  BY <1>1, ReadersFinite, FS_EmptySet
<1>3. Writers' = {t}
  BY <1>1 DEF Writers, TypeOK
<1>4. Readers' = {}
  BY <1>2 DEF Readers, TypeOK
<1> QED
  BY <1>3, <1>4 DEF HoldInv, Exclusion

LEMMA WriterLeaves ==
  ASSUME TypeOK, HoldInv, NEW t \in Threads, NEW to,
         pc[t] = "writing", pc' = [pc EXCEPT ![t] = to],
         to \notin ReadPoints \cup {"writing"},
         word' = [word EXCEPT !.count = @ - WRITE_LOCKED]
  PROVE  HoldInv'
<1>1. Writers = {t} /\ Readers = {} /\ word.count = WRITE_LOCKED
  BY DEF HoldInv, Exclusion, Writers
<1>2. Writers' = {}
  BY <1>1 DEF Writers, TypeOK
<1>3. Readers' = {}
  BY <1>1 DEF Readers, ReadPoints, TypeOK
<1>4. word.count - WRITE_LOCKED = 0 /\ 0 \in 0 .. WRITE_LOCKED
  BY <1>1, WriteLockedIsNat
<1>5. word' \in Word /\ word'.count = 0
  BY <1>4, SetCount DEF HoldInv
<1> QED
  BY <1>2, <1>3, <1>5, FS_EmptySet, MaxReadersAssumption DEF HoldInv, Exclusion

LEMMA WriterBecomesReader ==
  ASSUME TypeOK, HoldInv, NEW t \in Threads, NEW to \in ReadPoints,
         pc[t] = "writing", pc' = [pc EXCEPT ![t] = to],
         word' = [word EXCEPT !.count = @ + 1 - WRITE_LOCKED]
  PROVE  HoldInv'
<1>1. Writers = {t} /\ Readers = {} /\ word.count = WRITE_LOCKED
  BY DEF HoldInv, Exclusion, Writers
<1>2. Writers' = {}
  BY <1>1 DEF Writers, TypeOK, ReadPoints
<1>3. Readers' = {t}
  BY <1>1 DEF Readers, ReadPoints, TypeOK
<1>4. word.count + 1 - WRITE_LOCKED = 1 /\ 1 \in 0 .. WRITE_LOCKED
  BY <1>1, WriteLockedIsNat
<1>5. word' \in Word /\ word'.count = 1
  BY <1>4, SetCount DEF HoldInv
<1>6. Cardinality(Readers') = 1
  BY <1>3, FS_Singleton
<1> QED
  BY <1>2, <1>5, <1>6, WriteLockedIsNat DEF HoldInv, Exclusion

LEMMA Bounds == 0 \in 0 .. WRITE_LOCKED /\ WRITE_LOCKED \in 0 .. WRITE_LOCKED
BY WriteLockedIsNat

LEMMA HoldStep ==
  ASSUME TypeOK, HoldInv, [Next]_vars
  PROVE  HoldInv'
<1>0. word \in Word
  BY DEF HoldInv
<1> USE <1>0 DEF TypeOK, ReadPoints
<1>1. ASSUME NEW t \in Threads, try_read(t) PROVE HoldInv'
  <2>1. word.count < MAX_READERS
    BY <1>1 DEF try_read, is_read_lockable
  <2> QED
    BY <1>1, <2>1, ReaderEnters DEF try_read, AddReader, Goto
<1>2. ASSUME NEW t \in Threads, read(t) PROVE HoldInv'
  <2>1. CASE try_read(t)
    BY <1>1, <2>1
  <2>2. CASE UNCHANGED word /\ Goto(t, "idle", "r_spin")
    BY <2>2, HoldersUnchanged DEF Goto
  <2> QED
    BY <1>2, <2>1, <2>2 DEF read
<1>3. ASSUME NEW t \in Threads, spin_read(t) PROVE HoldInv'
  BY <1>3, HoldersUnchanged DEF spin_read, Load, Goto
<1>4. ASSUME NEW t \in Threads, read_lock(t) PROVE HoldInv'
  <2>1. CASE word = state[t] /\ AddReader /\ Return(t, "r_loop", "reading")
    <3>1. word.count < MAX_READERS
      BY <1>4, <2>1 DEF read_lock, may_read, is_read_lockable, is_read_lockable_after_wakeup
    <3> QED
      BY <2>1, <3>1, ReaderEnters DEF AddReader, Return, Goto
  <2>2. CASE UNCHANGED <<pc, word>>
    BY <2>2, HoldersUnchanged
  <2> QED
    BY <1>4, <2>1, <2>2 DEF read_lock
<1>5. ASSUME NEW t \in Threads, read_overflow(t) PROVE HoldInv'
  BY <1>5, HoldersUnchanged DEF read_overflow, Return, Forget, Goto
<1>6. ASSUME NEW t \in Threads, read_mark(t) PROVE HoldInv'
  <2>1. word' \in Word /\ word'.count = word.count
    BY <1>6, SetReadersWaiting DEF read_mark
  <2>2. pc' = pc \/ (pc[t] = "r_loop" /\ pc' = [pc EXCEPT ![t] = "r_wait"])
    BY <1>6 DEF read_mark, Goto
  <2> QED
    BY <2>1, <2>2, HoldersUnchanged
<1>7. ASSUME NEW t \in Threads, read_wait(t) PROVE HoldInv'
  BY <1>7, HoldersUnchanged DEF read_wait, futex_wait, Goto
<1>8. ASSUME NEW t \in Threads, read_leave_wait(t) PROVE HoldInv'
  BY <1>8, HoldersUnchanged DEF read_leave_wait, futex_interrupted, futex_spurious, Goto, LocalsUnchanged
<1>9. ASSUME NEW t \in Threads, read_unlock(t) PROVE HoldInv'
  <2>1. PICK to \in {"wake_start", "idle"} : pc' = [pc EXCEPT ![t] = to]
    BY <1>9 DEF read_unlock, Goto
  <2>2. pc[t] = "reading" /\ word' = [word EXCEPT !.count = @ - 1]
    BY <1>9 DEF read_unlock, Goto
  <2>3. to \notin ReadPoints \cup {"writing"} /\ pc[t] \in ReadPoints
    BY <2>1, <2>2
  <2> HIDE DEF TypeOK, ReadPoints
  <2> QED
    BY <2>1, <2>2, <2>3, ReaderLeaves
<1>10. ASSUME NEW t \in Threads, try_write(t) PROVE HoldInv'
  <2>1. word.count = 0 /\ word' = [word EXCEPT !.count = @ + WRITE_LOCKED]
    BY <1>10 DEF try_write, is_unlocked
  <2>2. word.count + WRITE_LOCKED = WRITE_LOCKED /\ WRITE_LOCKED \in 0 .. WRITE_LOCKED
    BY <2>1, WriteLockedIsNat
  <2>3. word' \in Word /\ word'.count = WRITE_LOCKED
    BY <2>1, <2>2, SetCount
  <2> QED
    BY <1>10, <2>1, <2>3, WriterEnters DEF try_write, Goto
<1>11. ASSUME NEW t \in Threads, write(t) PROVE HoldInv'
  <2>1. CASE /\ word = W(0, FALSE, FALSE)
             /\ word' = W(WRITE_LOCKED, FALSE, FALSE)
             /\ Goto(t, "idle", "writing")
    <3>1. word.count = 0 /\ word' \in Word /\ word'.count = WRITE_LOCKED
      BY <2>1, Bounds, WordOf
    <3> QED
      BY <2>1, <3>1, WriterEnters DEF Goto
  <2>2. CASE UNCHANGED word /\ Goto(t, "idle", "w_spin")
    BY <2>2, HoldersUnchanged DEF Goto
  <2> QED
    BY <1>11, <2>1, <2>2 DEF write
<1>12. ASSUME NEW t \in Threads, spin_write(t) PROVE HoldInv'
  BY <1>12, HoldersUnchanged DEF spin_write, Load, Goto
<1>13. ASSUME NEW t \in Threads, write_lock(t) PROVE HoldInv'
  <2>1. CASE /\ word = state[t]
             /\ word' = W(WRITE_LOCKED, word.readers_waiting, word.writers_waiting \/ others[t])
             /\ Return(t, "w_loop", "writing")
    <3>1. word.count = 0
      BY <1>13, <2>1 DEF write_lock, is_unlocked
    <3>2. word.readers_waiting \in BOOLEAN /\ (word.writers_waiting \/ others[t]) \in BOOLEAN
      BY WordFields
    <3>3. word' \in Word /\ word'.count = WRITE_LOCKED
      BY <2>1, <3>2, Bounds, WordOf
    <3> QED
      BY <2>1, <3>1, <3>3, WriterEnters DEF Return, Goto
  <2>2. CASE UNCHANGED <<pc, word>>
    BY <2>2, HoldersUnchanged
  <2> QED
    BY <1>13, <2>1, <2>2 DEF write_lock
<1>14. ASSUME NEW t \in Threads, write_mark(t) PROVE HoldInv'
  <2>1. word' \in Word /\ word'.count = word.count
    BY <1>14, SetWritersWaiting DEF write_mark
  <2>2. pc' = pc \/ (pc[t] = "w_loop" /\ pc' = [pc EXCEPT ![t] = "w_seq"])
    BY <1>14 DEF write_mark, Goto
  <2> QED
    BY <2>1, <2>2, HoldersUnchanged
<1>15. ASSUME NEW t \in Threads, write_seq(t) PROVE HoldInv'
  BY <1>15, HoldersUnchanged DEF write_seq, Goto, LocalsUnchanged
<1>16. ASSUME NEW t \in Threads, write_check(t) PROVE HoldInv'
  BY <1>16, HoldersUnchanged DEF write_check, Load, Goto
<1>17. ASSUME NEW t \in Threads, write_wait(t) PROVE HoldInv'
  BY <1>17, HoldersUnchanged DEF write_wait, futex_wait, Goto, LocalsUnchanged
<1>18. ASSUME NEW t \in Threads, write_leave_wait(t) PROVE HoldInv'
  BY <1>18, HoldersUnchanged DEF write_leave_wait, futex_interrupted, futex_spurious, Goto, LocalsUnchanged
<1>19. ASSUME NEW t \in Threads, write_unlock(t) PROVE HoldInv'
  <2>1. PICK to \in {"wake_start", "idle"} : pc' = [pc EXCEPT ![t] = to]
    BY <1>19 DEF write_unlock, Goto
  <2> QED
    BY <1>19, <2>1, WriterLeaves DEF write_unlock, Goto
<1>20. ASSUME NEW t \in Threads, downgrade(t) PROVE HoldInv'
  <2>1. PICK to \in {"d_clear", "reading"} : pc' = [pc EXCEPT ![t] = to]
    BY <1>20 DEF downgrade, Goto
  <2> QED
    BY <1>20, <2>1, WriterBecomesReader DEF downgrade, Goto
<1>21. ASSUME NEW t \in Threads, downgrade_clear(t) PROVE HoldInv'
  <2>1. word' \in Word /\ word'.count = word.count
    BY <1>21, SetReadersWaiting DEF downgrade_clear
  <2> QED
    BY <1>21, <2>1, HoldersUnchanged DEF downgrade_clear, Goto
<1>22. ASSUME NEW t \in Threads, downgrade_wake(t) PROVE HoldInv'
  BY <1>22, HoldersUnchanged DEF downgrade_wake, futex_wake_all, LocalsUnchanged
<1>23. ASSUME NEW t \in Threads, wake_start(t) PROVE HoldInv'
  <2>1. word' \in Word /\ word'.count = word.count
    <3>1. \/ word = W(0, FALSE, TRUE) /\ word' = W(0, FALSE, FALSE)
          \/ word' = word
      BY <1>23 DEF wake_start
    <3>2. W(0, FALSE, FALSE) \in Word /\ W(0, FALSE, FALSE).count = 0
      BY Bounds, WordOf
    <3>3. W(0, FALSE, TRUE).count = 0
      BY Bounds, WordOf
    <3> QED
      BY <3>1, <3>2, <3>3
  <2>2. pc' \in {[pc EXCEPT ![t] = "notify"], [pc EXCEPT ![t] = "wake_both"]}
    BY <1>23 DEF wake_start, Goto
  <2> QED
    BY <1>23, <2>1, <2>2, HoldersUnchanged DEF wake_start
<1>24. ASSUME NEW t \in Threads, wake_both(t) PROVE HoldInv'
  <2>1. word' \in Word /\ word'.count = word.count
    <3>1. \/ word = W(0, TRUE, TRUE) /\ word' = W(0, TRUE, FALSE)
          \/ word' = word
      BY <1>24 DEF wake_both
    <3>2. W(0, TRUE, FALSE) \in Word /\ W(0, TRUE, FALSE).count = 0
      BY Bounds, WordOf
    <3>3. W(0, TRUE, TRUE).count = 0
      BY Bounds, WordOf
    <3> QED
      BY <3>1, <3>2, <3>3
  <2>2. PICK to \in {"notify_both", "idle", "wake_readers"} : pc' = [pc EXCEPT ![t] = to]
    BY <1>24 DEF wake_both, Goto
  <2> QED
    BY <1>24, <2>1, <2>2, HoldersUnchanged DEF wake_both
<1>25. ASSUME NEW t \in Threads, wake_writer_notify(t) PROVE HoldInv'
  BY <1>25, HoldersUnchanged DEF wake_writer_notify, Goto, LocalsUnchanged
<1>26. ASSUME NEW t \in Threads, wake_writer(t) PROVE HoldInv'
  BY <1>26, HoldersUnchanged DEF wake_writer, futex_wake, Sleepers, LocalsUnchanged
<1>27. ASSUME NEW t \in Threads, wake_readers(t) PROVE HoldInv'
  <2>1. word' \in Word /\ word'.count = word.count
    <3>1. \/ word = W(0, TRUE, FALSE) /\ word' = W(0, FALSE, FALSE)
          \/ word' = word
      BY <1>27 DEF wake_readers
    <3>2. W(0, FALSE, FALSE) \in Word /\ W(0, FALSE, FALSE).count = 0
      BY Bounds, WordOf
    <3>3. W(0, TRUE, FALSE).count = 0
      BY Bounds, WordOf
    <3> QED
      BY <3>1, <3>2, <3>3
  <2>2. pc[t] = "wake_readers" /\ pc' \in {[pc EXCEPT ![t] = "wake_all"], [pc EXCEPT ![t] = "idle"]}
    BY <1>27 DEF wake_readers, Goto
  <2> QED
    BY <2>1, <2>2, HoldersUnchanged
<1>28. ASSUME NEW t \in Threads, wake_all(t) PROVE HoldInv'
  BY <1>28, HoldersUnchanged DEF wake_all, futex_wake_all, LocalsUnchanged
<1>29. CASE UNCHANGED vars
  BY <1>29, HoldersUnchanged DEF vars
<1> QED
  BY <1>1, <1>2, <1>3, <1>4, <1>5, <1>6, <1>7, <1>8, <1>9, <1>10,
     <1>11, <1>12, <1>13, <1>14, <1>15, <1>16, <1>17, <1>18, <1>19, <1>20,
     <1>21, <1>22, <1>23, <1>24, <1>25, <1>26, <1>27, <1>28, <1>29
     DEF Next, Call, Inside, ReadStep, WriteStep, WakeStep, Release

LEMMA HoldInvariant == Spec => [](TypeOK /\ HoldInv)
<1>1. Init => TypeOK /\ HoldInv
  <2> SUFFICES ASSUME Init PROVE TypeOK /\ HoldInv
    OBVIOUS
  <2>1. W(0, FALSE, FALSE) \in Word /\ W(0, FALSE, FALSE).count = 0
    BY Bounds, WordOf
  <2>2. Readers = {} /\ Writers = {}
    BY DEF Init, Readers, Writers
  <2>3. TypeOK
    BY <2>1 DEF Init, TypeOK, ControlPoints
  <2>4. HoldInv
    <3>1. Cardinality(Readers) = 0 /\ word.count = 0 /\ word \in Word
      BY <2>1, <2>2, FS_EmptySet DEF Init
    <3> QED
      BY <2>2, <3>1, WriteLockedIsNat DEF HoldInv, Exclusion
  <2> QED
    BY <2>3, <2>4
<1>2. TypeOK /\ HoldInv /\ [Next]_vars => (TypeOK /\ HoldInv)'
  BY HoldStep, TypeStep DEF HoldInv
<1> QED
  BY <1>1, <1>2, PTL DEF Spec

\* The counter stays in its range, so that it never carries into the waiting
\* bits, and it tells exactly who holds the lock; a writer excludes all others.
THEOREM RwLockExcludes == Spec => [](TypeOK /\ Exclusion /\ CountIsExact)
<1>1. HoldInv => Exclusion /\ CountIsExact
  BY DEF HoldInv, CountIsExact
<1> QED
  BY <1>1, HoldInvariant, PTL

\* The counter alone: what the waking and unlocking code reads from the word
\* is exactly who holds the lock, from the first reader to the limit.
THEOREM RwLockCountIsExact == Spec => []CountIsExact
BY RwLockExcludes, PTL

-----------------------------------------------------------------------------
(***************************************************************************)
(* The readers-waiting bit.  While a downgrade has yet to clear it, its    *)
(* thread is the only owner: every new reader is kept out by the bit.      *)
(***************************************************************************)
DowngradeInv ==
  \A t \in Threads : pc[t] = "d_clear" => word.readers_waiting /\ Readers = {t}

LEMMA SetAny ==
  ASSUME NEW v \in Word, NEW n
  PROVE  /\ [v EXCEPT !.count = n].readers_waiting = v.readers_waiting
         /\ [v EXCEPT !.count = n].writers_waiting = v.writers_waiting
BY DEF Word

LEMMA BitsUnchanged ==
  ASSUME DowngradeInv, ReadersWaitBehindWriter,
         \/ word' = word
         \/ /\ word'.readers_waiting = word.readers_waiting
            /\ word.writers_waiting => word'.writers_waiting,
         \A u \in Threads : /\ pc'[u] \in ReadPoints <=> pc[u] \in ReadPoints
                            /\ pc'[u] = "d_clear" <=> pc[u] = "d_clear"
  PROVE  DowngradeInv' /\ ReadersWaitBehindWriter'
<1>1. Readers' = Readers
  BY DEF Readers, ReadPoints
<1>2. /\ word'.readers_waiting = word.readers_waiting
      /\ word.writers_waiting => word'.writers_waiting
  OBVIOUS
<1>3. DowngradeInv'
  BY <1>1, <1>2 DEF DowngradeInv
<1>4. ReadersWaitBehindWriter'
  BY <1>1, <1>2 DEF ReadersWaitBehindWriter
<1> QED
  BY <1>3, <1>4

\* A reader comes in while the bit is off.
LEMMA NoReaderWaits ==
  ASSUME TypeOK, DowngradeInv, ~word.readers_waiting, ~word'.readers_waiting,
         NEW t \in Threads, pc' = [pc EXCEPT ![t] = "reading"]
  PROVE  DowngradeInv' /\ ReadersWaitBehindWriter'
BY DEF TypeOK, DowngradeInv, ReadersWaitBehindWriter

LEMMA NoReadersAfter ==
  ASSUME Readers' = {}
  PROVE  DowngradeInv' /\ ReadersWaitBehindWriter'
BY DEF DowngradeInv, ReadersWaitBehindWriter, Readers

\* Steps on a free lock that let no reader in.
LEMMA NobodyReads ==
  ASSUME TypeOK, HoldInv, word.count = 0, NEW t \in Threads, NEW to,
         to \notin ReadPoints, pc' = [pc EXCEPT ![t] = to]
  PROVE  DowngradeInv' /\ ReadersWaitBehindWriter'
<1>1. Writers = {} /\ Cardinality(Readers) = 0
  BY WriteLockedIsNat DEF HoldInv
<1>2. Readers = {}
  BY <1>1, ReadersFinite, FS_EmptySet
<1>3. Readers' = {}
  BY <1>2 DEF Readers, ReadPoints, TypeOK
<1> QED
  BY <1>3, NoReadersAfter

LEMMA BitStep ==
  ASSUME TypeOK, HoldInv, DowngradeInv, ReadersWaitBehindWriter, [Next]_vars
  PROVE  DowngradeInv' /\ ReadersWaitBehindWriter'
<1>0. word \in Word
  BY DEF HoldInv
<1> USE <1>0 DEF TypeOK, ReadPoints
<1>1. ASSUME NEW t \in Threads, try_read(t) PROVE DowngradeInv' /\ ReadersWaitBehindWriter'
  <2>1. ~word.readers_waiting /\ word' = [word EXCEPT !.count = word.count + 1]
        /\ pc' = [pc EXCEPT ![t] = "reading"]
    BY <1>1 DEF try_read, is_read_lockable, AddReader, Goto
  <2> QED
    BY <2>1, NoReaderWaits, SetAny
<1>2. ASSUME NEW t \in Threads, read(t) PROVE DowngradeInv' /\ ReadersWaitBehindWriter'
  <2>1. CASE try_read(t)
    BY <1>1, <2>1
  <2>2. CASE UNCHANGED word /\ Goto(t, "idle", "r_spin")
    BY <2>2, BitsUnchanged DEF Goto
  <2> QED
    BY <1>2, <2>1, <2>2 DEF read
<1>3. ASSUME NEW t \in Threads, spin_read(t) PROVE DowngradeInv' /\ ReadersWaitBehindWriter'
  BY <1>3, BitsUnchanged DEF spin_read, Load, Goto
<1>4. ASSUME NEW t \in Threads, read_lock(t) PROVE DowngradeInv' /\ ReadersWaitBehindWriter'
  <2>1. CASE word = state[t] /\ AddReader /\ Return(t, "r_loop", "reading")
    <3>1. ~word.readers_waiting
      BY <1>4, <2>1 DEF read_lock, may_read, is_read_lockable, is_read_lockable_after_wakeup
    <3>2. word' = [word EXCEPT !.count = word.count + 1] /\ pc' = [pc EXCEPT ![t] = "reading"]
      BY <2>1 DEF AddReader, Return, Goto
    <3> QED
      BY <3>1, <3>2, NoReaderWaits, SetAny
  <2>2. CASE UNCHANGED <<pc, word>>
    BY <2>2, BitsUnchanged
  <2> QED
    BY <1>4, <2>1, <2>2 DEF read_lock
<1>5. ASSUME NEW t \in Threads, read_overflow(t) PROVE DowngradeInv' /\ ReadersWaitBehindWriter'
  BY <1>5, BitsUnchanged DEF read_overflow, Return, Forget, Goto
<1>6. ASSUME NEW t \in Threads, read_mark(t) PROVE DowngradeInv' /\ ReadersWaitBehindWriter'
  <2>1. CASE word' = word
    BY <1>6, <2>1, BitsUnchanged DEF read_mark, Goto
  <2>2. CASE word' # word
    <3>1. /\ word = state[t] /\ ~word.readers_waiting
          /\ word' = [word EXCEPT !.readers_waiting = TRUE]
          /\ pc[t] = "r_loop" /\ pc' = [pc EXCEPT ![t] = "r_wait"]
          /\ ~is_read_lockable(word) /\ word.count # MAX_READERS
      BY <1>6, <2>2 DEF read_mark, may_read, has_reached_max_readers, Goto
    <3>2. \A u \in Threads : pc[u] # "d_clear"
      BY <3>1 DEF DowngradeInv
    <3>3. word'.readers_waiting /\ word'.writers_waiting = word.writers_waiting
      BY <3>1, SetReadersWaiting
    <3>4. Readers' = Readers
      BY <3>1 DEF Readers
    <3>5. ASSUME Readers # {} PROVE word.writers_waiting
      <4>1. Writers = {}
        BY <3>5 DEF HoldInv, Exclusion
      <4>2. word.count < MAX_READERS
        BY <3>1, <4>1, WordFields, WriteLockedIsNat DEF HoldInv
      <4> QED
        BY <3>1, <4>2 DEF is_read_lockable
    <3>6. DowngradeInv'
      BY <3>1, <3>2 DEF DowngradeInv
    <3>7. ReadersWaitBehindWriter'
      BY <3>3, <3>4, <3>5 DEF ReadersWaitBehindWriter
    <3> QED
      BY <3>6, <3>7
  <2> QED
    BY <2>1, <2>2
<1>7. ASSUME NEW t \in Threads, read_wait(t) PROVE DowngradeInv' /\ ReadersWaitBehindWriter'
  BY <1>7, BitsUnchanged DEF read_wait, futex_wait, Goto
<1>8. ASSUME NEW t \in Threads, read_leave_wait(t) PROVE DowngradeInv' /\ ReadersWaitBehindWriter'
  BY <1>8, BitsUnchanged DEF read_leave_wait, futex_interrupted, futex_spurious, Goto, LocalsUnchanged
<1>9. ASSUME NEW t \in Threads, read_unlock(t) PROVE DowngradeInv' /\ ReadersWaitBehindWriter'
  <2>1. PICK to \in {"wake_start", "idle"} : pc' = [pc EXCEPT ![t] = to]
    BY <1>9 DEF read_unlock, Goto
  <2>2. pc[t] = "reading" /\ word' = [word EXCEPT !.count = word.count - 1]
    BY <1>9 DEF read_unlock, Goto
  <2>3. t \in Readers /\ Readers' = Readers \ {t}
    BY <2>1, <2>2 DEF Readers
  <2>4. \A u \in Threads : pc[u] # "d_clear"
    BY <2>2, <2>3 DEF DowngradeInv
  <2>5. /\ word'.readers_waiting = word.readers_waiting
        /\ word'.writers_waiting = word.writers_waiting
    BY <2>2, SetAny
  <2>6. DowngradeInv'
    BY <2>1, <2>4 DEF DowngradeInv
  <2>7. ReadersWaitBehindWriter'
    BY <2>3, <2>4, <2>5 DEF ReadersWaitBehindWriter
  <2> QED
    BY <2>6, <2>7
<1>10. ASSUME NEW t \in Threads, try_write(t) PROVE DowngradeInv' /\ ReadersWaitBehindWriter'
  <2>1. word.count = 0 /\ pc' = [pc EXCEPT ![t] = "writing"]
    BY <1>10 DEF try_write, is_unlocked, Goto
  <2> QED
    BY <2>1, NobodyReads
<1>11. ASSUME NEW t \in Threads, write(t) PROVE DowngradeInv' /\ ReadersWaitBehindWriter'
  <2>1. CASE word = W(0, FALSE, FALSE) /\ Goto(t, "idle", "writing")
    BY <2>1, Bounds, WordOf, NobodyReads DEF Goto
  <2>2. CASE UNCHANGED word /\ Goto(t, "idle", "w_spin")
    BY <2>2, BitsUnchanged DEF Goto
  <2> QED
    BY <1>11, <2>1, <2>2 DEF write
<1>12. ASSUME NEW t \in Threads, spin_write(t) PROVE DowngradeInv' /\ ReadersWaitBehindWriter'
  BY <1>12, BitsUnchanged DEF spin_write, Load, Goto
<1>13. ASSUME NEW t \in Threads, write_lock(t) PROVE DowngradeInv' /\ ReadersWaitBehindWriter'
  <2>1. CASE word = state[t] /\ Return(t, "w_loop", "writing")
    <3>1. word.count = 0 /\ pc' = [pc EXCEPT ![t] = "writing"]
      BY <1>13, <2>1 DEF write_lock, is_unlocked, Return, Goto
    <3> QED
      BY <3>1, NobodyReads
  <2>2. CASE UNCHANGED <<pc, word>>
    BY <2>2, BitsUnchanged
  <2> QED
    BY <1>13, <2>1, <2>2 DEF write_lock
<1>14. ASSUME NEW t \in Threads, write_mark(t) PROVE DowngradeInv' /\ ReadersWaitBehindWriter'
  <2>1. /\ word'.readers_waiting = word.readers_waiting
        /\ word.writers_waiting => word'.writers_waiting
    BY <1>14, SetWritersWaiting DEF write_mark
  <2>2. pc' = pc \/ (pc[t] = "w_loop" /\ pc' = [pc EXCEPT ![t] = "w_seq"])
    BY <1>14 DEF write_mark, Goto
  <2> QED
    BY <2>1, <2>2, BitsUnchanged
<1>15. ASSUME NEW t \in Threads, write_seq(t) PROVE DowngradeInv' /\ ReadersWaitBehindWriter'
  BY <1>15, BitsUnchanged DEF write_seq, Goto, LocalsUnchanged
<1>16. ASSUME NEW t \in Threads, write_check(t) PROVE DowngradeInv' /\ ReadersWaitBehindWriter'
  BY <1>16, BitsUnchanged DEF write_check, Load, Goto
<1>17. ASSUME NEW t \in Threads, write_wait(t) PROVE DowngradeInv' /\ ReadersWaitBehindWriter'
  BY <1>17, BitsUnchanged DEF write_wait, futex_wait, Goto, LocalsUnchanged
<1>18. ASSUME NEW t \in Threads, write_leave_wait(t) PROVE DowngradeInv' /\ ReadersWaitBehindWriter'
  BY <1>18, BitsUnchanged DEF write_leave_wait, futex_interrupted, futex_spurious, Goto, LocalsUnchanged
<1>19. ASSUME NEW t \in Threads, write_unlock(t) PROVE DowngradeInv' /\ ReadersWaitBehindWriter'
  <2>1. PICK to \in {"wake_start", "idle"} : pc' = [pc EXCEPT ![t] = to]
    BY <1>19 DEF write_unlock, Goto
  <2>2. Readers = {}
    BY <1>19 DEF write_unlock, Goto, HoldInv, Exclusion, Writers
  <2>3. Readers' = {}
    BY <2>1, <2>2 DEF Readers
  <2> QED
    BY <2>3, NoReadersAfter
<1>20. ASSUME NEW t \in Threads, downgrade(t) PROVE DowngradeInv' /\ ReadersWaitBehindWriter'
  <2>1. PICK to \in {"d_clear", "reading"} : pc' = [pc EXCEPT ![t] = to]
    BY <1>20 DEF downgrade, Goto
  <2>2. /\ pc[t] = "writing"
        /\ word' = [word EXCEPT !.count = word.count + 1 - WRITE_LOCKED]
        /\ to = "reading" => ~word.readers_waiting
        /\ to = "d_clear" => word.readers_waiting
    BY <1>20, <2>1 DEF downgrade, Goto
  <2>3. word'.readers_waiting = word.readers_waiting
    BY <2>2, SetAny
  <2>4. Readers = {}
    BY <2>2 DEF HoldInv, Exclusion, Writers
  <2>5. Readers' = {t}
    BY <2>1, <2>4 DEF Readers
  <2>6. \A u \in Threads \ {t} : pc'[u] # "d_clear"
    BY <2>1, <2>4 DEF Readers
  <2>7. DowngradeInv'
    BY <2>1, <2>2, <2>3, <2>5, <2>6 DEF DowngradeInv
  <2>8. ReadersWaitBehindWriter'
    BY <2>1, <2>2, <2>3, <2>5 DEF ReadersWaitBehindWriter
  <2> QED
    BY <2>7, <2>8
<1>21. ASSUME NEW t \in Threads, downgrade_clear(t) PROVE DowngradeInv' /\ ReadersWaitBehindWriter'
  <2>1. ~word'.readers_waiting
    BY <1>21, SetReadersWaiting DEF downgrade_clear
  <2>2. pc[t] = "d_clear" /\ pc' = [pc EXCEPT ![t] = "d_wake"]
    BY <1>21 DEF downgrade_clear, Goto
  <2>3. \A u \in Threads : pc'[u] # "d_clear"
    BY <2>2 DEF DowngradeInv, Readers
  <2> QED
    BY <2>1, <2>3 DEF DowngradeInv, ReadersWaitBehindWriter
<1>22. ASSUME NEW t \in Threads, downgrade_wake(t) PROVE DowngradeInv' /\ ReadersWaitBehindWriter'
  BY <1>22, BitsUnchanged DEF downgrade_wake, futex_wake_all, LocalsUnchanged
<1>23. ASSUME NEW t \in Threads, wake_start(t) PROVE DowngradeInv' /\ ReadersWaitBehindWriter'
  <2>1. PICK to \in {"notify", "wake_both"} : pc' = [pc EXCEPT ![t] = to]
    BY <1>23 DEF wake_start, Goto
  <2>2. pc[t] = "wake_start" /\ (word' = word \/ word = W(0, FALSE, TRUE))
    BY <1>23 DEF wake_start, Goto
  <2>3. CASE word' = word
    BY <2>1, <2>2, <2>3, BitsUnchanged
  <2>4. CASE word = W(0, FALSE, TRUE)
    <3>1. word.count = 0
      BY <2>4, Bounds, WordOf
    <3> QED
      BY <2>1, <2>2, <3>1, NobodyReads
  <2> QED
    BY <2>2, <2>3, <2>4
<1>24. ASSUME NEW t \in Threads, wake_both(t) PROVE DowngradeInv' /\ ReadersWaitBehindWriter'
  <2>1. PICK to \in {"notify_both", "idle", "wake_readers"} : pc' = [pc EXCEPT ![t] = to]
    BY <1>24 DEF wake_both, Goto
  <2>2. pc[t] = "wake_both" /\ (word' = word \/ word = W(0, TRUE, TRUE))
    BY <1>24 DEF wake_both, Goto
  <2>3. CASE word' = word
    BY <2>1, <2>2, <2>3, BitsUnchanged
  <2>4. CASE word = W(0, TRUE, TRUE)
    <3>1. word.count = 0
      BY <2>4, Bounds, WordOf
    <3> QED
      BY <2>1, <2>2, <3>1, NobodyReads
  <2> QED
    BY <2>2, <2>3, <2>4
<1>25. ASSUME NEW t \in Threads, wake_writer_notify(t) PROVE DowngradeInv' /\ ReadersWaitBehindWriter'
  BY <1>25, BitsUnchanged DEF wake_writer_notify, Goto, LocalsUnchanged
<1>26. ASSUME NEW t \in Threads, wake_writer(t) PROVE DowngradeInv' /\ ReadersWaitBehindWriter'
  BY <1>26, BitsUnchanged DEF wake_writer, futex_wake, Sleepers, LocalsUnchanged
<1>27. ASSUME NEW t \in Threads, wake_readers(t) PROVE DowngradeInv' /\ ReadersWaitBehindWriter'
  <2>1. PICK to \in {"wake_all", "idle"} : pc' = [pc EXCEPT ![t] = to]
    BY <1>27 DEF wake_readers, Goto
  <2>2. pc[t] = "wake_readers" /\ (word' = word \/ word = W(0, TRUE, FALSE))
    BY <1>27 DEF wake_readers, Goto
  <2>3. CASE word' = word
    BY <2>1, <2>2, <2>3, BitsUnchanged
  <2>4. CASE word = W(0, TRUE, FALSE)
    <3>1. word.count = 0
      BY <2>4, Bounds, WordOf
    <3> QED
      BY <2>1, <2>2, <3>1, NobodyReads
  <2> QED
    BY <2>2, <2>3, <2>4
<1>28. ASSUME NEW t \in Threads, wake_all(t) PROVE DowngradeInv' /\ ReadersWaitBehindWriter'
  BY <1>28, BitsUnchanged DEF wake_all, futex_wake_all, LocalsUnchanged
<1>29. CASE UNCHANGED vars
  BY <1>29, BitsUnchanged DEF vars
<1> QED
  BY <1>1, <1>2, <1>3, <1>4, <1>5, <1>6, <1>7, <1>8, <1>9, <1>10,
     <1>11, <1>12, <1>13, <1>14, <1>15, <1>16, <1>17, <1>18, <1>19, <1>20,
     <1>21, <1>22, <1>23, <1>24, <1>25, <1>26, <1>27, <1>28, <1>29
     DEF Next, Call, Inside, ReadStep, WriteStep, WakeStep, Release

\* The debug assertion of read_unlock, and the comment of downgrade that
\* nobody else can unset the bit it is about to clear.
THEOREM RwLockReadersBit == Spec => []ReadersBitIsSound
<1>1. Init => DowngradeInv /\ ReadersWaitBehindWriter
  BY DEF Init, DowngradeInv, ReadersWaitBehindWriter, Readers
<1>2. TypeOK /\ HoldInv /\ DowngradeInv /\ ReadersWaitBehindWriter /\ [Next]_vars
        => (DowngradeInv /\ ReadersWaitBehindWriter)'
  BY BitStep
<1>3. DowngradeInv /\ ReadersWaitBehindWriter => ReadersBitIsSound
  BY DEF DowngradeInv, DowngradeFindsBit, ReadersBitIsSound
<1> QED
  BY <1>1, <1>2, <1>3, HoldInvariant, PTL DEF Spec

-----------------------------------------------------------------------------
(***************************************************************************)
(* No wake-up of a reader is lost.  A reader waits for a value with the    *)
(* bit on, so the bit was on when it fell asleep; whoever turns the bit    *)
(* off goes on to wake all readers.                                        *)
(***************************************************************************)
ReaderMarked ==
  \A t \in Threads : pc[t] \in {"r_wait", "r_asleep"} => state[t].readers_waiting

LEMMA MarkedStep ==
  ASSUME TypeOK, ReaderMarked, [Next]_vars
  PROVE  ReaderMarked'
<1> USE DEF TypeOK, ReaderMarked
<1>1. ASSUME NEW t \in Threads, try_read(t) PROVE ReaderMarked'
  BY <1>1 DEF try_read, AddReader, Goto, LocalsUnchanged
<1>2. ASSUME NEW t \in Threads, read(t) PROVE ReaderMarked'
  BY <1>2 DEF read, try_read, AddReader, Goto, LocalsUnchanged
<1>3. ASSUME NEW t \in Threads, spin_read(t) PROVE ReaderMarked'
  BY <1>3 DEF spin_read, Load, Goto
<1>4. ASSUME NEW t \in Threads, read_lock(t) PROVE ReaderMarked'
  BY <1>4 DEF read_lock, AddReader, Return, Forget, Load, Goto
<1>5. ASSUME NEW t \in Threads, read_overflow(t) PROVE ReaderMarked'
  BY <1>5 DEF read_overflow, Return, Forget, Goto
<1>6. ASSUME NEW t \in Threads, read_mark(t) PROVE ReaderMarked'
  <2>1. CASE pc' = pc /\ state' = [state EXCEPT ![t] = word]
    BY <1>6, <2>1 DEF read_mark
  <2>2. CASE state[t].readers_waiting /\ UNCHANGED state /\ pc' = [pc EXCEPT ![t] = "r_wait"]
    BY <2>2
  <2>3. CASE /\ state' = [state EXCEPT ![t] = [word EXCEPT !.readers_waiting = TRUE]]
             /\ pc' = [pc EXCEPT ![t] = "r_wait"]
    BY <2>3, SetReadersWaiting
  <2> QED
    BY <1>6, <2>1, <2>2, <2>3 DEF read_mark, Load, Goto
<1>7. ASSUME NEW t \in Threads, read_wait(t) PROVE ReaderMarked'
  BY <1>7 DEF read_wait, futex_wait, Goto
<1>8. ASSUME NEW t \in Threads, read_leave_wait(t) PROVE ReaderMarked'
  BY <1>8 DEF read_leave_wait, futex_interrupted, futex_spurious, Goto, LocalsUnchanged
<1>9. ASSUME NEW t \in Threads, read_unlock(t) PROVE ReaderMarked'
  BY <1>9 DEF read_unlock, Goto
<1>10. ASSUME NEW t \in Threads, try_write(t) PROVE ReaderMarked'
  BY <1>10 DEF try_write, Goto, LocalsUnchanged
<1>11. ASSUME NEW t \in Threads, write(t) PROVE ReaderMarked'
  BY <1>11 DEF write, Goto, LocalsUnchanged
<1>12. ASSUME NEW t \in Threads, spin_write(t) PROVE ReaderMarked'
  BY <1>12 DEF spin_write, Load, Goto
<1>13. ASSUME NEW t \in Threads, write_lock(t) PROVE ReaderMarked'
  BY <1>13 DEF write_lock, Return, Forget, Load, Goto
<1>14. ASSUME NEW t \in Threads, write_mark(t) PROVE ReaderMarked'
  BY <1>14 DEF write_mark, Load, Forget, Goto
<1>15. ASSUME NEW t \in Threads, write_seq(t) PROVE ReaderMarked'
  BY <1>15 DEF write_seq, Goto, LocalsUnchanged
<1>16. ASSUME NEW t \in Threads, write_check(t) PROVE ReaderMarked'
  BY <1>16 DEF write_check, Load, Goto
<1>17. ASSUME NEW t \in Threads, write_wait(t) PROVE ReaderMarked'
  BY <1>17 DEF write_wait, futex_wait, Goto, LocalsUnchanged
<1>18. ASSUME NEW t \in Threads, write_leave_wait(t) PROVE ReaderMarked'
  BY <1>18 DEF write_leave_wait, futex_interrupted, futex_spurious, Goto, LocalsUnchanged
<1>19. ASSUME NEW t \in Threads, write_unlock(t) PROVE ReaderMarked'
  BY <1>19 DEF write_unlock, Goto
<1>20. ASSUME NEW t \in Threads, downgrade(t) PROVE ReaderMarked'
  BY <1>20 DEF downgrade, Goto, LocalsUnchanged
<1>21. ASSUME NEW t \in Threads, downgrade_clear(t) PROVE ReaderMarked'
  BY <1>21 DEF downgrade_clear, Goto, LocalsUnchanged
<1>22. ASSUME NEW t \in Threads, downgrade_wake(t) PROVE ReaderMarked'
  BY <1>22 DEF downgrade_wake, futex_wake_all, LocalsUnchanged
<1>23. ASSUME NEW t \in Threads, wake_start(t) PROVE ReaderMarked'
  BY <1>23 DEF wake_start, Load, Forget, Goto
<1>24. ASSUME NEW t \in Threads, wake_both(t) PROVE ReaderMarked'
  BY <1>24 DEF wake_both, Forget, Goto
<1>25. ASSUME NEW t \in Threads, wake_writer_notify(t) PROVE ReaderMarked'
  BY <1>25 DEF wake_writer_notify, Goto, LocalsUnchanged
<1>26. ASSUME NEW t \in Threads, wake_writer(t) PROVE ReaderMarked'
  BY <1>26 DEF wake_writer, futex_wake, Sleepers, LocalsUnchanged
<1>27. ASSUME NEW t \in Threads, wake_readers(t) PROVE ReaderMarked'
  BY <1>27 DEF wake_readers, Goto, LocalsUnchanged
<1>28. ASSUME NEW t \in Threads, wake_all(t) PROVE ReaderMarked'
  BY <1>28 DEF wake_all, futex_wake_all, LocalsUnchanged
<1>29. CASE UNCHANGED vars
  BY <1>29 DEF vars
<1> QED
  BY <1>1, <1>2, <1>3, <1>4, <1>5, <1>6, <1>7, <1>8, <1>9, <1>10,
     <1>11, <1>12, <1>13, <1>14, <1>15, <1>16, <1>17, <1>18, <1>19, <1>20,
     <1>21, <1>22, <1>23, <1>24, <1>25, <1>26, <1>27, <1>28, <1>29
     DEF Next, Call, Inside, ReadStep, WriteStep, WakeStep, Release

LEMMA OwedUnchanged ==
  ASSUME ReaderIsOwed, word.readers_waiting => word'.readers_waiting,
         \A u \in Threads : /\ pc'[u] = "r_asleep" => pc[u] = "r_asleep"
                            /\ pc[u] \in {"wake_all", "d_wake"} => pc'[u] \in {"wake_all", "d_wake"}
  PROVE  ReaderIsOwed'
BY DEF ReaderIsOwed, Sleepers

LEMMA OwedStep ==
  ASSUME TypeOK, HoldInv, ReaderMarked, ReaderIsOwed, [Next]_vars
  PROVE  ReaderIsOwed'
<1>0. word \in Word
  BY DEF HoldInv
<1> USE <1>0 DEF TypeOK, Sleepers
<1>1. ASSUME NEW t \in Threads, try_read(t) PROVE ReaderIsOwed'
  <2>1. word'.readers_waiting = word.readers_waiting
    BY <1>1, SetAny DEF try_read, AddReader
  <2> QED
    BY <1>1, <2>1, OwedUnchanged DEF try_read, AddReader, Goto, LocalsUnchanged
<1>2. ASSUME NEW t \in Threads, read(t) PROVE ReaderIsOwed'
  <2>1. CASE try_read(t)
    BY <1>1, <2>1
  <2>2. CASE UNCHANGED word /\ Goto(t, "idle", "r_spin")
    BY <2>2, OwedUnchanged DEF Goto
  <2> QED
    BY <1>2, <2>1, <2>2 DEF read
<1>3. ASSUME NEW t \in Threads, spin_read(t) PROVE ReaderIsOwed'
  BY <1>3, OwedUnchanged DEF spin_read, Load, Goto
<1>4. ASSUME NEW t \in Threads, read_lock(t) PROVE ReaderIsOwed'
  <2>1. word'.readers_waiting = word.readers_waiting
    BY <1>4, SetAny DEF read_lock, AddReader
  <2>2. pc' = pc \/ (pc[t] = "r_loop" /\ pc' = [pc EXCEPT ![t] = "reading"])
    BY <1>4 DEF read_lock, Return, Goto
  <2> QED
    BY <2>1, <2>2, OwedUnchanged
<1>5. ASSUME NEW t \in Threads, read_overflow(t) PROVE ReaderIsOwed'
  BY <1>5, OwedUnchanged DEF read_overflow, Return, Forget, Goto
<1>6. ASSUME NEW t \in Threads, read_mark(t) PROVE ReaderIsOwed'
  <2>1. word.readers_waiting => word'.readers_waiting
    BY <1>6, SetReadersWaiting DEF read_mark
  <2>2. pc' = pc \/ (pc[t] = "r_loop" /\ pc' = [pc EXCEPT ![t] = "r_wait"])
    BY <1>6 DEF read_mark, Goto
  <2> QED
    BY <2>1, <2>2, OwedUnchanged
<1>7. ASSUME NEW t \in Threads, read_wait(t) PROVE ReaderIsOwed'
  <2>1. CASE word = state[t]
    BY <1>7, <2>1 DEF read_wait, ReaderIsOwed, ReaderMarked, futex_wait, Goto
  <2>2. CASE word # state[t]
    BY <1>7, <2>2, OwedUnchanged DEF read_wait, futex_wait, Goto
  <2> QED
    BY <2>1, <2>2
<1>8. ASSUME NEW t \in Threads, read_leave_wait(t) PROVE ReaderIsOwed'
  BY <1>8, OwedUnchanged DEF read_leave_wait, futex_interrupted, futex_spurious, Goto, LocalsUnchanged
<1>9. ASSUME NEW t \in Threads, read_unlock(t) PROVE ReaderIsOwed'
  <2>1. word'.readers_waiting = word.readers_waiting
    BY <1>9, SetAny DEF read_unlock
  <2>2. PICK to \in {"wake_start", "idle"} : pc[t] = "reading" /\ pc' = [pc EXCEPT ![t] = to]
    BY <1>9 DEF read_unlock, Goto
  <2> QED
    BY <2>1, <2>2, OwedUnchanged
<1>10. ASSUME NEW t \in Threads, try_write(t) PROVE ReaderIsOwed'
  <2>1. word'.readers_waiting = word.readers_waiting
    BY <1>10, SetAny DEF try_write, Goto
  <2> QED
    BY <1>10, <2>1, OwedUnchanged DEF try_write, Goto, LocalsUnchanged
<1>11. ASSUME NEW t \in Threads, write(t) PROVE ReaderIsOwed'
  <2>1. word.readers_waiting => word'.readers_waiting
    BY <1>11, Bounds, WordOf DEF write
  <2>2. PICK to \in {"writing", "w_spin"} : pc[t] = "idle" /\ pc' = [pc EXCEPT ![t] = to]
    BY <1>11 DEF write, Goto
  <2> QED
    BY <2>1, <2>2, OwedUnchanged
<1>12. ASSUME NEW t \in Threads, spin_write(t) PROVE ReaderIsOwed'
  BY <1>12, OwedUnchanged DEF spin_write, Load, Goto
<1>13. ASSUME NEW t \in Threads, write_lock(t) PROVE ReaderIsOwed'
  <2>1. word'.readers_waiting = word.readers_waiting
    <3>1. CASE word' = W(WRITE_LOCKED, word.readers_waiting, word.writers_waiting \/ others[t])
      BY <3>1 DEF W
    <3>2. CASE word' = word
      BY <3>2
    <3> QED
      BY <1>13, <3>1, <3>2 DEF write_lock
  <2>2. pc' = pc \/ (pc[t] = "w_loop" /\ pc' = [pc EXCEPT ![t] = "writing"])
    BY <1>13 DEF write_lock, Return, Goto
  <2> QED
    BY <2>1, <2>2, OwedUnchanged
<1>14. ASSUME NEW t \in Threads, write_mark(t) PROVE ReaderIsOwed'
  <2>1. word'.readers_waiting = word.readers_waiting
    BY <1>14, SetWritersWaiting DEF write_mark
  <2>2. pc' = pc \/ (pc[t] = "w_loop" /\ pc' = [pc EXCEPT ![t] = "w_seq"])
    BY <1>14 DEF write_mark, Goto
  <2> QED
    BY <2>1, <2>2, OwedUnchanged
<1>15. ASSUME NEW t \in Threads, write_seq(t) PROVE ReaderIsOwed'
  BY <1>15, OwedUnchanged DEF write_seq, Goto, LocalsUnchanged
<1>16. ASSUME NEW t \in Threads, write_check(t) PROVE ReaderIsOwed'
  BY <1>16, OwedUnchanged DEF write_check, Load, Goto
<1>17. ASSUME NEW t \in Threads, write_wait(t) PROVE ReaderIsOwed'
  BY <1>17, OwedUnchanged DEF write_wait, futex_wait, Goto, LocalsUnchanged
<1>18. ASSUME NEW t \in Threads, write_leave_wait(t) PROVE ReaderIsOwed'
  BY <1>18, OwedUnchanged DEF write_leave_wait, futex_interrupted, futex_spurious, Goto, LocalsUnchanged
<1>19. ASSUME NEW t \in Threads, write_unlock(t) PROVE ReaderIsOwed'
  <2>1. word'.readers_waiting = word.readers_waiting
    BY <1>19, SetAny DEF write_unlock
  <2>2. PICK to \in {"wake_start", "idle"} : pc[t] = "writing" /\ pc' = [pc EXCEPT ![t] = to]
    BY <1>19 DEF write_unlock, Goto
  <2> QED
    BY <2>1, <2>2, OwedUnchanged
<1>20. ASSUME NEW t \in Threads, downgrade(t) PROVE ReaderIsOwed'
  <2>1. word'.readers_waiting = word.readers_waiting
    BY <1>20, SetAny DEF downgrade
  <2>2. PICK to \in {"d_clear", "reading"} : pc[t] = "writing" /\ pc' = [pc EXCEPT ![t] = to]
    BY <1>20 DEF downgrade, Goto
  <2> QED
    BY <2>1, <2>2, OwedUnchanged
<1>21. ASSUME NEW t \in Threads, downgrade_clear(t) PROVE ReaderIsOwed'
  <2>1. pc' = [pc EXCEPT ![t] = "d_wake"]
    BY <1>21 DEF downgrade_clear, Goto
  <2> QED
    BY <2>1 DEF ReaderIsOwed
<1>22. ASSUME NEW t \in Threads, downgrade_wake(t) PROVE ReaderIsOwed'
  <2>1. \A u \in Threads : pc'[u] # "r_asleep"
    BY <1>22 DEF downgrade_wake, futex_wake_all
  <2> QED
    BY <2>1 DEF ReaderIsOwed
<1>23. ASSUME NEW t \in Threads, wake_start(t) PROVE ReaderIsOwed'
  <2>1. word.readers_waiting => word'.readers_waiting
    <3>1. word' = word \/ word = W(0, FALSE, TRUE)
      BY <1>23 DEF wake_start
    <3> QED
      BY <3>1 DEF W
  <2>2. PICK to \in {"notify", "wake_both"} : pc[t] = "wake_start" /\ pc' = [pc EXCEPT ![t] = to]
    BY <1>23 DEF wake_start, Goto
  <2> QED
    BY <2>1, <2>2, OwedUnchanged
<1>24. ASSUME NEW t \in Threads, wake_both(t) PROVE ReaderIsOwed'
  <2>1. word.readers_waiting => word'.readers_waiting
    <3>1. word' = word \/ word' = W(0, TRUE, FALSE)
      BY <1>24 DEF wake_both
    <3> QED
      BY <3>1 DEF W
  <2>2. PICK to \in {"notify_both", "idle", "wake_readers"} :
          pc[t] = "wake_both" /\ pc' = [pc EXCEPT ![t] = to]
    BY <1>24 DEF wake_both, Goto
  <2> QED
    BY <2>1, <2>2, OwedUnchanged
<1>25. ASSUME NEW t \in Threads, wake_writer_notify(t) PROVE ReaderIsOwed'
  BY <1>25, OwedUnchanged DEF wake_writer_notify, Goto, LocalsUnchanged
<1>26. ASSUME NEW t \in Threads, wake_writer(t) PROVE ReaderIsOwed'
  BY <1>26, OwedUnchanged DEF wake_writer, futex_wake, Sleepers, LocalsUnchanged
<1>27. ASSUME NEW t \in Threads, wake_readers(t) PROVE ReaderIsOwed'
  <2>1. CASE pc' = [pc EXCEPT ![t] = "wake_all"]
    BY <2>1 DEF ReaderIsOwed
  <2>2. CASE pc' = [pc EXCEPT ![t] = "idle"] /\ word' = word
    BY <1>27, <2>2, OwedUnchanged DEF wake_readers, Goto
  <2> QED
    BY <1>27, <2>1, <2>2 DEF wake_readers, Goto
<1>28. ASSUME NEW t \in Threads, wake_all(t) PROVE ReaderIsOwed'
  <2>1. \A u \in Threads : pc'[u] # "r_asleep"
    BY <1>28 DEF wake_all, futex_wake_all
  <2> QED
    BY <2>1 DEF ReaderIsOwed
<1>29. CASE UNCHANGED vars
  BY <1>29, OwedUnchanged DEF vars
<1> QED
  BY <1>1, <1>2, <1>3, <1>4, <1>5, <1>6, <1>7, <1>8, <1>9, <1>10,
     <1>11, <1>12, <1>13, <1>14, <1>15, <1>16, <1>17, <1>18, <1>19, <1>20,
     <1>21, <1>22, <1>23, <1>24, <1>25, <1>26, <1>27, <1>28, <1>29
     DEF Next, Call, Inside, ReadStep, WriteStep, WakeStep, Release

\* A reader asleep in read_contended is always owed a wake-up.
THEOREM RwLockReaderIsOwed == Spec => []ReaderIsOwed
<1>1. Init => ReaderMarked /\ ReaderIsOwed
  BY DEF Init, ReaderMarked, ReaderIsOwed, Sleepers
<1>2. TypeOK /\ HoldInv /\ ReaderMarked /\ ReaderIsOwed /\ [Next]_vars
        => (ReaderMarked /\ ReaderIsOwed)'
  BY MarkedStep, OwedStep
<1> QED
  BY <1>1, <1>2, HoldInvariant, PTL DEF Spec

-----------------------------------------------------------------------------
(***************************************************************************)
(* No wake-up of a writer is lost.  Writers wait on a futex of their own,  *)
(* and the writers-waiting bit is cleared for one of them although others  *)
(* may sleep: a writer that has waited once remembers that.  A writer      *)
(* whose copy of writer_notify is current has seen the bit on after it     *)
(* took that copy, and whoever clears the bit notifies.                    *)
(***************************************************************************)
WaitedPoints == {"w_seq", "w_check", "w_wait", "w_asleep"}

WriterPoints ==
  {"w_spin", "w_loop", "w_seq", "w_check", "w_wait", "w_asleep",
   "notify", "notify_both", "wake_writer", "wake_writer_both"}

OthersInv == \A t \in Threads : pc[t] \in WaitedPoints => others[t]

SeqInv ==
  \A t \in Threads :
    pc[t] \in {"w_wait", "w_asleep"} /\ t \in current =>
      word.writers_waiting \/ \E u \in Threads : pc[u] \in {"notify", "notify_both"}

WriterInv == OthersInv /\ SeqInv /\ WriterIsOwed

\* Steps that leave the bit on and the waiting and notifying threads alone; a
\* writer may come.
LEMMA WriterUnchanged ==
  ASSUME WriterInv, current' = current, word.writers_waiting => word'.writers_waiting,
         \A u \in Threads :
           /\ pc[u] \in WriterPoints => pc'[u] = pc[u] /\ others'[u] = others[u]
           /\ pc'[u] \in WriterPoints => pc'[u] = pc[u] \/ pc'[u] = "w_spin"
  PROVE  WriterInv'
<1> USE DEF WriterInv, WriterPoints
<1>1. OthersInv'
  BY DEF OthersInv, WaitedPoints
<1>2. SeqInv'
  BY DEF SeqInv
<1>3. WriterIsOwed'
  BY DEF WriterIsOwed, Sleepers, Notifying, AwakeWriter
<1> QED
  BY <1>1, <1>2, <1>3

LEMMA WriterStep ==
  ASSUME TypeOK, HoldInv, WriterInv, [Next]_vars
  PROVE  WriterInv'
<1>0. word \in Word
  BY DEF HoldInv
<1> USE <1>0 DEF TypeOK, WriterInv, WriterPoints, Sleepers, Notifying, AwakeWriter
<1>1. ASSUME NEW t \in Threads, try_read(t) PROVE WriterInv'
  <2>1. word'.writers_waiting = word.writers_waiting
    BY <1>1, SetAny DEF try_read, AddReader
  <2> QED
    BY <1>1, <2>1, WriterUnchanged DEF try_read, Goto, LocalsUnchanged
<1>2. ASSUME NEW t \in Threads, read(t) PROVE WriterInv'
  <2>1. CASE try_read(t)
    BY <1>1, <2>1
  <2>2. CASE UNCHANGED <<word, current>> /\ LocalsUnchanged /\ Goto(t, "idle", "r_spin")
    BY <2>2, WriterUnchanged DEF Goto, LocalsUnchanged
  <2> QED
    BY <1>2, <2>1, <2>2 DEF read
<1>3. ASSUME NEW t \in Threads, spin_read(t) PROVE WriterInv'
  BY <1>3, WriterUnchanged DEF spin_read, Goto
<1>4. ASSUME NEW t \in Threads, read_lock(t) PROVE WriterInv'
  <2>1. word'.writers_waiting = word.writers_waiting
    <3>1. word' = word \/ word' = [word EXCEPT !.count = word.count + 1]
      BY ONLY <1>4 DEF read_lock, AddReader
    <3> QED
      BY ONLY <1>0, <3>1, SetAny
  <2>2. /\ pc' = pc \/ (pc[t] = "r_loop" /\ pc' = [pc EXCEPT ![t] = "reading"])
        /\ pc[t] = "r_loop" /\ UNCHANGED current
        /\ others' = others \/ others' = [others EXCEPT ![t] = FALSE]
    BY <1>4 DEF read_lock, Return, Goto
  <2> QED
    BY <2>1, <2>2, WriterUnchanged
<1>5. ASSUME NEW t \in Threads, read_overflow(t) PROVE WriterInv'
  BY <1>5, WriterUnchanged DEF read_overflow, Return, Goto
<1>6. ASSUME NEW t \in Threads, read_mark(t) PROVE WriterInv'
  <2>1. word.writers_waiting => word'.writers_waiting
    BY <1>6, SetReadersWaiting DEF read_mark
  <2>2. /\ pc' = pc \/ (pc[t] = "r_loop" /\ pc' = [pc EXCEPT ![t] = "r_wait"])
        /\ UNCHANGED <<current, others>>
    BY <1>6 DEF read_mark, Goto
  <2> QED
    BY <2>1, <2>2, WriterUnchanged
<1>7. ASSUME NEW t \in Threads, read_wait(t) PROVE WriterInv'
  BY <1>7, WriterUnchanged DEF read_wait, futex_wait, Goto
<1>8. ASSUME NEW t \in Threads, read_leave_wait(t) PROVE WriterInv'
  BY <1>8, WriterUnchanged DEF read_leave_wait, futex_interrupted, futex_spurious, Goto, LocalsUnchanged
<1>9. ASSUME NEW t \in Threads, read_unlock(t) PROVE WriterInv'
  <2>1. word'.writers_waiting = word.writers_waiting
    BY <1>9, SetAny DEF read_unlock
  <2>2. PICK to \in {"wake_start", "idle"} : pc[t] = "reading" /\ pc' = [pc EXCEPT ![t] = to]
    BY <1>9 DEF read_unlock, Goto
  <2>3. UNCHANGED <<current, others>>
    BY <1>9 DEF read_unlock, LocalsUnchanged
  <2> QED
    BY <2>1, <2>2, <2>3, WriterUnchanged
<1>10. ASSUME NEW t \in Threads, try_write(t) PROVE WriterInv'
  <2>1. word'.writers_waiting = word.writers_waiting
    BY <1>10, SetAny DEF try_write
  <2>2. PICK to \in {"writing"} : pc[t] = "idle" /\ pc' = [pc EXCEPT ![t] = to]
    BY <1>10 DEF try_write, Goto
  <2>3. UNCHANGED <<current, others>>
    BY <1>10 DEF try_write, LocalsUnchanged
  <2> QED
    BY <2>1, <2>2, <2>3, WriterUnchanged
<1>11. ASSUME NEW t \in Threads, write(t) PROVE WriterInv'
  <2>1. word.writers_waiting => word'.writers_waiting
    BY <1>11, Bounds, WordOf DEF write
  <2>2. PICK to \in {"writing", "w_spin"} : pc[t] = "idle" /\ pc' = [pc EXCEPT ![t] = to]
    BY <1>11 DEF write, Goto
  <2>3. UNCHANGED <<current, others>>
    BY <1>11 DEF write, LocalsUnchanged
  <2> QED
    BY <2>1, <2>2, <2>3, WriterUnchanged
<1>12. ASSUME NEW t \in Threads, spin_write(t) PROVE WriterInv'
  <2>1. /\ pc[t] = "w_spin" /\ pc' = [pc EXCEPT ![t] = "w_loop"]
        /\ UNCHANGED <<word, current, others>>
    BY <1>12 DEF spin_write, Goto
  <2> QED
    BY <2>1 DEF OthersInv, SeqInv, WriterIsOwed, WaitedPoints
<1>13. ASSUME NEW t \in Threads, write_lock(t) PROVE WriterInv'
  <2>1. CASE pc' = pc /\ UNCHANGED <<word, current, others>>
    BY <2>1, WriterUnchanged
  <2>2. CASE /\ word' = W(WRITE_LOCKED, word.readers_waiting, word.writers_waiting \/ others[t])
             /\ pc[t] = "w_loop" /\ pc' = [pc EXCEPT ![t] = "writing"]
             /\ others' = [others EXCEPT ![t] = FALSE] /\ UNCHANGED current
    <3>1. word'.writers_waiting = (word.writers_waiting \/ others[t])
      BY <2>2 DEF W
    <3> QED
      BY <2>2, <3>1 DEF OthersInv, SeqInv, WriterIsOwed, WaitedPoints
  <2> QED
    BY <1>13, <2>1, <2>2 DEF write_lock, Return, Goto
<1>14. ASSUME NEW t \in Threads, write_mark(t) PROVE WriterInv'
  <2>1. word.writers_waiting => word'.writers_waiting
    BY <1>14, SetWritersWaiting DEF write_mark
  <2>2. CASE pc' = pc /\ UNCHANGED <<current, others>>
    BY <2>1, <2>2, WriterUnchanged
  <2>3. CASE /\ pc[t] = "w_loop" /\ pc' = [pc EXCEPT ![t] = "w_seq"]
             /\ others' = [others EXCEPT ![t] = TRUE] /\ UNCHANGED current
    BY <2>1, <2>3 DEF OthersInv, SeqInv, WriterIsOwed, WaitedPoints
  <2> QED
    BY <1>14, <2>2, <2>3 DEF write_mark, Goto
<1>15. ASSUME NEW t \in Threads, write_seq(t) PROVE WriterInv'
  <2>1. /\ pc[t] = "w_seq" /\ pc' = [pc EXCEPT ![t] = "w_check"]
        /\ UNCHANGED <<word, others>> /\ current' = current \cup {t}
    BY <1>15 DEF write_seq, Goto, LocalsUnchanged
  <2> QED
    BY <2>1 DEF OthersInv, SeqInv, WriterIsOwed, WaitedPoints
<1>16. ASSUME NEW t \in Threads, write_check(t) PROVE WriterInv'
  <2>1. pc[t] = "w_check" /\ UNCHANGED <<word, others>>
    BY <1>16 DEF write_check, Goto
  <2>2. CASE pc' = [pc EXCEPT ![t] = "w_loop"] /\ current' = current \ {t}
    BY <2>1, <2>2 DEF OthersInv, SeqInv, WriterIsOwed, WaitedPoints
  <2>3. CASE pc' = [pc EXCEPT ![t] = "w_wait"] /\ UNCHANGED current /\ word.writers_waiting
    BY <2>1, <2>3 DEF OthersInv, SeqInv, WriterIsOwed, WaitedPoints
  <2> QED
    BY <1>16, <2>2, <2>3 DEF write_check, Goto
<1>17. ASSUME NEW t \in Threads, write_wait(t) PROVE WriterInv'
  <2>1. pc[t] = "w_wait" /\ UNCHANGED <<word, current, others>>
    BY <1>17 DEF write_wait, futex_wait, Goto, LocalsUnchanged
  <2>2. CASE pc' = [pc EXCEPT ![t] = "w_spin"]
    BY <2>1, <2>2 DEF OthersInv, SeqInv, WriterIsOwed, WaitedPoints
  <2>3. CASE pc' = [pc EXCEPT ![t] = "w_asleep"] /\ t \in current
    BY <2>1, <2>3 DEF OthersInv, SeqInv, WriterIsOwed, WaitedPoints
  <2> QED
    BY <1>17, <2>2, <2>3 DEF write_wait, futex_wait, Goto
<1>18. ASSUME NEW t \in Threads, write_leave_wait(t) PROVE WriterInv'
  <2>1. pc[t] = "w_asleep" /\ UNCHANGED <<word, current, others>>
    BY <1>18 DEF write_leave_wait, futex_interrupted, futex_spurious, Goto, LocalsUnchanged
  <2>2. PICK to \in {"w_wait", "w_spin"} : pc' = [pc EXCEPT ![t] = to]
    BY <1>18 DEF write_leave_wait, futex_interrupted, futex_spurious, Goto
  <2> QED
    BY <2>1, <2>2 DEF OthersInv, SeqInv, WriterIsOwed, WaitedPoints
<1>19. ASSUME NEW t \in Threads, write_unlock(t) PROVE WriterInv'
  <2>1. word'.writers_waiting = word.writers_waiting
    BY <1>19, SetAny DEF write_unlock
  <2>2. PICK to \in {"wake_start", "idle"} : pc[t] = "writing" /\ pc' = [pc EXCEPT ![t] = to]
    BY <1>19 DEF write_unlock, Goto
  <2>3. UNCHANGED <<current, others>>
    BY <1>19 DEF write_unlock, LocalsUnchanged
  <2> QED
    BY <2>1, <2>2, <2>3, WriterUnchanged
<1>20. ASSUME NEW t \in Threads, downgrade(t) PROVE WriterInv'
  <2>1. word'.writers_waiting = word.writers_waiting
    BY <1>20, SetAny DEF downgrade
  <2>2. PICK to \in {"d_clear", "reading"} : pc[t] = "writing" /\ pc' = [pc EXCEPT ![t] = to]
    BY <1>20 DEF downgrade, Goto
  <2>3. UNCHANGED <<current, others>>
    BY <1>20 DEF downgrade, LocalsUnchanged
  <2> QED
    BY <2>1, <2>2, <2>3, WriterUnchanged
<1>21. ASSUME NEW t \in Threads, downgrade_clear(t) PROVE WriterInv'
  <2>1. word'.writers_waiting = word.writers_waiting
    BY <1>21, SetReadersWaiting DEF downgrade_clear
  <2> QED
    BY <1>21, <2>1, WriterUnchanged DEF downgrade_clear, Goto, LocalsUnchanged
<1>22. ASSUME NEW t \in Threads, downgrade_wake(t) PROVE WriterInv'
  BY <1>22, WriterUnchanged DEF downgrade_wake, futex_wake_all, LocalsUnchanged
<1>23. ASSUME NEW t \in Threads, wake_start(t) PROVE WriterInv'
  <2>1. pc[t] = "wake_start" /\ UNCHANGED <<current, others>>
    BY <1>23 DEF wake_start
  <2>2. CASE pc' = [pc EXCEPT ![t] = "notify"]
    BY <2>1, <2>2 DEF OthersInv, SeqInv, WriterIsOwed, WaitedPoints
  <2>3. CASE pc' = [pc EXCEPT ![t] = "wake_both"] /\ word' = word
    BY <2>1, <2>3, WriterUnchanged
  <2> QED
    BY <1>23, <2>2, <2>3 DEF wake_start, Goto
<1>24. ASSUME NEW t \in Threads, wake_both(t) PROVE WriterInv'
  <2>1. pc[t] = "wake_both" /\ UNCHANGED <<current, others>>
    BY <1>24 DEF wake_both
  <2>2. CASE pc' = [pc EXCEPT ![t] = "notify_both"]
    BY <2>1, <2>2 DEF OthersInv, SeqInv, WriterIsOwed, WaitedPoints
  <2>3. ASSUME NEW to \in {"idle", "wake_readers"}, pc' = [pc EXCEPT ![t] = to], word' = word
        PROVE  WriterInv'
    BY <2>1, <2>3, WriterUnchanged
  <2> QED
    BY <1>24, <2>2, <2>3 DEF wake_both, Goto
<1>25. ASSUME NEW t \in Threads, wake_writer_notify(t) PROVE WriterInv'
  <2>1. current' = {} /\ UNCHANGED <<word, others>>
    BY <1>25 DEF wake_writer_notify, LocalsUnchanged
  <2>2. PICK to \in {"wake_writer", "wake_writer_both"} : pc' = [pc EXCEPT ![t] = to]
    BY <1>25 DEF wake_writer_notify, Goto
  <2>3. pc[t] \in {"notify", "notify_both"}
    BY <1>25 DEF wake_writer_notify, Goto
  <2> QED
    BY <2>1, <2>2, <2>3 DEF OthersInv, SeqInv, WriterIsOwed, WaitedPoints
<1>26. ASSUME NEW t \in Threads, wake_writer(t) PROVE WriterInv'
  <2>1. /\ pc[t] \in {"wake_writer", "wake_writer_both"}
        /\ UNCHANGED <<word, current, others>>
    BY <1>26 DEF wake_writer, futex_wake, LocalsUnchanged
  <2>2. PICK to \in {"idle", "wake_readers"} :
          \/ Sleepers("w_asleep") = {} /\ pc' = [pc EXCEPT ![t] = to]
          \/ \E u \in Sleepers("w_asleep") : pc' = [pc EXCEPT ![t] = to, ![u] = "w_spin"]
    BY <1>26 DEF wake_writer, futex_wake
  <2>3. CASE Sleepers("w_asleep") = {} /\ pc' = [pc EXCEPT ![t] = to]
    <3>1. Sleepers("w_asleep")' = {}
      BY <2>3 DEF Sleepers
    <3>2. OthersInv' /\ SeqInv'
      BY <2>1, <2>3 DEF OthersInv, SeqInv, WaitedPoints
    <3> QED
      BY <3>1, <3>2 DEF WriterIsOwed
  <2>4. ASSUME NEW u \in Sleepers("w_asleep"), pc' = [pc EXCEPT ![t] = to, ![u] = "w_spin"]
        PROVE  WriterInv'
    <3>1. u \in Threads /\ pc[u] = "w_asleep" /\ others[u] /\ u # t
      BY <2>1, <2>4 DEF OthersInv, WaitedPoints, Sleepers
    <3>2. OthersInv' /\ SeqInv'
      BY <2>1, <2>4, <3>1 DEF OthersInv, SeqInv, WaitedPoints
    <3>3. AwakeWriter(u)' /\ others'[u]
      BY <2>1, <2>4, <3>1 DEF AwakeWriter
    <3> QED
      BY <3>1, <3>2, <3>3 DEF WriterIsOwed
  <2> QED
    BY <2>2, <2>3, <2>4
<1>27. ASSUME NEW t \in Threads, wake_readers(t) PROVE WriterInv'
  <2>1. word.writers_waiting => word'.writers_waiting
    <3>1. word' = word \/ word = W(0, TRUE, FALSE)
      BY <1>27 DEF wake_readers
    <3> QED
      BY <3>1 DEF W
  <2>2. PICK to \in {"wake_all", "idle"} : pc[t] = "wake_readers" /\ pc' = [pc EXCEPT ![t] = to]
    BY <1>27 DEF wake_readers, Goto
  <2>3. UNCHANGED <<current, others>>
    BY <1>27 DEF wake_readers, LocalsUnchanged
  <2> QED
    BY <2>1, <2>2, <2>3, WriterUnchanged
<1>28. ASSUME NEW t \in Threads, wake_all(t) PROVE WriterInv'
  BY <1>28, WriterUnchanged DEF wake_all, futex_wake_all, LocalsUnchanged
<1>29. CASE UNCHANGED vars
  BY <1>29, WriterUnchanged DEF vars
<1> QED
  BY <1>1, <1>2, <1>3, <1>4, <1>5, <1>6, <1>7, <1>8, <1>9, <1>10,
     <1>11, <1>12, <1>13, <1>14, <1>15, <1>16, <1>17, <1>18, <1>19, <1>20,
     <1>21, <1>22, <1>23, <1>24, <1>25, <1>26, <1>27, <1>28, <1>29
     DEF Next, Call, Inside, ReadStep, WriteStep, WakeStep, Release

\* A writer asleep in write_contended is always owed a wake-up, though the
\* bit that says so is cleared for the first of several sleepers.
THEOREM RwLockWriterIsOwed == Spec => []WriterIsOwed
<1>1. Init => WriterInv
  BY DEF Init, WriterInv, OthersInv, SeqInv, WriterIsOwed, WaitedPoints, Sleepers
<1>2. TypeOK /\ HoldInv /\ WriterInv /\ [Next]_vars => WriterInv'
  BY WriterStep
<1>3. WriterInv => WriterIsOwed
  BY DEF WriterInv
<1> QED
  BY <1>1, <1>2, <1>3, HoldInvariant, PTL DEF Spec

-----------------------------------------------------------------------------
(***************************************************************************)
(* A free lock is handed on.  That somebody is inside the waking code is   *)
(* not enough: a waker that finds the word changed gives up.  The one who  *)
(* keeps the promise is the thread that unlocked last, with a copy of the  *)
(* word that it can still act on, or a writer that it has woken.           *)
(***************************************************************************)
Hands(t) ==
  \/ pc[t] = "wake_start" /\ state[t] \in {W(0, FALSE, TRUE), word}
  \/ pc[t] = "wake_both" /\ state[t] = word /\ word.readers_waiting
  \/ pc[t] \in {"notify_both", "wake_writer_both", "wake_readers"} /\ word = W(0, TRUE, FALSE)
  \/ AwakeWriter(t) /\ (pc[t] = "w_wait" => t \notin current)

HandInv ==
  is_unlocked(word) /\ (word.readers_waiting \/ word.writers_waiting) =>
    \E t \in Threads : Hands(t)

HandPoints ==
  {"wake_start", "wake_both", "notify_both", "wake_writer_both", "wake_readers",
   "w_spin", "w_loop", "w_seq", "w_check", "w_wait"}

\* Steps that leave alone all who could hand the lock on; a reader may mark
\* itself on a word on which only writers wait.
LEMMA HandUnchanged ==
  ASSUME HandInv, current' = current,
         \/ word' = word
         \/ word = W(0, FALSE, TRUE) /\ word.writers_waiting /\ is_unlocked(word),
         \A u \in Threads : pc[u] \in HandPoints => pc'[u] = pc[u] /\ state'[u] = state[u]
  PROVE  HandInv'
<1>1. SUFFICES ASSUME is_unlocked(word), word.readers_waiting \/ word.writers_waiting
               PROVE  \E u \in Threads : Hands(u)'
  BY DEF HandInv
<1>2. PICK u \in Threads : Hands(u)
  BY <1>1 DEF HandInv
<1>3. pc'[u] = pc[u] /\ state'[u] = state[u]
  BY <1>2 DEF Hands, HandPoints, AwakeWriter
<1>4. CASE word' = word
  BY <1>2, <1>3, <1>4 DEF Hands, AwakeWriter
<1>5. CASE word = W(0, FALSE, TRUE)
  <2>1. ~word.readers_waiting /\ word # W(0, TRUE, FALSE)
    BY <1>5 DEF W
  <2> QED
    BY <1>2, <1>3, <1>5, <2>1 DEF Hands, AwakeWriter
<1> QED
  BY <1>4, <1>5

LEMMA StillAwake ==
  ASSUME TypeOK, NEW t \in Threads, NEW to \in {"w_spin", "w_loop", "w_seq", "w_check"},
         pc' = [pc EXCEPT ![t] = to]
  PROVE  HandInv'
<1>1. AwakeWriter(t)' /\ pc'[t] # "w_wait"
  BY DEF TypeOK, AwakeWriter
<1> QED
  BY <1>1 DEF HandInv, Hands

LEMMA HandStep ==
  ASSUME TypeOK, HoldInv, ReadersWaitBehindWriter, HandInv, [Next]_vars
  PROVE  HandInv'
<1>0. word \in Word
  BY DEF HoldInv
<1> USE <1>0 DEF TypeOK, HandPoints
<1>1. ASSUME NEW t \in Threads, try_read(t) PROVE HandInv'
  <2>1. word'.count = word.count + 1 /\ word.count # WRITE_LOCKED
    BY <1>1, SetCount, WriteLockedIsNat, WordFields DEF try_read, AddReader, is_read_lockable
  <2> QED
    BY <2>1, <1>0, WordFields DEF HandInv, is_unlocked
<1>2. ASSUME NEW t \in Threads, read(t) PROVE HandInv'
  <2>1. CASE try_read(t)
    BY <1>1, <2>1
  <2>2. CASE UNCHANGED <<word, current>> /\ LocalsUnchanged /\ Goto(t, "idle", "r_spin")
    BY <2>2, HandUnchanged DEF Goto, LocalsUnchanged
  <2> QED
    BY <1>2, <2>1, <2>2 DEF read
<1>3. ASSUME NEW t \in Threads, spin_read(t) PROVE HandInv'
  BY <1>3, HandUnchanged DEF spin_read, Load, Goto
<1>4. ASSUME NEW t \in Threads, read_lock(t) PROVE HandInv'
  <2>1. CASE word # state[t]
    <3>1. UNCHANGED <<pc, word, current>> /\ pc[t] = "r_loop" /\ state' = [state EXCEPT ![t] = word]
      BY <1>4, <2>1 DEF read_lock, Load
    <3> QED
      BY <3>1, HandUnchanged
  <2>2. CASE word = state[t]
    <3>1. word.count < MAX_READERS
      BY <1>4, <2>2 DEF read_lock, may_read, is_read_lockable, is_read_lockable_after_wakeup
    <3>2. word' = [word EXCEPT !.count = word.count + 1]
      BY <1>4, <2>2 DEF read_lock, AddReader
    <3>3. word'.count = word.count + 1
      BY <1>0, <3>1, <3>2, SetCount, WriteLockedIsNat, WordFields
    <3> QED
      BY <1>0, <3>3, WordFields DEF HandInv, is_unlocked
  <2> QED
    BY <2>1, <2>2
<1>5. ASSUME NEW t \in Threads, read_overflow(t) PROVE HandInv'
  BY <1>5, HandUnchanged DEF read_overflow, Return, Forget, Goto
<1>6. ASSUME NEW t \in Threads, read_mark(t) PROVE HandInv'
  <2>1. /\ pc[t] = "r_loop" /\ UNCHANGED current
        /\ pc' = pc \/ pc' = [pc EXCEPT ![t] = "r_wait"]
    BY <1>6 DEF read_mark, Goto
  <2>2. \A u \in Threads : u # t => state'[u] = state[u]
    BY <1>6 DEF read_mark, Load
  <2>3. CASE word' = word
    BY <2>1, <2>2, <2>3, HandUnchanged
  <2>4. CASE word = state[t] /\ word' = [word EXCEPT !.readers_waiting = TRUE]
    <3>1. word'.count = word.count
      BY <2>4, SetReadersWaiting
    <3>2. CASE word.count # 0
      BY <3>1, <3>2 DEF HandInv, is_unlocked
    <3>3. CASE word.count = 0
      <4>1. ~is_read_lockable(word) /\ (~word.readers_waiting \/ word' = word)
        BY <1>6, <2>4 DEF read_mark, may_read
      <4>2. (word.writers_waiting /\ ~word.readers_waiting) \/ word' = word
        BY <3>3, <4>1, WriteLockedIsNat DEF is_read_lockable
      <4>3. word = W(0, FALSE, TRUE) \/ word' = word
        BY <1>0, <3>3, <4>2 DEF Word, W
      <4> QED
        BY <2>1, <2>2, <2>3, <4>2, <4>3, <3>3, HandUnchanged DEF is_unlocked
    <3> QED
      BY <3>2, <3>3
  <2> QED
    BY <1>6, <2>3, <2>4 DEF read_mark
<1>7. ASSUME NEW t \in Threads, read_wait(t) PROVE HandInv'
  BY <1>7, HandUnchanged DEF read_wait, futex_wait, Goto
<1>8. ASSUME NEW t \in Threads, read_leave_wait(t) PROVE HandInv'
  BY <1>8, HandUnchanged DEF read_leave_wait, futex_interrupted, futex_spurious, Goto, LocalsUnchanged
<1>9. ASSUME NEW t \in Threads, read_unlock(t) PROVE HandInv'
  <2>1. /\ word' = [word EXCEPT !.count = word.count - 1] /\ pc[t] = "reading"
        /\ \/ /\ is_unlocked(word') /\ word'.writers_waiting
              /\ pc' = [pc EXCEPT ![t] = "wake_start"] /\ state' = [state EXCEPT ![t] = word']
           \/ ~(is_unlocked(word') /\ word'.writers_waiting)
    BY <1>9 DEF read_unlock, Goto
  <2>2. CASE is_unlocked(word') /\ word'.writers_waiting
    <3>1. pc'[t] = "wake_start" /\ state'[t] = word'
      BY <2>1, <2>2
    <3> QED
      BY <3>1 DEF HandInv, Hands
  <2>3. CASE ~is_unlocked(word')
    BY <2>3 DEF HandInv
  <2>4. CASE ~word'.writers_waiting
    <3>1. ~word.writers_waiting /\ word'.readers_waiting = word.readers_waiting
      BY <2>1, <2>4, SetAny
    <3>2. t \in Readers /\ \A u \in Threads : pc[u] = "d_clear" => Readers # {u}
      BY <2>1 DEF Readers
    <3>3. ~word.readers_waiting
      BY <3>1, <3>2 DEF ReadersWaitBehindWriter
    <3> QED
      BY <2>4, <3>1, <3>3 DEF HandInv
  <2> QED
    BY <2>2, <2>3, <2>4
<1>10. ASSUME NEW t \in Threads, try_write(t) PROVE HandInv'
  <2>1. word.count = 0 /\ word' = [word EXCEPT !.count = word.count + WRITE_LOCKED]
    BY <1>10 DEF try_write, is_unlocked
  <2>2. word'.count = WRITE_LOCKED
    BY <2>1, Bounds, SetCount, WriteLockedIsNat
  <2> QED
    BY <2>2, WriteLockedIsNat DEF HandInv, is_unlocked
<1>11. ASSUME NEW t \in Threads, write(t) PROVE HandInv'
  <2>1. CASE word' = W(WRITE_LOCKED, FALSE, FALSE)
    <3>1. word'.count = WRITE_LOCKED
      BY <2>1, Bounds, WordOf
    <3> QED
      BY <3>1, WriteLockedIsNat DEF HandInv, is_unlocked
  <2>2. CASE UNCHANGED <<word, current>> /\ LocalsUnchanged /\ Goto(t, "idle", "w_spin")
    BY <2>2, HandUnchanged DEF Goto, LocalsUnchanged
  <2> QED
    BY <1>11, <2>1, <2>2 DEF write
<1>12. ASSUME NEW t \in Threads, spin_write(t) PROVE HandInv'
  <2>1. pc' = [pc EXCEPT ![t] = "w_loop"]
    BY <1>12 DEF spin_write, Goto
  <2> QED
    BY <2>1, StillAwake
<1>13. ASSUME NEW t \in Threads, write_lock(t) PROVE HandInv'
  <2>1. CASE word # state[t]
    <3>1. pc[t] = "w_loop" /\ pc' = [pc EXCEPT ![t] = "w_loop"]
      BY <1>13, <2>1 DEF write_lock
    <3> QED
      BY <3>1, StillAwake
  <2>2. CASE word = state[t]
    <3>1. word' = W(WRITE_LOCKED, word.readers_waiting, word.writers_waiting \/ others[t])
      BY <1>13, <2>2 DEF write_lock
    <3>2. word'.count = WRITE_LOCKED
      BY <3>1 DEF W
    <3> QED
      BY <3>2, WriteLockedIsNat DEF HandInv, is_unlocked
  <2> QED
    BY <2>1, <2>2
<1>14. ASSUME NEW t \in Threads, write_mark(t) PROVE HandInv'
  <2>1. PICK to \in {"w_loop", "w_seq"} : pc' = [pc EXCEPT ![t] = to]
    BY <1>14 DEF write_mark, Goto
  <2> QED
    BY <2>1, StillAwake
<1>15. ASSUME NEW t \in Threads, write_seq(t) PROVE HandInv'
  <2>1. pc' = [pc EXCEPT ![t] = "w_check"]
    BY <1>15 DEF write_seq, Goto
  <2> QED
    BY <2>1, StillAwake
<1>16. ASSUME NEW t \in Threads, write_check(t) PROVE HandInv'
  <2>1. CASE ~is_unlocked(word)
    BY <1>16, <2>1 DEF write_check, HandInv
  <2>2. CASE is_unlocked(word)
    <3>1. pc' = [pc EXCEPT ![t] = "w_loop"]
      BY <1>16, <2>2 DEF write_check, Goto
    <3> QED
      BY <3>1, StillAwake
  <2> QED
    BY <2>1, <2>2
<1>17. ASSUME NEW t \in Threads, write_wait(t) PROVE HandInv'
  <2>1. pc[t] = "w_wait" /\ UNCHANGED <<word, current, state>>
    BY <1>17 DEF write_wait, futex_wait, Goto, LocalsUnchanged
  <2>2. CASE t \in current
    <3>1. pc' = [pc EXCEPT ![t] = "w_asleep"]
      BY <1>17, <2>2 DEF write_wait, futex_wait, Goto
    <3>2. \A u \in Threads : Hands(u) => Hands(u)'
      BY <2>1, <2>2, <3>1 DEF Hands, AwakeWriter
    <3> QED
      BY <2>1, <3>2 DEF HandInv
  <2>3. CASE t \notin current
    <3>1. pc' = [pc EXCEPT ![t] = "w_spin"]
      BY <1>17, <2>3 DEF write_wait, futex_wait, Goto
    <3> QED
      BY <3>1, StillAwake
  <2> QED
    BY <2>2, <2>3
<1>18. ASSUME NEW t \in Threads, write_leave_wait(t) PROVE HandInv'
  <2>1. pc[t] = "w_asleep" /\ UNCHANGED <<word, current, state>>
    BY <1>18 DEF write_leave_wait, futex_interrupted, futex_spurious, Goto, LocalsUnchanged
  <2>2. PICK to \in {"w_wait", "w_spin"} : pc' = [pc EXCEPT ![t] = to]
    BY <1>18 DEF write_leave_wait, futex_interrupted, futex_spurious, Goto
  <2> QED
    BY <2>1, <2>2, HandUnchanged
<1>19. ASSUME NEW t \in Threads, write_unlock(t) PROVE HandInv'
  <2>1. \/ pc' = [pc EXCEPT ![t] = "wake_start"] /\ state' = [state EXCEPT ![t] = word']
        \/ ~(word'.writers_waiting \/ word'.readers_waiting)
    BY <1>19 DEF write_unlock, Goto
  <2> QED
    BY <2>1 DEF HandInv, Hands
<1>20. ASSUME NEW t \in Threads, downgrade(t) PROVE HandInv'
  <2>1. word.count = WRITE_LOCKED
    BY <1>20 DEF downgrade, Goto, HoldInv, Writers
  <2>2. word' = [word EXCEPT !.count = word.count + 1 - WRITE_LOCKED]
    BY <1>20 DEF downgrade
  <2>3. word'.count = 1
    BY <2>1, <2>2, SetCount, WriteLockedIsNat
  <2> QED
    BY <2>3 DEF HandInv, is_unlocked
<1>21. ASSUME NEW t \in Threads, downgrade_clear(t) PROVE HandInv'
  <2>1. pc[t] = "d_clear" /\ word' = [word EXCEPT !.readers_waiting = FALSE]
    BY <1>21 DEF downgrade_clear, Goto
  <2>2. t \in Readers
    BY <2>1 DEF Readers
  <2>3. word'.count = word.count
    BY <2>1, SetReadersWaiting
  <2>4. word.count # 0
    BY <2>2, ReadersFinite, FS_EmptySet, WriteLockedIsNat DEF HoldInv
  <2> QED
    BY <2>3, <2>4 DEF HandInv, is_unlocked
<1>22. ASSUME NEW t \in Threads, downgrade_wake(t) PROVE HandInv'
  BY <1>22, HandUnchanged DEF downgrade_wake, futex_wake_all, LocalsUnchanged
<1>23. ASSUME NEW t \in Threads, wake_start(t) PROVE HandInv'
  <2>1. pc[t] = "wake_start"
    BY <1>23 DEF wake_start
  <2>2. CASE word' = W(0, FALSE, FALSE)
    BY <2>2 DEF HandInv, W
  <2>3. CASE /\ state[t] = W(0, FALSE, TRUE) /\ word # state[t] /\ word' = word
             /\ state' = [state EXCEPT ![t] = word] /\ pc' = [pc EXCEPT ![t] = "wake_both"]
    <3>1. SUFFICES ASSUME is_unlocked(word), word.readers_waiting \/ word.writers_waiting
                   PROVE  Hands(t)'
      BY <2>3 DEF HandInv
    <3>2. word.readers_waiting
      BY <1>0, <2>3, <3>1 DEF Word, W, is_unlocked
    <3> QED
      BY <2>3, <3>2 DEF Hands
  <2>4. CASE /\ state[t] # W(0, FALSE, TRUE)
             /\ UNCHANGED <<word, state, current>> /\ pc' = [pc EXCEPT ![t] = "wake_both"]
    <3>1. SUFFICES ASSUME is_unlocked(word), word.readers_waiting \/ word.writers_waiting
                   PROVE  \E u \in Threads : Hands(u)'
      BY <2>4 DEF HandInv
    <3>2. PICK u \in Threads : Hands(u)
      BY <3>1 DEF HandInv
    <3>3. CASE u # t
      BY <2>4, <3>2, <3>3 DEF Hands, AwakeWriter
    <3>4. CASE u = t
      <4>1. state[t] = word
        BY <2>1, <2>4, <3>2, <3>4 DEF Hands, AwakeWriter
      <4>2. word.readers_waiting
        BY <1>0, <2>4, <3>1, <4>1 DEF Word, W, is_unlocked
      <4> QED
        BY <2>4, <4>1, <4>2 DEF Hands
    <3> QED
      BY <3>3, <3>4
  <2> QED
    BY <1>23, <2>2, <2>3, <2>4 DEF wake_start, Load, Goto
<1>24. ASSUME NEW t \in Threads, wake_both(t) PROVE HandInv'
  <2>1. pc[t] = "wake_both" /\ UNCHANGED current /\ \A u \in Threads : u # t => state'[u] = state[u]
    BY <1>24 DEF wake_both, Forget
  <2>2. CASE word' = W(0, TRUE, FALSE) /\ pc' = [pc EXCEPT ![t] = "notify_both"]
    BY <2>2 DEF HandInv, Hands
  <2>3. CASE state[t] = word /\ word' = word /\ state[t] # W(0, TRUE, TRUE)
    <3>1. SUFFICES ASSUME is_unlocked(word), word.readers_waiting \/ word.writers_waiting
                   PROVE  \E u \in Threads : Hands(u)'
      BY <2>3 DEF HandInv
    <3>2. PICK u \in Threads : Hands(u)
      BY <3>1 DEF HandInv
    <3>3. CASE u # t
      <4>1. pc'[u] = pc[u]
        BY <1>24, <3>3 DEF wake_both, Goto
      <4> QED
        BY <2>1, <2>3, <3>2, <3>3, <4>1 DEF Hands, AwakeWriter
    <3>4. CASE u = t
      <4>1. word.readers_waiting
        BY <2>1, <3>2, <3>4 DEF Hands, AwakeWriter
      <4>2. word = W(0, TRUE, FALSE)
        BY <1>0, <2>3, <3>1, <4>1 DEF Word, W, is_unlocked
      <4>3. pc' = [pc EXCEPT ![t] = "wake_readers"]
        BY <1>24, <2>3, <4>2 DEF wake_both, Goto
      <4> QED
        BY <2>3, <4>2, <4>3 DEF Hands
    <3> QED
      BY <3>3, <3>4
  <2>4. CASE state[t] # word /\ word' = word
    <3>1. \A u \in Threads : u # t => pc'[u] = pc[u]
      BY <1>24 DEF wake_both, Goto
    <3>2. \A u \in Threads : Hands(u) => Hands(u)'
      BY <2>1, <2>4, <3>1 DEF Hands, AwakeWriter
    <3> QED
      BY <2>4, <3>2 DEF HandInv
  <2> QED
    BY <1>24, <2>2, <2>3, <2>4 DEF wake_both, Goto
<1>25. ASSUME NEW t \in Threads, wake_writer_notify(t) PROVE HandInv'
  <2>1. current' = {} /\ UNCHANGED <<word, state>>
    BY <1>25 DEF wake_writer_notify, LocalsUnchanged
  <2>2. \/ pc[t] = "notify" /\ pc' = [pc EXCEPT ![t] = "wake_writer"]
        \/ pc[t] = "notify_both" /\ pc' = [pc EXCEPT ![t] = "wake_writer_both"]
    BY <1>25 DEF wake_writer_notify, Goto
  <2>3. \A u \in Threads : Hands(u) => Hands(u)'
    BY <2>1, <2>2 DEF Hands, AwakeWriter
  <2> QED
    BY <2>1, <2>3 DEF HandInv
<1>26. ASSUME NEW t \in Threads, wake_writer(t) PROVE HandInv'
  <2>1. UNCHANGED <<word, current, state>>
    BY <1>26 DEF wake_writer, LocalsUnchanged
  <2>2. CASE Sleepers("w_asleep") = {}
    <3>1. \/ pc[t] = "wake_writer" /\ pc' = [pc EXCEPT ![t] = "idle"]
          \/ pc[t] = "wake_writer_both" /\ pc' = [pc EXCEPT ![t] = "wake_readers"]
      BY <1>26, <2>2 DEF wake_writer, futex_wake
    <3>2. \A u \in Threads : Hands(u) => Hands(u)'
      BY <2>1, <3>1 DEF Hands, AwakeWriter
    <3> QED
      BY <2>1, <3>2 DEF HandInv
  <2>3. CASE Sleepers("w_asleep") # {}
    <3>1. PICK u \in Sleepers("w_asleep"), to \in {"idle", "wake_readers"} :
            pc' = [pc EXCEPT ![t] = to, ![u] = "w_spin"]
      BY <1>26, <2>3 DEF wake_writer, futex_wake
    <3>2. u \in Threads /\ pc'[u] = "w_spin"
      BY <3>1 DEF Sleepers
    <3> QED
      BY <3>2 DEF HandInv, Hands, AwakeWriter
  <2> QED
    BY <2>2, <2>3
<1>27. ASSUME NEW t \in Threads, wake_readers(t) PROVE HandInv'
  <2>1. CASE word' = W(0, FALSE, FALSE)
    BY <2>1 DEF HandInv, W
  <2>2. CASE word # W(0, TRUE, FALSE) /\ word' = word
    <3>1. pc[t] = "wake_readers" /\ pc' = [pc EXCEPT ![t] = "idle"] /\ UNCHANGED <<current, state>>
      BY <1>27, <2>2 DEF wake_readers, Goto, LocalsUnchanged
    <3>2. \A u \in Threads : Hands(u) => Hands(u)'
      BY <2>2, <3>1 DEF Hands, AwakeWriter
    <3> QED
      BY <2>2, <3>2 DEF HandInv
  <2> QED
    BY <1>27, <2>1, <2>2 DEF wake_readers
<1>28. ASSUME NEW t \in Threads, wake_all(t) PROVE HandInv'
  BY <1>28, HandUnchanged DEF wake_all, futex_wake_all, LocalsUnchanged
<1>29. CASE UNCHANGED vars
  BY <1>29, HandUnchanged DEF vars
<1> QED
  BY <1>1, <1>2, <1>3, <1>4, <1>5, <1>6, <1>7, <1>8, <1>9, <1>10,
     <1>11, <1>12, <1>13, <1>14, <1>15, <1>16, <1>17, <1>18, <1>19, <1>20,
     <1>21, <1>22, <1>23, <1>24, <1>25, <1>26, <1>27, <1>28, <1>29
     DEF Next, Call, Inside, ReadStep, WriteStep, WakeStep, Release

\* While a waiting bit is on and nobody has the lock, some thread is on its
\* way to wake a waiter or to take the lock.
THEOREM RwLockFreeIsHandedOn == Spec => []FreeLockIsHandedOn
<1>1. Init => HandInv
  BY DEF Init, HandInv, W
<1>2. TypeOK /\ HoldInv /\ ReadersWaitBehindWriter /\ HandInv /\ [Next]_vars => HandInv'
  BY HandStep
<1>3. HandInv => FreeLockIsHandedOn
  BY DEF HandInv, Hands, FreeLockIsHandedOn, Notifying
<1>4. ReadersBitIsSound => ReadersWaitBehindWriter
  BY DEF ReadersBitIsSound
<1> QED
  BY <1>1, <1>2, <1>3, <1>4, HoldInvariant, RwLockReadersBit, PTL DEF Spec
=============================================================================
