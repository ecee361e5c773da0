------------------------------ MODULE ArcProofs ------------------------------
(***************************************************************************)
(* Proofs about Arc for any finite set of threads and any MAX above the    *)
(* counts: a mutable reference is alone, and value and allocation go once  *)
(* and last.                                                               *)
(*                                                                         *)
(* The invariant ties each counter to the handles it counts.  Two windows  *)
(* make this delicate: make_mut takes the strong count to zero while its   *)
(* Arc still exists, and is_unique puts MAX in the place of the weak count.*)
(***************************************************************************)
EXTENDS Arc, FiniteSetTheorems, TLAPS

Points == {"idle", "downgrade", "drop_slow", "take", "weak_drop", "deallocate",
           "make_mut", "restore", "cloned", "mut", "is_unique", "unlock"}

TypeOK ==
  /\ strong \in Nat /\ weak \in Nat
  /\ freed \in BOOLEAN
  /\ arcs \subseteq Threads /\ weaks \subseteq Threads
  /\ pc \in [Threads -> Points]
  /\ cur \in [Threads -> Nat]

\* The threads inside the two windows, and those that end the value's life.
Emptied(t) == pc[t] \in {"make_mut", "restore"}

Locking(t) == pc[t] \in {"is_unique", "unlock"}

Ending(t) == pc[t] \in {"take", "drop_slow", "weak_drop"}

\* Do the strong references still hold their weak reference?
Shared == arcs # {} \/ \E t \in Threads : Ending(t)

StrongInv ==
  strong = IF \E t \in Threads : Emptied(t) THEN 0 ELSE Cardinality(arcs)

WeakInv ==
  weak = IF \E t \in Threads : Locking(t) THEN MAX
         ELSE Cardinality(weaks) + IF Shared THEN 1 ELSE 0

\* What a thread in the middle of a call may rely on.
CallInv ==
  \A t \in Threads :
    /\ pc[t] \in {"downgrade", "cloned", "mut"} \/ Emptied(t) \/ Locking(t) => t \in arcs
    /\ pc[t] = "downgrade" => t \notin weaks
    /\ pc[t] = "mut" \/ Emptied(t) => arcs = {t}
    /\ pc[t] \in {"mut", "restore"} \/ Locking(t) => weaks = {}
    /\ pc[t] = "unlock" /\ cur[t] = 1 => arcs = {t}
    /\ Locking(t) => \A u \in Threads : Locking(u) => u = t
    /\ Ending(t) => arcs = {} /\ \A u \in Threads \ {t} : pc[u] = "idle"
    /\ pc[t] = "deallocate" => arcs = {} /\ weaks = {} /\ \A u \in Threads \ {t} : pc[u] = "idle"

\* The value lives as long as its strong references, the allocation as long as
\* anybody may look at the counters.
LifeInv ==
  /\ arcs # {} => data = "live"
  /\ \A t \in Threads : pc[t] \in {"take", "drop_slow"} => data = "live"
  /\ \A t \in Threads : pc[t] = "weak_drop" => data # "live"
  /\ ~Shared => data # "live"
  /\ freed <=> arcs = {} /\ weaks = {} /\ Idle

IInv == TypeOK /\ StrongInv /\ WeakInv /\ CallInv /\ LifeInv
-----------------------------------------------------------------------------
(***************************************************************************)
(* The counters are words, and sets of threads are counted by numbers far  *)
(* below MAX.                                                              *)
(***************************************************************************)
LEMMA MaxFacts ==
  /\ MAX \in Nat /\ Cardinality(Threads) \in Nat
  /\ MAX > Cardinality(Threads) + 1
BY MaxAssumption, ThreadsAssumption, FS_CardinalityType

LEMMA WordAdd ==
  ASSUME NEW n \in Nat, n < MAX
  PROVE  Add(n) = n + 1
BY MaxFacts DEF Add

LEMMA WordSub ==
  ASSUME NEW n \in Nat, 1 <= n, n <= MAX
  PROVE  Sub(n) = n - 1
BY MaxFacts DEF Sub

\* Counting a set of threads.
LEMMA Count ==
  ASSUME NEW S \in SUBSET Threads
  PROVE  /\ Cardinality(S) \in Nat /\ Cardinality(S) <= Cardinality(Threads)
         /\ Cardinality(S) = 0 <=> S = {}
         /\ \A x \in Threads : x \in S /\ Cardinality(S) = 1 => S = {x}
         /\ \A x \in Threads : x \notin S => Cardinality(S \cup {x}) = Cardinality(S) + 1
         /\ \A x \in S : Cardinality(S \ {x}) = Cardinality(S) - 1
<1>1. IsFiniteSet(S) /\ Cardinality(S) <= Cardinality(Threads)
  BY ThreadsAssumption, FS_Subset
<1>2. Cardinality(S) \in Nat
  BY <1>1, FS_CardinalityType
<1>3. Cardinality(S) = 0 <=> S = {}
  BY <1>1, FS_EmptySet
<1>4. ASSUME NEW x \in Threads, x \in S, Cardinality(S) = 1 PROVE S = {x}
  BY <1>1, <1>4, FS_Singleton
<1>5. ASSUME NEW x \in Threads, x \notin S PROVE Cardinality(S \cup {x}) = Cardinality(S) + 1
  BY <1>1, <1>5, FS_AddElement
<1>6. ASSUME NEW x \in S PROVE Cardinality(S \ {x}) = Cardinality(S) - 1
  BY <1>1, <1>6, FS_RemoveElement
<1> QED
  BY <1>1, <1>2, <1>3, <1>4, <1>5, <1>6

LEMMA CountSingle ==
  ASSUME NEW x PROVE Cardinality({x}) = 1
BY FS_Singleton

-----------------------------------------------------------------------------
\* An Arc in nobody's window is counted, and the last one knows that it is.
LEMMA CountedArc ==
  ASSUME IInv, NEW t \in arcs, ~Emptied(t)
  PROVE  strong = Cardinality(arcs) /\ (strong = 1 <=> arcs = {t})
<1>1. \A u \in Threads : ~Emptied(u)
  BY DEF IInv, CallInv, Emptied
<1> QED
  BY <1>1, Count, CountSingle DEF IInv, TypeOK, StrongInv

\* A weak count of one, seen by the owner of an Arc, means that there is no Weak.
LEMMA CountedWeak ==
  ASSUME IInv, arcs # {}, weak = 1
  PROVE  weaks = {} /\ \A u \in Threads : ~Locking(u)
BY Count, MaxFacts DEF IInv, TypeOK, WeakInv, Shared

LEMMA ArcStep ==
  ASSUME IInv, [Next]_vars
  PROVE  IInv'
<1> USE DEF IInv, TypeOK, Points, Goto, counters, Emptied, Locking, Ending, Shared
<1>1. ASSUME NEW t \in Threads, NEW u \in Threads, clone(t, u) PROVE IInv'
  <2>1. StrongInv'
    BY <1>1, CountedArc, Count, WordAdd, MaxFacts DEF clone, StrongInv, CallInv
  <2>2. WeakInv'
    BY <1>1 DEF clone, WeakInv, CallInv
  <2>3. CallInv'
    BY <1>1 DEF clone, CallInv
  <2>4. LifeInv'
    BY <1>1 DEF clone, LifeInv, CallInv, Idle
  <2>5. TypeOK'
    BY <1>1, <2>1, <2>2, Count, MaxFacts DEF clone, StrongInv, WeakInv
  <2> QED
    BY <2>1, <2>2, <2>3, <2>4, <2>5
<1>2. ASSUME NEW t \in Threads, NEW u \in Threads, weak_clone(t, u) PROVE IInv'
  <2>1. StrongInv'
    BY <1>2 DEF weak_clone, StrongInv, CallInv
  <2>2. WeakInv'
    BY <1>2, Count, WordAdd, MaxFacts DEF weak_clone, WeakInv, CallInv
  <2>3. CallInv'
    BY <1>2 DEF weak_clone, CallInv
  <2>4. LifeInv'
    BY <1>2 DEF weak_clone, LifeInv, CallInv, Idle
  <2>5. TypeOK'
    BY <1>2, <2>1, <2>2, Count, MaxFacts DEF weak_clone, StrongInv, WeakInv
  <2> QED
    BY <2>1, <2>2, <2>3, <2>4, <2>5
<1>3. ASSUME NEW t \in Threads, upgrade(t) PROVE IInv'
  <2>1. StrongInv'
    BY <1>3, Count, WordAdd, MaxFacts DEF upgrade, StrongInv, CallInv
  <2>2. WeakInv'
    BY <1>3, Count DEF upgrade, WeakInv, CallInv, StrongInv
  <2>3. CallInv'
    BY <1>3, Count DEF upgrade, CallInv, StrongInv
  <2>4. LifeInv'
    BY <1>3, Count DEF upgrade, LifeInv, CallInv, Idle, StrongInv
  <2>5. TypeOK'
    BY <1>3, <2>1, <2>2, Count, MaxFacts DEF upgrade, StrongInv, WeakInv
  <2> QED
    BY <2>1, <2>2, <2>3, <2>4, <2>5
<1>4. ASSUME NEW t \in Threads, downgrade(t) PROVE IInv'
  <2>1. StrongInv'
    BY <1>4 DEF downgrade, StrongInv, CallInv
  <2>2. WeakInv'
    BY <1>4 DEF downgrade, WeakInv, CallInv
  <2>3. CallInv'
    BY <1>4 DEF downgrade, CallInv
  <2>4. LifeInv'
    BY <1>4 DEF downgrade, LifeInv, CallInv, Idle
  <2>5. TypeOK'
    BY <1>4, <2>1, <2>2, Count, MaxFacts DEF downgrade, StrongInv, WeakInv
  <2> QED
    BY <2>1, <2>2, <2>3, <2>4, <2>5
<1>5. ASSUME NEW t \in Threads, downgrade_retry(t) PROVE IInv'
  <2>1. StrongInv'
    BY <1>5 DEF downgrade_retry, StrongInv, CallInv
  <2>2. WeakInv'
    BY <1>5 DEF downgrade_retry, WeakInv, CallInv
  <2>3. CallInv'
    BY <1>5 DEF downgrade_retry, CallInv
  <2>4. LifeInv'
    BY <1>5 DEF downgrade_retry, LifeInv, CallInv, Idle
  <2>5. TypeOK'
    BY <1>5, <2>1, <2>2, Count, MaxFacts DEF downgrade_retry, StrongInv, WeakInv
  <2> QED
    BY <2>1, <2>2, <2>3, <2>4, <2>5
<1>6. ASSUME NEW t \in Threads, downgrade_add(t) PROVE IInv'
  <2>1. StrongInv'
    BY <1>6 DEF downgrade_add, StrongInv, CallInv
  <2>2. WeakInv'
    BY <1>6, Count, WordAdd, MaxFacts DEF downgrade_add, WeakInv, CallInv
  <2>3. CallInv'
    BY <1>6 DEF downgrade_add, CallInv, WeakInv
  <2>4. LifeInv'
    BY <1>6 DEF downgrade_add, LifeInv, CallInv, Idle
  <2>5. TypeOK'
    BY <1>6, <2>1, <2>2, Count, MaxFacts DEF downgrade_add, StrongInv, WeakInv
  <2> QED
    BY <2>1, <2>2, <2>3, <2>4, <2>5
<1>7. ASSUME NEW t \in Threads, drop(t) PROVE IInv'
  <2>0. strong = Cardinality(arcs) /\ (strong = 1 <=> arcs = {t})
    BY <1>7, CountedArc DEF drop
  <2>1. StrongInv'
    BY <1>7, <2>0, Count, WordSub, MaxFacts DEF drop, StrongInv, CallInv
  <2>2. WeakInv'
    BY <1>7, <2>0, Count DEF drop, WeakInv, CallInv
  <2>3. CallInv'
    BY <1>7, <2>0 DEF drop, CallInv
  <2>4. LifeInv'
    BY <1>7, <2>0 DEF drop, LifeInv, CallInv, Idle
  <2>5. TypeOK'
    BY <1>7, <2>1, <2>2, Count, MaxFacts DEF drop, StrongInv, WeakInv
  <2> QED
    BY <2>1, <2>2, <2>3, <2>4, <2>5
<1>8. ASSUME NEW t \in Threads, try_unwrap(t) PROVE IInv'
  <2>0. strong = Cardinality(arcs) /\ (strong = 1 <=> arcs = {t})
    BY <1>8, CountedArc DEF try_unwrap
  <2>1. StrongInv'
    BY <1>8, <2>0, Count DEF try_unwrap, StrongInv, CallInv
  <2>2. WeakInv'
    BY <1>8, <2>0 DEF try_unwrap, WeakInv, CallInv
  <2>3. CallInv'
    BY <1>8, <2>0 DEF try_unwrap, CallInv
  <2>4. LifeInv'
    BY <1>8, <2>0 DEF try_unwrap, LifeInv, CallInv, Idle
  <2>5. TypeOK'
    BY <1>8, <2>1, <2>2, Count, MaxFacts DEF try_unwrap, StrongInv, WeakInv
  <2> QED
    BY <2>1, <2>2, <2>3, <2>4, <2>5
<1>9. ASSUME NEW t \in Threads, take(t) PROVE IInv'
  <2>1. StrongInv'
    BY <1>9 DEF take, StrongInv, CallInv
  <2>2. WeakInv'
    BY <1>9 DEF take, WeakInv, CallInv
  <2>3. CallInv'
    BY <1>9 DEF take, CallInv
  <2>4. LifeInv'
    BY <1>9 DEF take, LifeInv, CallInv, Idle
  <2>5. TypeOK'
    BY <1>9, <2>1, <2>2, Count, MaxFacts DEF take, StrongInv, WeakInv
  <2> QED
    BY <2>1, <2>2, <2>3, <2>4, <2>5
<1>10. ASSUME NEW t \in Threads, weak_drop(t) PROVE IInv'
  <2>0. /\ \A v \in Threads : ~Locking(v)
        /\ pc[t] = "idle" => (weak = 1 <=> weaks = {t} /\ ~Shared)
        /\ pc[t] = "weak_drop" => (weak = 1 <=> weaks = {})
    BY <1>10, Count, CountSingle, MaxFacts DEF weak_drop, WeakInv, CallInv
  <2>1. StrongInv'
    BY <1>10 DEF weak_drop, StrongInv, CallInv
  <2>2. WeakInv'
    BY <1>10, <2>0, Count, WordSub, MaxFacts DEF weak_drop, WeakInv, CallInv
  <2>3. CallInv'
    BY <1>10, <2>0 DEF weak_drop, CallInv
  <2>4. LifeInv'
    BY <1>10, <2>0 DEF weak_drop, LifeInv, CallInv, Idle
  <2>5. TypeOK'
    BY <1>10, <2>1, <2>2, Count, MaxFacts DEF weak_drop, StrongInv, WeakInv
  <2> QED
    BY <2>1, <2>2, <2>3, <2>4, <2>5
<1>11. ASSUME NEW t \in Threads, deallocate(t) PROVE IInv'
  <2>1. StrongInv'
    BY <1>11 DEF deallocate, StrongInv, CallInv
  <2>2. WeakInv'
    BY <1>11 DEF deallocate, WeakInv, CallInv
  <2>3. CallInv'
    BY <1>11 DEF deallocate, CallInv
  <2>4. LifeInv'
    BY <1>11 DEF deallocate, LifeInv, CallInv, Idle
  <2>5. TypeOK'
    BY <1>11, <2>1, <2>2, Count, MaxFacts DEF deallocate, StrongInv, WeakInv
  <2> QED
    BY <2>1, <2>2, <2>3, <2>4, <2>5
<1>12. ASSUME NEW t \in Threads, make_mut(t) PROVE IInv'
  <2>0. strong = Cardinality(arcs) /\ (strong = 1 <=> arcs = {t})
    BY <1>12, CountedArc DEF make_mut
  <2>1. StrongInv'
    BY <1>12, <2>0 DEF make_mut, StrongInv, CallInv
  <2>2. WeakInv'
    BY <1>12, <2>0 DEF make_mut, WeakInv, CallInv
  <2>3. CallInv'
    BY <1>12, <2>0 DEF make_mut, CallInv
  <2>4. LifeInv'
    BY <1>12, <2>0 DEF make_mut, LifeInv, CallInv, Idle
  <2>5. TypeOK'
    BY <1>12, <2>1, <2>2, Count, MaxFacts DEF make_mut, StrongInv, WeakInv
  <2> QED
    BY <2>1, <2>2, <2>3, <2>4, <2>5
<1>13. ASSUME NEW t \in Threads, clone_panics(t) PROVE IInv'
  <2>1. StrongInv'
    BY <1>13 DEF clone_panics, StrongInv, CallInv
  <2>2. WeakInv'
    BY <1>13 DEF clone_panics, WeakInv, CallInv
  <2>3. CallInv'
    BY <1>13 DEF clone_panics, CallInv
  <2>4. LifeInv'
    BY <1>13 DEF clone_panics, LifeInv, CallInv, Idle
  <2>5. TypeOK'
    BY <1>13, <2>1, <2>2, Count, MaxFacts DEF clone_panics, StrongInv, WeakInv
  <2> QED
    BY <2>1, <2>2, <2>3, <2>4, <2>5
<1>14. ASSUME NEW t \in Threads, make_mut_weak(t) PROVE IInv'
  <2>1. StrongInv'
    BY <1>14, Count DEF make_mut_weak, StrongInv, CallInv
  <2>2. WeakInv'
    BY <1>14, CountedWeak, Count DEF make_mut_weak, WeakInv, CallInv
  <2>3. CallInv'
    BY <1>14, CountedWeak DEF make_mut_weak, CallInv
  <2>4. LifeInv'
    BY <1>14, CountedWeak DEF make_mut_weak, LifeInv, CallInv, Idle
  <2>5. TypeOK'
    BY <1>14, <2>1, <2>2, Count, MaxFacts DEF make_mut_weak, StrongInv, WeakInv
  <2> QED
    BY <2>1, <2>2, <2>3, <2>4, <2>5
<1>15. ASSUME NEW t \in Threads, restore(t) PROVE IInv'
  <2>1. StrongInv'
    BY <1>15, CountSingle DEF restore, StrongInv, CallInv
  <2>2. WeakInv'
    BY <1>15 DEF restore, WeakInv, CallInv
  <2>3. CallInv'
    BY <1>15 DEF restore, CallInv
  <2>4. LifeInv'
    BY <1>15 DEF restore, LifeInv, CallInv, Idle
  <2>5. TypeOK'
    BY <1>15, <2>1, <2>2, Count, MaxFacts DEF restore, StrongInv, WeakInv
  <2> QED
    BY <2>1, <2>2, <2>3, <2>4, <2>5
<1>16. ASSUME NEW t \in Threads, get_mut(t) PROVE IInv'
  <2>1. StrongInv'
    BY <1>16 DEF get_mut, StrongInv, CallInv
  <2>2. WeakInv'
    BY <1>16, CountedWeak DEF get_mut, WeakInv, CallInv
  <2>3. CallInv'
    BY <1>16, CountedWeak DEF get_mut, CallInv
  <2>4. LifeInv'
    BY <1>16 DEF get_mut, LifeInv, CallInv, Idle
  <2>5. TypeOK'
    BY <1>16, <2>1, <2>2, Count, MaxFacts DEF get_mut, StrongInv, WeakInv
  <2> QED
    BY <2>1, <2>2, <2>3, <2>4, <2>5
<1>17. ASSUME NEW t \in Threads, is_unique(t) PROVE IInv'
  <2>1. StrongInv'
    BY <1>17 DEF is_unique, StrongInv, CallInv
  <2>2. WeakInv'
    BY <1>17 DEF is_unique, WeakInv, CallInv
  <2>3. CallInv'
    BY <1>17, CountedArc DEF is_unique, CallInv
  <2>4. LifeInv'
    BY <1>17 DEF is_unique, LifeInv, CallInv, Idle
  <2>5. TypeOK'
    BY <1>17, <2>1, <2>2, Count, MaxFacts DEF is_unique, StrongInv, WeakInv
  <2> QED
    BY <2>1, <2>2, <2>3, <2>4, <2>5
<1>18. ASSUME NEW t \in Threads, unlock(t) PROVE IInv'
  <2>1. StrongInv'
    BY <1>18 DEF unlock, StrongInv, CallInv
  <2>2. WeakInv'
    BY <1>18, Count DEF unlock, WeakInv, CallInv
  <2>3. CallInv'
    BY <1>18 DEF unlock, CallInv
  <2>4. LifeInv'
    BY <1>18 DEF unlock, LifeInv, CallInv, Idle
  <2>5. TypeOK'
    BY <1>18, <2>1, <2>2, Count, MaxFacts DEF unlock, StrongInv, WeakInv
  <2> QED
    BY <2>1, <2>2, <2>3, <2>4, <2>5
<1>19. ASSUME NEW t \in Threads, end_mut(t) PROVE IInv'
  <2>1. StrongInv'
    BY <1>19 DEF end_mut, StrongInv, CallInv
  <2>2. WeakInv'
    BY <1>19 DEF end_mut, WeakInv, CallInv
  <2>3. CallInv'
    BY <1>19 DEF end_mut, CallInv
  <2>4. LifeInv'
    BY <1>19 DEF end_mut, LifeInv, CallInv, Idle
  <2>5. TypeOK'
    BY <1>19, <2>1, <2>2, Count, MaxFacts DEF end_mut, StrongInv, WeakInv
  <2> QED
    BY <2>1, <2>2, <2>3, <2>4, <2>5
<1>20. CASE UNCHANGED vars
  BY <1>20 DEF vars, StrongInv, WeakInv, CallInv, LifeInv, Idle
<1> QED
  BY <1>1, <1>2, <1>3, <1>4, <1>5, <1>6, <1>7, <1>8, <1>9, <1>10, <1>11, <1>12, <1>13, <1>14, <1>15, <1>16, <1>17, <1>18, <1>19, <1>20 DEF Next, Gone

LEMMA ArcInvariant == Spec => []IInv
<1>1. Init => IInv
  <2> SUFFICES ASSUME Init PROVE IInv
    OBVIOUS
  <2> USE DEF Init, TypeOK, Points, Emptied, Locking, Ending, Shared
  <2>1. TypeOK
    OBVIOUS
  <2>2. Cardinality(arcs) = 1 /\ Cardinality(weaks) = 0
    BY CountSingle, FS_EmptySet
  <2>3. StrongInv /\ WeakInv
    BY <2>2 DEF StrongInv, WeakInv
  <2>4. CallInv /\ LifeInv
    BY DEF CallInv, LifeInv, Idle
  <2> QED
    BY <2>1, <2>3, <2>4 DEF IInv
<1>2. IInv /\ [Next]_vars => IInv'
  BY ArcStep
<1> QED
  BY <1>1, <1>2, PTL DEF Spec

\* A mutable reference from get_mut or make_mut is alone, whatever upgrades,
\* downgrades and clones race with the test of the two counters.
THEOREM ArcExclusive == Spec => []ExclusiveIsAlone
<1>1. IInv => ExclusiveIsAlone
  BY DEF IInv, TypeOK, Points, CallInv, LifeInv, Emptied, Locking, Ending, ExclusiveIsAlone
<1> QED
  BY <1>1, ArcInvariant, PTL

\* Value and allocation go once, after their last use, and are not leaked.
THEOREM ArcFreedOnceAndLast == Spec => []FreedOnceAndLast
<1>1. IInv => FreedOnceAndLast
  BY DEF IInv, TypeOK, Points, CallInv, LifeInv, Shared, Emptied, Locking, Ending, Idle,
         FreedOnceAndLast, Holders
<1> QED
  BY <1>1, ArcInvariant, PTL
=============================================================================
