--------------------------------- MODULE Arc ---------------------------------
(***************************************************************************)
(* One allocation shared by Arc and Weak, library/alloc/src/sync.rs.       *)
(*                                                                         *)
(* A thread owns at most one Arc and one Weak and uses them in one call at *)
(* a time; the handle that clone makes goes to a thread between its calls. *)
(* One action per access of a counter, of the value or of the allocation.  *)
(* The counters are words in which MAX stands for usize::MAX; that they    *)
(* stay below MAX_REFCOUNT is the bound on the number of threads.  Steps   *)
(* interleave as in one total order: the fences and orderings that earn    *)
(* this in the code are not modelled.                                      *)
(***************************************************************************)
EXTENDS Naturals, FiniteSets

CONSTANTS Threads,
          MAX             \* usize::MAX, which locks the weak count

ASSUME ThreadsAssumption == IsFiniteSet(Threads) /\ Threads # {}
ASSUME MaxAssumption == MAX \in Nat /\ MAX > Cardinality(Threads) + 1

VARIABLES strong, weak,   \* ArcInner: the counters ...
          data,           \* ... and the value: "live", "dropped", or "moved" out
          freed,          \* is the allocation given back?
          arcs, weaks,    \* the threads that own an Arc, a Weak
          pc,
          cur             \* cur[t]: the local of downgrade, is_unique's answer

counters == <<strong, weak>>
vars == <<strong, weak, data, freed, arcs, weaks, pc, cur>>

\* Arc::new: the strong references hold one weak reference together.
Init ==
  /\ strong = 1 /\ weak = 1
  /\ data = "live" /\ freed = FALSE
  /\ \E t \in Threads : arcs = {t}
  /\ weaks = {}
  /\ pc = [t \in Threads |-> "idle"]
  /\ cur = [t \in Threads |-> 0]

Goto(t, from, to) == pc[t] = from /\ pc' = [pc EXCEPT ![t] = to]

Add(n) == (n + 1) % (MAX + 1)

Sub(n) == (n + MAX) % (MAX + 1)
-----------------------------------------------------------------------------
(***************************************************************************)
(* Making handles                                                          *)
(***************************************************************************)
clone(t, u) ==
  /\ pc[t] = "idle" /\ pc[u] = "idle" /\ t \in arcs /\ u \notin arcs
  /\ strong' = Add(strong)
  /\ arcs' = arcs \cup {u}
  /\ UNCHANGED <<weak, data, freed, weaks, pc, cur>>

\* The lock is not looked at: nobody can hold it while there is a Weak.
weak_clone(t, u) ==
  /\ pc[t] = "idle" /\ pc[u] = "idle" /\ t \in weaks /\ u \notin weaks
  /\ weak' = Add(weak)
  /\ weaks' = weaks \cup {u}
  /\ UNCHANGED <<strong, data, freed, arcs, pc, cur>>

\* Mutant: a fetch_add that lets the count leave zero.
Mut_upgrade(t) ==
  /\ pc[t] = "idle" /\ t \in weaks /\ t \notin arcs
  /\ strong' = Add(strong)
  /\ arcs' = arcs \cup {t}
  /\ UNCHANGED <<weak, data, freed, weaks, pc, cur>>

\* Weak::upgrade, which fails on a count of zero.
upgrade(t) ==
  /\ pc[t] = "idle" /\ t \in weaks /\ t \notin arcs
  /\ strong # 0
  /\ strong' = Add(strong)
  /\ arcs' = arcs \cup {t}
  /\ UNCHANGED <<weak, data, freed, weaks, pc, cur>>

downgrade(t) ==
  /\ t \in arcs /\ t \notin weaks
  /\ Goto(t, "idle", "downgrade")
  /\ cur' = [cur EXCEPT ![t] = weak]
  /\ UNCHANGED <<counters, data, freed, arcs, weaks>>

\* The compare_exchange fails, or the count was locked: try the new value.
downgrade_retry(t) ==
  /\ pc[t] = "downgrade" /\ cur[t] # weak
  /\ cur' = [cur EXCEPT ![t] = weak]
  /\ UNCHANGED <<counters, data, freed, arcs, weaks, pc>>

\* Mutant: a fetch_add, whether or not the count is locked.
Mut_downgrade_add(t) ==
  /\ Goto(t, "downgrade", "idle")
  /\ weak' = Add(weak)
  /\ weaks' = weaks \cup {t}
  /\ cur' = [cur EXCEPT ![t] = 0]
  /\ UNCHANGED <<strong, data, freed, arcs>>

downgrade_add(t) ==
  /\ Goto(t, "downgrade", "idle")
  /\ cur[t] = weak /\ weak # MAX
  /\ weak' = Add(weak)
  /\ weaks' = weaks \cup {t}
  /\ cur' = [cur EXCEPT ![t] = 0]
  /\ UNCHANGED <<strong, data, freed, arcs>>
-----------------------------------------------------------------------------
(***************************************************************************)
(* Dropping handles, and taking the value out                              *)
(***************************************************************************)
\* Arc::drop and into_inner: the last one drops the value, or returns it.
drop(t) ==
  /\ t \in arcs
  /\ arcs' = arcs \ {t}
  /\ strong' = Sub(strong)
  /\ \/ Goto(t, "idle", IF strong = 1 THEN "drop_slow" ELSE "idle")
     \/ Goto(t, "idle", IF strong = 1 THEN "take" ELSE "idle")
     \/ Goto(t, "cloned", IF strong = 1 THEN "drop_slow" ELSE "idle")
  /\ UNCHANGED <<weak, data, freed, weaks, cur>>

\* try_unwrap, which fails if there is another Arc.
try_unwrap(t) ==
  /\ t \in arcs /\ strong = 1
  /\ Goto(t, "idle", "take")
  /\ strong' = 0
  /\ arcs' = arcs \ {t}
  /\ UNCHANGED <<weak, data, freed, weaks, cur>>

\* The value is moved out, or dropped in place (should that panic, the weak
\* reference is dropped all the same).
take(t) ==
  /\ \/ Goto(t, "take", "weak_drop") /\ data' = "moved"
     \/ Goto(t, "drop_slow", "weak_drop") /\ data' = "dropped"
  /\ UNCHANGED <<counters, freed, arcs, weaks, cur>>

\* Weak::drop, of a Weak or of the one that the strong references share.
weak_drop(t) ==
  /\ \/ Goto(t, "idle", IF weak = 1 THEN "deallocate" ELSE "idle") /\ t \in weaks /\ weaks' = weaks \ {t}
     \/ Goto(t, "weak_drop", IF weak = 1 THEN "deallocate" ELSE "idle") /\ UNCHANGED weaks
  /\ weak' = Sub(weak)
  /\ UNCHANGED <<strong, data, freed, arcs, cur>>

deallocate(t) ==
  /\ Goto(t, "deallocate", "idle")
  /\ freed' = TRUE
  /\ UNCHANGED <<counters, data, arcs, weaks, cur>>
-----------------------------------------------------------------------------
(***************************************************************************)
(* Exclusive access                                                        *)
(***************************************************************************)
\* make_mut: with another Arc around the value is cloned and this one dropped.
make_mut(t) ==
  /\ t \in arcs
  /\ IF strong = 1
     THEN Goto(t, "idle", "make_mut") /\ strong' = 0
     ELSE Goto(t, "idle", "cloned") /\ UNCHANGED strong
  /\ UNCHANGED <<weak, data, freed, arcs, weaks, cur>>

\* The value's clone panics, and this Arc is kept.
clone_panics(t) ==
  /\ Goto(t, "cloned", "idle")
  /\ UNCHANGED <<counters, data, freed, arcs, weaks, cur>>

\* With a Weak around the value is moved out, and the Arc becomes a Weak.
make_mut_weak(t) ==
  /\ IF weak = 1
     THEN Goto(t, "make_mut", "restore") /\ UNCHANGED arcs
     ELSE Goto(t, "make_mut", "take") /\ arcs' = arcs \ {t}
  /\ UNCHANGED <<counters, data, freed, weaks, cur>>

restore(t) ==
  /\ Goto(t, "restore", "mut")
  /\ strong' = 1
  /\ UNCHANGED <<weak, data, freed, arcs, weaks, cur>>

\* get_mut and is_unique: lock the weak count if there is no Weak, ...
get_mut(t) ==
  /\ t \in arcs /\ weak = 1
  /\ Goto(t, "idle", "is_unique")
  /\ weak' = MAX
  /\ UNCHANGED <<strong, data, freed, arcs, weaks, cur>>

\* ... look for another Arc, ...
is_unique(t) ==
  /\ Goto(t, "is_unique", "unlock")
  /\ cur' = [cur EXCEPT ![t] = strong]
  /\ UNCHANGED <<counters, data, freed, arcs, weaks>>

\* ... and unlock it.
unlock(t) ==
  /\ Goto(t, "unlock", IF cur[t] = 1 THEN "mut" ELSE "idle")
  /\ weak' = 1
  /\ cur' = [cur EXCEPT ![t] = 0]
  /\ UNCHANGED <<strong, data, freed, arcs, weaks>>

\* The exclusive borrow ends.
end_mut(t) ==
  /\ Goto(t, "mut", "idle")
  /\ UNCHANGED <<counters, data, freed, arcs, weaks, cur>>
-----------------------------------------------------------------------------
Idle == \A t \in Threads : pc[t] = "idle"

Gone == arcs = {} /\ weaks = {} /\ Idle /\ UNCHANGED vars

Next ==
  \/ \E t, u \in Threads : clone(t, u) \/ weak_clone(t, u)
  \/ \E t \in Threads :
       \/ upgrade(t) \/ downgrade(t) \/ downgrade_retry(t) \/ downgrade_add(t)
       \/ drop(t) \/ try_unwrap(t) \/ take(t) \/ weak_drop(t) \/ deallocate(t)
       \/ make_mut(t) \/ clone_panics(t) \/ make_mut_weak(t) \/ restore(t)
       \/ get_mut(t) \/ is_unique(t) \/ unlock(t) \/ end_mut(t)
  \/ Gone

Spec == Init /\ [][Next]_vars
-----------------------------------------------------------------------------
\* A thread with a mutable reference to the value has the only handle there is,
\* and no other thread is in the middle of making one.
ExclusiveIsAlone ==
  \A t \in Threads : pc[t] = "mut" =>
    /\ arcs = {t} /\ weaks = {} /\ data = "live"
    /\ \A u \in Threads \ {t} : pc[u] = "idle"

\* The threads that are about to touch the counters or the value.
Holders == arcs \cup weaks \cup {t \in Threads : pc[t] # "idle"}

\* The value is there for every Arc, the allocation for every handle and every
\* unfinished call; the value is dropped or moved out once, the allocation
\* given back once, and both have happened when the last handle is gone.
FreedOnceAndLast ==
  /\ freed => Holders = {}
  /\ (\E t \in arcs : pc[t] # "make_mut") => data = "live"
  /\ \A t \in Threads : pc[t] \in {"take", "drop_slow"} => data = "live" /\ arcs = {}
  /\ \A t \in Threads : pc[t] = "deallocate" => Holders = {t}
  /\ Holders = {} => freed /\ data # "live"
=============================================================================
