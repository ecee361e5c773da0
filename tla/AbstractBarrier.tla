--------------------------- MODULE AbstractBarrier ---------------------------
(***************************************************************************)
(* What std::sync::Barrier promises: a thread that arrives stays until     *)
(* num_threads threads have arrived; the last of them, the leader, lets    *)
(* all of them go and starts a new round.                                  *)
(***************************************************************************)
EXTENDS Naturals, FiniteSets

CONSTANTS Threads, num_threads

VARIABLES arrived,        \* the threads that wait in the current round
          released        \* the threads that may leave

Init == arrived = {} /\ released = {}

Arrive(t) ==
  /\ t \notin arrived \cup released
  /\ IF Cardinality(arrived) + 1 < num_threads
     THEN arrived' = arrived \cup {t} /\ UNCHANGED released
     ELSE arrived' = {} /\ released' = released \cup arrived \cup {t}

Leave(t) ==
  /\ t \in released
  /\ released' = released \ {t}
  /\ UNCHANGED arrived

Next == \E t \in Threads : Arrive(t) \/ Leave(t)

Spec == Init /\ [][Next]_<<arrived, released>>
=============================================================================
