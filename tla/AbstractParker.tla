--------------------------- MODULE AbstractParker ---------------------------
(***************************************************************************)
(* What thread parking promises (std::thread::park): every thread has one  *)
(* token; unpark makes it available, park returns by consuming it, and     *)
(* park_timeout may also return without one.  FutexParker implements it    *)
(* for one thread; blocking code built on park is modelled over it.        *)
(***************************************************************************)
VARIABLES token,          \* is the token available?
          mode            \* "running", or the call the owner is blocked in

Init == token = FALSE /\ mode = "running"

\* park or park_timeout begins and finds no token.
Block ==
  /\ mode = "running" /\ ~token
  /\ mode' \in {"park", "park_timeout"}
  /\ UNCHANGED token

\* park or park_timeout returns with the token.
Consume == token /\ token' = FALSE /\ mode' = "running"

\* park_timeout returns without one.
Expire == mode = "park_timeout" /\ ~token /\ mode' = "running" /\ UNCHANGED token

Unpark == token' = TRUE /\ UNCHANGED mode

Next == Block \/ Consume \/ Expire \/ Unpark

Spec == Init /\ [][Next]_<<token, mode>>
=============================================================================
