------------------------- MODULE AbstractRendezvous -------------------------
(***************************************************************************)
(* What a channel without a buffer promises: a sender and a receiver meet  *)
(* in one step, in which the message changes hands; whoever does not meet  *)
(* anybody is refused, and a sender then keeps its message.                *)
(***************************************************************************)
CONSTANTS Senders, Receivers, Messages, None

VARIABLES state,          \* state[t]: "idle", "calling", "met" or "refused"
          offer,          \* offer[s]: the message that s has and wants to send
          got             \* got[r]: the message that r has received

vars == <<state, offer, got>>

Init ==
  /\ state = [t \in Senders \cup Receivers |-> "idle"]
  /\ offer = [s \in Senders |-> None]
  /\ got = [r \in Receivers |-> None]

Call(t) ==
  /\ state[t] = "idle"
  /\ state' = [state EXCEPT ![t] = "calling"]
  /\ \/ t \in Receivers /\ UNCHANGED offer
     \/ t \in Senders /\ \E m \in Messages : offer' = [offer EXCEPT ![t] = m]
  /\ UNCHANGED got

Meet(s, r) ==
  /\ state[s] = "calling" /\ state[r] = "calling"
  /\ state' = [state EXCEPT ![s] = "met", ![r] = "met"]
  /\ got' = [got EXCEPT ![r] = offer[s]]
  /\ offer' = [offer EXCEPT ![s] = None]

\* A disconnection refuses many at once.
Refuse(T) ==
  /\ \A t \in T : state[t] = "calling"
  /\ state' = [t \in DOMAIN state |-> IF t \in T THEN "refused" ELSE state[t]]
  /\ UNCHANGED <<offer, got>>

Return(t) ==
  /\ state[t] \in {"met", "refused"}
  /\ state' = [state EXCEPT ![t] = "idle"]
  /\ offer' = [s \in Senders |-> IF s = t THEN None ELSE offer[s]]
  /\ got' = [r \in Receivers |-> IF r = t THEN None ELSE got[r]]

Next ==
  \/ \E t \in Senders \cup Receivers : Call(t) \/ Return(t)
  \/ \E T \in SUBSET (Senders \cup Receivers) : Refuse(T)
  \/ \E s \in Senders, r \in Receivers : Meet(s, r)

Spec == Init /\ [][Next]_vars
=============================================================================
