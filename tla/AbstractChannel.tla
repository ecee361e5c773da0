--------------------------- MODULE AbstractChannel ---------------------------
(***************************************************************************)
(* What a buffered channel promises: a queue of at most Capacity messages, *)
(* each received once and in order, that may be disconnected.  got[t] is   *)
(* the message that the call of t has received, verdict[t] its reason not  *)
(* to: each becomes what it is at the moment the call is decided.          *)
(***************************************************************************)
EXTENDS Naturals, Sequences

CONSTANTS Senders, Receivers, Messages, None, Capacity

VARIABLES queue, disconnected,
          abandoned,            \* are all the receivers gone?
          got, verdict

vars == <<queue, disconnected, abandoned, got, verdict>>

Threads == Senders \cup Receivers

Init ==
  /\ queue = << >>
  /\ disconnected = FALSE /\ abandoned = FALSE
  /\ got = [t \in Threads |-> None]
  /\ verdict = [t \in Threads |-> "none"]

Send(m) ==
  /\ ~disconnected /\ Len(queue) < Capacity
  /\ queue' = Append(queue, m)
  /\ UNCHANGED <<disconnected, abandoned, got, verdict>>

Recv(t) ==
  /\ t \in Receivers /\ queue # << >> /\ got[t] = None /\ ~abandoned
  /\ got' = [got EXCEPT ![t] = Head(queue)]
  /\ queue' = Tail(queue)
  /\ UNCHANGED <<disconnected, abandoned, verdict>>

\* A sender hears that the channel is full, a receiver that it is empty, and
\* either that it is closed: a receiver only when nothing is left in it.  What
\* the last receiver discards may still count as filling the channel.
Refuse(t) ==
  /\ verdict[t] = "none"
  /\ \/ /\ t \in Senders /\ (Len(queue) = Capacity \/ abandoned)
        /\ verdict' = [verdict EXCEPT ![t] = "full"]
     \/ /\ t \in Receivers /\ queue = << >> /\ ~disconnected
        /\ verdict' = [verdict EXCEPT ![t] = "empty"]
     \/ /\ disconnected /\ (t \in Receivers => queue = << >>)
        /\ verdict' = [verdict EXCEPT ![t] = "closed"]
  /\ UNCHANGED <<queue, disconnected, abandoned, got>>

Return(t) ==
  /\ \/ got' = [got EXCEPT ![t] = None] /\ UNCHANGED verdict
     \/ verdict' = [verdict EXCEPT ![t] = "none"] /\ UNCHANGED got
  /\ UNCHANGED <<queue, disconnected, abandoned>>

Disconnect == disconnected' = TRUE /\ UNCHANGED <<queue, abandoned, got, verdict>>

Abandon == abandoned' = TRUE /\ UNCHANGED <<queue, disconnected, got, verdict>>

\* Nobody is left to take the messages: they are dropped, in order.
Discard ==
  /\ disconnected /\ abandoned /\ queue # << >>
  /\ queue' = Tail(queue)
  /\ UNCHANGED <<disconnected, abandoned, got, verdict>>

Next ==
  \/ \E m \in Messages : Send(m)
  \/ \E t \in Threads : Recv(t) \/ Refuse(t) \/ Return(t)
  \/ Disconnect \/ Abandon \/ Discard

Spec == Init /\ [][Next]_vars
=============================================================================
