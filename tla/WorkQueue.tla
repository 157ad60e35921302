----------------------------- MODULE WorkQueue -----------------------------
(***************************************************************************)
(* What the broker promises a consumer group: every message of its topic   *)
(* is given out once for the first time, in order and without gaps, then   *)
(* stays with the group until it is settled, one message at a time. A      *)
(* restart forgets what is out and goes back, never past a message that    *)
(* was not settled. Giving a message out again is not a step of this       *)
(* specification: it was out before and still is.                          *)
(***************************************************************************)
EXTENDS Naturals

CONSTANTS
  Topics,
  Keys       \* the groups: pairs of a topic and a name

VARIABLES
  size,      \* size[t]: messages published to t
  next,      \* next[k]: the first message group k was never given
  out        \* out[k]: the messages it was given and has not settled

vars == <<size, next, out>>

Init ==
  /\ size = [t \in Topics |-> 0]
  /\ next = [k \in Keys |-> 0]
  /\ out = [k \in Keys |-> {}]

Publish(t) ==
  /\ size' = [size EXCEPT ![t] = @ + 1]
  /\ UNCHANGED <<next, out>>

Deliver(k, n) ==
  /\ next[k] + n <= size[k[1]]
  /\ next' = [next EXCEPT ![k] = @ + n]
  /\ out' = [out EXCEPT ![k] = @ \cup next[k] .. (next[k] + n - 1)]
  /\ UNCHANGED size

Settle(k, m) ==
  /\ m \in out[k]
  /\ out' = [out EXCEPT ![k] = @ \ {m}]
  /\ UNCHANGED <<size, next>>

\* Messages that were never synced may be gone; one whose publication failed may
\* have been published after all.
Restart ==
  /\ \A t \in Topics : size'[t] <= size[t] + 1
  /\ \A k \in Keys : next'[k] <= next[k] /\ \A m \in out[k] : next'[k] <= m
  /\ out' = [k \in Keys |-> {}]

Next ==
  \/ \E t \in Topics : Publish(t)
  \/ \E k \in Keys : \E n \in 1 .. (size[k[1]] - next[k]) : Deliver(k, n)
  \/ \E k \in Keys : \E m \in out[k] : Settle(k, m)
  \/ Restart

Spec == Init /\ [][Next]_vars
=============================================================================
