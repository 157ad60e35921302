---------------------------- MODULE RemoteCall ----------------------------
(***************************************************************************)
(* What a caller of pkg/client may rely on. A request is executed at most  *)
(* once. A call that returns the broker's answer returns the one that this *)
(* very request was given. A call that fails says nothing: the request may *)
(* have been executed, may never be, or may be executed later, even after  *)
(* the next call of the same client.                                       *)
(***************************************************************************)
EXTENDS Naturals, Sequences

CONSTANTS Clients

VARIABLES
  count,    \* count[c]: calls made by c
  done,     \* done[c][n]: the results given to c's n-th request
  outcome   \* outcome[c]: what c's last call returned

vars == <<count, done, outcome>>

Pending == [kind |-> "pending"]
Unknown == [kind |-> "unknown"]

Init ==
  /\ count = [c \in Clients |-> 0]
  /\ \A c \in Clients : \A n \in DOMAIN done[c] : done[c][n] = <<>>
  /\ outcome = [c \in Clients |-> Unknown]

Call(c) ==
  /\ outcome[c] # Pending
  /\ count' = [count EXCEPT ![c] = @ + 1]
  /\ outcome' \in {[outcome EXCEPT ![c] = o] : o \in {Pending, Unknown}}
  /\ UNCHANGED done

Perform(c, n) ==
  /\ n <= count[c] /\ done[c][n] = <<>>
  /\ Len(done'[c][n]) = 1
  /\ done' = [done EXCEPT ![c][n] = done'[c][n]]
  /\ UNCHANGED <<count, outcome>>

Return(c) ==
  LET d == done[c][count[c]] IN
  /\ outcome[c] = Pending
  /\ \/ /\ d # <<>>
        /\ outcome' = [outcome EXCEPT ![c] =
                         [kind |-> "answer", code |-> d[1].code, val |-> d[1].val]]
     \/ outcome' = [outcome EXCEPT ![c] = Unknown]
  /\ UNCHANGED <<count, done>>

Next ==
  \E c \in Clients :
    \/ Call(c) \/ Return(c)
    \/ \E n \in DOMAIN done[c] : Perform(c, n)

Spec == Init /\ [][Next]_vars
=============================================================================
