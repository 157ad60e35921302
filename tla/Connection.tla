----------------------------- MODULE Connection -----------------------------
(***************************************************************************)
(* TCP connections between pkg/client and pkg/server, as the code uses     *)
(* them through package net: two streams of frames that arrive in order, a *)
(* backlog of connections nobody accepted yet, two ends that are closed    *)
(* one by one, and resets that lose what is under way. A frame of which a  *)
(* reset leaves only a part cannot be told from one that is lost: ReadFrame *)
(* returns an error for both.                                              *)
(***************************************************************************)
EXTENDS Naturals, Sequences

CONSTANTS
  Conns,      \* the connections that are ever dialled
  Clients,    \* who dials them
  MaxCalls,   \* bound: MaxCalls[c] calls of client c
  None        \* nil

ASSUME ConnectionConstantsOK == None \notin Conns /\ MaxCalls \in [Clients -> Nat]

VARIABLES
  listener,      \* the listening socket: "none", "listening", "closed"
  conn           \* conn[i]: phase, the streams up (to the server) and down,
                 \* and whether the client's and the server's end is open

connVars == <<listener, conn>>

NewConn ==
  [phase |-> "unused", up |-> <<>>, down |-> <<>>, clientOpen |-> FALSE,
   serverOpen |-> FALSE]

ConnTypeOK(Frame(_)) ==
  /\ listener \in {"none", "listening", "closed"}
  /\ DOMAIN conn = Conns
  /\ \A i \in Conns :
       /\ conn[i].phase \in {"unused", "backlog", "accepted", "reset"}
       /\ {conn[i].clientOpen, conn[i].serverOpen} \subseteq BOOLEAN
       /\ \A n \in DOMAIN conn[i].up : Frame(conn[i].up[n])
       /\ \A n \in DOMAIN conn[i].down : Frame(conn[i].down[n])

ConnInit == listener = "none" /\ conn = [i \in Conns |-> NewConn]

Dialled(c) ==
  [c EXCEPT !.phase = "backlog", !.clientOpen = TRUE, !.serverOpen = TRUE]

Accepted(c) == [c EXCEPT !.phase = "accepted"]

Reset(c) == [c EXCEPT !.phase = "reset", !.up = <<>>, !.down = <<>>]

\* What a closed end did not read is dropped, and so is what it is sent.
ClientClosed(c) == [c EXCEPT !.clientOpen = FALSE, !.down = <<>>]
ServerClosed(c) == [c EXCEPT !.serverOpen = FALSE, !.up = <<>>]
SentUp(c, f) == IF c.serverOpen THEN [c EXCEPT !.up = Append(@, f)] ELSE c
SentDown(c, f) == IF c.clientOpen THEN [c EXCEPT !.down = Append(@, f)] ELSE c

\* What one end finds when it reads and nothing is left to read.
ClientGone(i) == ~conn[i].clientOpen \/ conn[i].phase = "reset"
ServerGone(i) == ~conn[i].serverOpen \/ conn[i].phase = "reset"

\* listener.Close: connections that nobody accepted are reset.
WithoutBacklog ==
  [i \in Conns |-> IF conn[i].phase = "backlog" THEN Reset(conn[i]) ELSE conn[i]]

\* The process ends: the kernel closes the server's end of every connection.
Orphaned == [i \in Conns |-> ServerClosed(conn[i])]

\* The network fails under a connection that both ends still use.
BreakConn(i) ==
  /\ conn[i].phase \in {"backlog", "accepted"}
  /\ conn[i].clientOpen /\ conn[i].serverOpen
  /\ conn' = [conn EXCEPT ![i] = Reset(@)]
  /\ UNCHANGED listener
=============================================================================
