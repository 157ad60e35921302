------------------------------ MODULE Service ------------------------------
(***************************************************************************)
(* Clients and the daemon, over connections that may break.                *)
(***************************************************************************)
EXTENDS Client, Server

\* The calls ever made. Results hold how many were executed before, as offsets
\* do, which have eight bytes.
AllCalls == UNION {{<<c, n>> : n \in 1 .. MaxCalls[c]} : c \in Clients}

ASSUME CallsCountable == IsFiniteSet(AllCalls) /\ Cardinality(AllCalls) < Max32 * Max32

vars == <<connVars, clientVars, serverVars>>

Init == ConnInit /\ ClientInit /\ ServerInit

Next ==
  \/ \E c \in Clients : ClientNext(c) /\ UNCHANGED serverVars
  \/ ServerNext /\ UNCHANGED clientVars
  \/ \E i \in Conns : BreakConn(i) /\ UNCHANGED <<clientVars, serverVars>>

Spec == Init /\ [][Next]_vars

(***************************************************************************)
(* Fairness. The goroutines of the daemon run, and so does a caller that   *)
(* waits for an answer; the broker returns from every request. Accept does *)
(* not fail for ever while the listener is open, and need not fail at all. *)
(* Nobody has to call, to close or to send a signal. Connections and calls *)
(* are bounded, so a behaviour has finitely many steps and one condition   *)
(* serves everyone.                                                        *)
(***************************************************************************)
Progress ==
  \/ (StartStep \/ StopStep \/ \E i \in Conns : HandlerStep(i)) /\ UNCHANGED clientVars
  \/ \E c \in Clients : Receive(c) /\ UNCHANGED serverVars

Fairness == WF_vars(Progress)

FairSpec == Spec /\ Fairness

-----------------------------------------------------------------------------
(* Properties *)

IsFrame(f) ==
  /\ f.type \in DOMAIN RequestFields \cup {"Error"}
  /\ f.id \in 0 .. Max32 - 1
  /\ f.call[1] \in Clients /\ f.call[2] \in 1 .. MaxCalls[f.call[1]]

TypeOK == ConnTypeOK(IsFrame) /\ ClientTypeOK /\ ServerTypeOK

(***************************************************************************)
(* Marshal, the stream, ReadFrame and Unmarshal together: the broker only  *)
(* executes what a client asked for, with the arguments it gave, and no    *)
(* request is rejected, whenever its names, key and value fit the lengths  *)
(* of the wire format; whatever else is under way on other connections.    *)
(***************************************************************************)
ExecutedAsSent ==
  \A c \in Clients : \A n \in 1 .. MaxCalls[c] : \A j \in DOMAIN served[c][n] :
    /\ n <= Len(asked[c])
    /\ Fits(asked[c][n]) => served[c][n][j].req = asked[c][n]

(***************************************************************************)
(* execute and handleConnection implement remote calls: at most one        *)
(* execution, and no answer that belongs to another call, although the     *)
(* client does not compare ReqID, reconnects after errors while handlers   *)
(* of old connections still run, and the process may end at any point.     *)
(***************************************************************************)
Promise == INSTANCE RemoteCall WITH
  count <- [c \in Clients |-> Len(asked[c])],
  done <- [c \in Clients |-> [n \in 1 .. MaxCalls[c] |->
             [j \in DOMAIN served[c][n] |-> served[c][n][j].res]]]

ImplementsRemoteCall == Promise!Spec

(***************************************************************************)
(* Once Stop has returned, so while and after the broker is closed, at     *)
(* most one handler runs: that of a connection which Accept had returned   *)
(* already and s.wg.Add(1) had not counted yet.                            *)
(***************************************************************************)
Running == {i \in Conns : handler[i] \in {"read", "serve", "reply"}}

StopDrains ==
  stopper \in {"close", "exit"} /\ listener = "closed" =>
    Cardinality(Running \cup IF main = "spawn" THEN {inHand} ELSE {}) <= 1

\* Every call returns, whatever happens to its connection and to the daemon:
\* execute has no timeout and relies on an answer or a closed connection.
CallsReturn == \A c \in Clients : waiting[c] ~> ~waiting[c]

\* A Stop that finds the listener ends the process, even if clients stay
\* connected for ever: wg.Wait waits for them, but Start returns.
ShutdownEnds == (stopper = "unlisten" /\ listener = "listening") ~> ~alive

\* A signal leads to a graceful shutdown: once Stop has closed the listener,
\* the process does not end before the broker is closed. It does when Start,
\* and then main, returns first.
GracefulExit == ~alive /\ listener = "closed" => ~brokerOpen
=============================================================================
