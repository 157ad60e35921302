------------------------------- MODULE Server -------------------------------
(***************************************************************************)
(* The TCP server of pkg/server/server.go in the daemon of                 *)
(* cmd/tumbleweed/main.go: the accept loop in the main goroutine, one      *)
(* handler per connection, and the goroutine that waits for a signal,      *)
(* stops the server, closes the broker and exits. The process ends with    *)
(* the first of the two that gets there. The broker is seen from outside:  *)
(* a request is executed in one step with any result the broker may        *)
(* return; what happens inside is module Coordinator's.                    *)
(***************************************************************************)
EXTENDS Wire, Connection, FiniteSets

VARIABLES
  alive,       \* the process runs
  main,        \* the main goroutine: "start", "accept", "spawn", "exited"
  inHand,      \* the connection that Accept returned last
  handler,     \* handler[i]: "none", "read", "serve", "reply", "done"
  frame,       \* frame[i]: the frame the handler has read, or will write
  wg,          \* the counter of s.wg
  closed,      \* s.closed
  stopper,     \* the signal goroutine: "idle", "unlisten", "wait", "close",
               \* "exit", "exited"
  brokerOpen,  \* Broker.Close has not run
  served       \* history: served[c][n] is what was done for c's n-th request

serverVars == <<alive, main, inHand, handler, frame, wg, closed, stopper,
                brokerOpen, served>>

NoFrame == [type |-> "none"]
Nothing == [type |-> "none", args |-> <<>>]

ServerTypeOK ==
  /\ {alive, closed, brokerOpen} \subseteq BOOLEAN
  /\ main \in {"start", "accept", "spawn", "exited"}
  /\ main = "spawn" => inHand \in Conns
  /\ handler \in [Conns -> {"none", "read", "serve", "reply", "done"}]
  /\ wg \in Nat
  /\ stopper \in {"idle", "unlisten", "wait", "close", "exit", "exited"}

ServerInit ==
  /\ alive = TRUE
  /\ main = "start"
  /\ inHand = None
  /\ handler = [i \in Conns |-> "none"]
  /\ frame = [i \in Conns |-> NoFrame]
  /\ wg = 0
  /\ closed = FALSE
  /\ stopper = "idle"
  /\ brokerOpen = TRUE
  /\ served = [c \in Clients |-> [n \in 1 .. MaxCalls[c] |-> <<>>]]

\* main returns, or os.Exit: every goroutine ends where it is, nothing that it
\* had is left, and the kernel closes the sockets.
ExitProcess ==
  /\ alive' = FALSE
  /\ listener' = IF listener = "listening" THEN "closed" ELSE listener
  /\ conn' = Orphaned
  /\ main' = "exited" /\ stopper' = "exited"
  /\ inHand' = None /\ wg' = 0
  /\ handler' = [i \in Conns |-> "none"]
  /\ frame' = [i \in Conns |-> NoFrame]
  /\ UNCHANGED <<closed, brokerOpen, served>>

-----------------------------------------------------------------------------
(* Start, in the main goroutine *)

\* If the address cannot be listened on, Start returns an error and main exits.
Listen ==
  /\ alive /\ main = "start"
  /\ \/ ExitProcess
     \/ /\ listener' = "listening"
        /\ main' = "accept"
        /\ UNCHANGED <<conn, alive, inHand, handler, frame, wg, closed, stopper,
                       brokerOpen, served>>

Accept(i) ==
  /\ alive /\ main = "accept"
  /\ listener = "listening" /\ conn[i].phase = "backlog"
  /\ conn' = [conn EXCEPT ![i] = Accepted(@)]
  /\ inHand' = i
  /\ main' = "spawn"
  /\ UNCHANGED <<listener, alive, handler, frame, wg, closed, stopper,
                 brokerOpen, served>>

\* Mutant: the handler is not counted.
SpawnUncounted ==
  /\ alive /\ main = "spawn"
  /\ handler' = [handler EXCEPT ![inHand] = "read"]
  /\ main' = "accept" /\ inHand' = None
  /\ UNCHANGED <<connVars, alive, frame, wg, closed, stopper, brokerOpen,
                 served>>

\* s.wg.Add(1) and the go statement.
Spawn ==
  /\ alive /\ main = "spawn"
  /\ wg' = wg + 1
  /\ handler' = [handler EXCEPT ![inHand] = "read"]
  /\ main' = "accept" /\ inHand' = None
  /\ UNCHANGED <<connVars, alive, frame, closed, stopper, brokerOpen,
                 served>>

\* Accept fails, because the listener is closed or for a reason that passes,
\* and the loop goes on unless s.closed is set by the time it looks: then
\* Start returns nil, and main after it. (A passing error just before Stop
\* closes the listener has the effect of one just after.)
AcceptFails ==
  /\ alive /\ main = "accept"
  /\ closed /\ stopper # "unlisten"
  /\ ExitProcess

-----------------------------------------------------------------------------
(* handleConnection *)

\* conn.Close() and s.wg.Done() when the handler returns.
EndHandler(i) ==
  /\ conn' = [conn EXCEPT ![i] = ServerClosed(@)]
  /\ wg' = wg - 1
  /\ handler' = [handler EXCEPT ![i] = "done"]

ReadFrame(i) ==
  /\ alive /\ handler[i] = "read"
  /\ \/ /\ conn[i].up # <<>>
        /\ frame' = [frame EXCEPT ![i] = Head(conn[i].up)]
        /\ conn' = [conn EXCEPT ![i].up = Tail(@)]
        /\ handler' = [handler EXCEPT ![i] = "serve"]
        /\ UNCHANGED wg
     \/ /\ conn[i].up = <<>> /\ ClientGone(i)
        /\ EndHandler(i)
        /\ UNCHANGED frame
  /\ UNCHANGED <<listener, alive, main, inHand, closed, stopper, brokerOpen, served>>

\* The error codes, less 1000.
TopicNotFound == 1
InvalidPayload == 3
InternalError == 4
LeaseExpired == 5

Result(code, val) == [code |-> code, val |-> val]

\* What the broker may return; the number tells one execution from another.
Results(type, n) ==
  CASE type = "Produce" ->
         {Result(0, <<n>>), Result(InternalError, <<>>)}
    [] type = "Fetch" ->
         {Result(0, <<>>), Result(0, << <<n, 1, <<>>, <<2>> >> >>),
          Result(TopicNotFound, <<>>), Result(InternalError, <<>>)}
    [] type \in {"Ack", "Nack"} ->
         {Result(0, <<>>), Result(LeaseExpired, <<>>),
          Result(TopicNotFound, <<>>), Result(InternalError, <<>>)}
    [] type = "CreateTopic" ->
         {Result(0, <<>>), Result(InternalError, <<>>)}
    [] type = "ListTopics" ->
         {Result(0, <<>>), Result(0, << <<PutUint(n, 8)>>, << <<1, 2>> >> >>)}
    [] OTHER -> {Result(0, <<>>)}

\* A result as a frame; the text of an error is one byte.
ResponseFrame(f, r) ==
  [type |-> IF r.code = 0 THEN f.type ELSE "Error", id |-> f.id,
   body |-> IF r.code = 0 THEN ResponseBody(f.type, r.val)
            ELSE Marshal(ErrorResponse, <<r.code, <<0>>>>),
   call |-> f.call]

\* The requests executed so far.
Executions ==
  UNION {{<<c, n>> : n \in {m \in 1 .. MaxCalls[c] : served[c][m] # <<>>}} : c \in Clients}

\* The handler will answer f with r, having executed q.
Answers(i, f, q, r) ==
  /\ served' = [served EXCEPT ![f.call[1]][f.call[2]] =
                  Append(@, [req |-> q, res |-> r])]
  /\ frame' = [frame EXCEPT ![i] = ResponseFrame(f, r)]
  /\ handler' = [handler EXCEPT ![i] = "reply"]

\* Mutant: a request that cannot be read is logged and not answered.
ProcessFrameSilent(i) ==
  LET f == frame[i]
      reading == Unmarshal(RequestFields[f.type], f.body, 0)
  IN
  /\ alive /\ handler[i] = "serve"
  /\ \/ \E q \in reading : \E r \in Results(f.type, Cardinality(Executions)) :
          Answers(i, f, [type |-> f.type, args |-> q.val], r)
     \/ /\ reading = {}
        /\ handler' = [handler EXCEPT ![i] = "read"]
        /\ UNCHANGED <<frame, served>>
  /\ UNCHANGED <<connVars, alive, main, inHand, wg, closed, stopper, brokerOpen>>

\* Clients send no other types of request, for which there is an error too.
ProcessFrame(i) ==
  LET f == frame[i]
      reading == Unmarshal(RequestFields[f.type], f.body, 0)
  IN
  /\ alive /\ handler[i] = "serve"
  /\ \/ \E q \in reading : \E r \in Results(f.type, Cardinality(Executions)) :
          Answers(i, f, [type |-> f.type, args |-> q.val], r)
     \/ /\ reading = {}
        /\ Answers(i, f, Nothing, Result(InvalidPayload, <<>>))
  /\ UNCHANGED <<connVars, alive, main, inHand, wg, closed, stopper, brokerOpen>>

\* WriteFrame fails on a reset, and may do so when the client is gone.
WriteFrame(i) ==
  /\ alive /\ handler[i] = "reply"
  /\ \/ /\ conn[i].phase # "reset"
        /\ conn' = [conn EXCEPT ![i] = SentDown(@, frame[i])]
        /\ handler' = [handler EXCEPT ![i] = "read"]
        /\ UNCHANGED wg
     \/ /\ ClientGone(i)
        /\ EndHandler(i)
  /\ frame' = [frame EXCEPT ![i] = NoFrame]
  /\ UNCHANGED <<listener, alive, main, inHand, closed, stopper, brokerOpen, served>>

-----------------------------------------------------------------------------
(* The signal goroutine: Stop, then Broker.Close, then os.Exit(0) *)

StopperAt(here, there) ==
  /\ alive /\ stopper = here
  /\ stopper' = there

\* The signal arrives and Stop sets s.closed.
Signal ==
  /\ StopperAt("idle", "unlisten")
  /\ closed' = TRUE
  /\ UNCHANGED <<connVars, alive, main, inHand, handler, frame, wg, brokerOpen,
                 served>>

\* Mutant: the listener stays open.
StopListenerNot ==
  /\ StopperAt("unlisten", "wait")
  /\ UNCHANGED <<connVars, alive, main, inHand, handler, frame, wg, closed,
                 brokerOpen, served>>

\* A signal that comes before Start listens finds no listener to close. (Stop
\* reads s.listener without the lock. A read that misses the store which Start
\* has just made is this same step, taken before Listen.)
StopListener ==
  /\ StopperAt("unlisten", "wait")
  /\ \/ /\ listener = "listening"
        /\ listener' = "closed"
        /\ conn' = WithoutBacklog
     \/ /\ listener = "none"
        /\ UNCHANGED connVars
  /\ UNCHANGED <<alive, main, inHand, handler, frame, wg, closed, brokerOpen,
                 served>>

\* Mutant: the handlers are not waited for.
StopNoWait ==
  /\ StopperAt("wait", "close")
  /\ UNCHANGED <<connVars, alive, main, inHand, handler, frame, wg, closed,
                 brokerOpen, served>>

\* s.wg.Wait(): the connections themselves are left alone.
StopWait ==
  /\ StopperAt("wait", "close")
  /\ wg = 0
  /\ UNCHANGED <<connVars, alive, main, inHand, handler, frame, wg, closed,
                 brokerOpen, served>>

CloseBroker ==
  /\ StopperAt("close", "exit")
  /\ brokerOpen' = FALSE
  /\ UNCHANGED <<connVars, alive, main, inHand, handler, frame, wg, closed, served>>

Exit ==
  /\ alive /\ stopper = "exit"
  /\ ExitProcess

-----------------------------------------------------------------------------
\* Nothing makes Accept fail as long as the listener is open.
StartStep ==
  \/ Listen
  \/ \E i \in Conns : Accept(i)
  \/ Spawn
  \/ AcceptFails /\ listener = "closed"

HandlerStep(i) == ReadFrame(i) \/ ProcessFrame(i) \/ WriteFrame(i)

StopStep == StopListener \/ StopWait \/ CloseBroker \/ Exit

ServerNext ==
  \/ StartStep
  \/ AcceptFails
  \/ \E i \in Conns : HandlerStep(i)
  \/ Signal
  \/ StopStep
=============================================================================
