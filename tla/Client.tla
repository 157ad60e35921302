------------------------------- MODULE Client -------------------------------
(***************************************************************************)
(* The client of pkg/client/client.go: Connect, one call at a time, Close. *)
(* A call numbers a frame, writes it, and takes the next frame it reads    *)
(* for the answer: the number of that frame is not compared. A Client is   *)
(* used by one goroutine; cmd/tumbleweed-cli connects, makes one call and  *)
(* ends, which is one of its behaviours.                                   *)
(***************************************************************************)
EXTENDS Wire, Connection

CONSTANT Calls   \* Calls[c]: the requests client c may make

ASSUME CallsOK ==
  \A c \in Clients : \A r \in Calls[c] :
    /\ r = [type |-> r.type, args |-> r.args]
    /\ r.type \in DOMAIN RequestFields
    /\ AreValues(RequestFields[r.type], r.args)

VARIABLES
  socket,     \* socket[c]: c.conn
  reqID,      \* reqID[c]: c.reqID
  waiting,    \* waiting[c]: the goroutine is in ReadFrame of execute
  asked,      \* history: asked[c] is the sequence of c's requests
  outcome     \* outcome[c]: what c's last call returned

clientVars == <<socket, reqID, waiting, asked, outcome>>

Pending == [kind |-> "pending"]
Unknown == [kind |-> "unknown"]      \* an error that is not the broker's
Answer(code, val) == [kind |-> "answer", code |-> code, val |-> val]

ClientTypeOK ==
  /\ socket \in [Clients -> Conns \cup {None}]
  /\ reqID \in [Clients -> 0 .. Max32 - 1]
  /\ waiting \in [Clients -> BOOLEAN]
  /\ \A c \in Clients : Len(asked[c]) <= MaxCalls[c]
  /\ \A c \in Clients : outcome[c].kind \in {"pending", "unknown", "answer"}

ClientInit ==
  /\ socket = [c \in Clients |-> None]
  /\ reqID = [c \in Clients |-> 0]
  /\ waiting = [c \in Clients |-> FALSE]
  /\ asked = [c \in Clients |-> <<>>]
  /\ outcome = [c \in Clients |-> Unknown]

\* A caller may connect again at any time; the connection it had is forgotten,
\* and stays open unless it was closed before. A dial that fails changes nothing.
Connect(c) ==
  LET unused == {i \in Conns : conn[i].phase = "unused"}
      fresh == CHOOSE i \in unused : TRUE
  IN
  /\ ~waiting[c] /\ Len(asked[c]) < MaxCalls[c]
  /\ listener = "listening" /\ unused # {}
  /\ conn' = [conn EXCEPT ![fresh] = Dialled(@)]
  /\ socket' = [socket EXCEPT ![c] = fresh]
  /\ UNCHANGED <<listener, reqID, waiting, asked, outcome>>

Close(c) ==
  /\ ~waiting[c] /\ socket[c] # None
  /\ conn[socket[c]].clientOpen
  /\ conn' = [conn EXCEPT ![socket[c]] = ClientClosed(@)]
  /\ UNCHANGED <<listener, clientVars>>

\* Mutant: Produce gives the value as the key and the key as the value.
RequestFrameSwapped(c, r) ==
  [type |-> r.type, id |-> (reqID[c] + 1) % Max32,
   body |-> Marshal(RequestFields[r.type],
                    IF r.type = "Produce" THEN <<r.args[1], r.args[3], r.args[2]>>
                    ELSE r.args),
   call |-> <<c, Len(asked[c]) + 1>>]

\* The request of a call; call says whose it is and is not on the wire.
RequestFrame(c, r) ==
  [type |-> r.type, id |-> (reqID[c] + 1) % Max32,
   body |-> Marshal(RequestFields[r.type], r.args),
   call |-> <<c, Len(asked[c]) + 1>>]

(***************************************************************************)
(* execute up to its ReadFrame. WriteFrame fails if this end is closed,    *)
(* and may or may not notice that the other one is. (Before Connect there  *)
(* is no connection to write to, and a call would panic.)                  *)
(***************************************************************************)
Execute(c, r) ==
  LET i == socket[c] IN
  /\ ~waiting[c] /\ i # None /\ Len(asked[c]) < MaxCalls[c]
  /\ asked' = [asked EXCEPT ![c] = Append(@, r)]
  /\ reqID' = [reqID EXCEPT ![c] = (@ + 1) % Max32]
  /\ \/ /\ ~ClientGone(i)
        /\ conn' = [conn EXCEPT ![i] = SentUp(@, RequestFrame(c, r))]
        /\ waiting' = [waiting EXCEPT ![c] = TRUE]
        /\ outcome' = [outcome EXCEPT ![c] = Pending]
     \/ /\ ClientGone(i) \/ ServerGone(i)
        /\ outcome' = [outcome EXCEPT ![c] = Unknown]
        /\ UNCHANGED <<conn, waiting>>
  /\ UNCHANGED <<listener, socket>>

\* What the call makes of a response frame.
Interpret(type, f) ==
  LET answers ==
        CASE f.type = "Error" ->
               {Answer(e.val[1], <<>>) : e \in Unmarshal(ErrorResponse, f.body, 0)}
          [] f.type = type ->
               {Answer(0, v.val) : v \in ReadResponse(type, f.body)}
          [] OTHER -> {}
  IN  IF answers = {} THEN Unknown ELSE CHOOSE a \in answers : TRUE

\* Mutant: the call gives up after a while and leaves the connection in use.
ReceiveGivingUp(c) ==
  /\ waiting[c]
  /\ LET i == socket[c]
         type == asked[c][Len(asked[c])].type
     IN  \/ /\ conn[i].down # <<>>
            /\ outcome' = [outcome EXCEPT ![c] = Interpret(type, Head(conn[i].down))]
            /\ conn' = [conn EXCEPT ![i].down = Tail(@)]
         \/ /\ outcome' = [outcome EXCEPT ![c] = Unknown]
            /\ UNCHANGED conn
  /\ waiting' = [waiting EXCEPT ![c] = FALSE]
  /\ UNCHANGED <<listener, socket, reqID, asked>>

\* The rest of a call: ReadFrame returns a frame, or an error.
Receive(c) ==
  /\ waiting[c]
  /\ LET i == socket[c]
         type == asked[c][Len(asked[c])].type
     IN  \/ /\ conn[i].down # <<>>
            /\ outcome' = [outcome EXCEPT ![c] = Interpret(type, Head(conn[i].down))]
            /\ conn' = [conn EXCEPT ![i].down = Tail(@)]
         \/ /\ conn[i].down = <<>> /\ ServerGone(i)
            /\ outcome' = [outcome EXCEPT ![c] = Unknown]
            /\ UNCHANGED conn
  /\ waiting' = [waiting EXCEPT ![c] = FALSE]
  /\ UNCHANGED <<listener, socket, reqID, asked>>

ClientNext(c) ==
  \/ Connect(c)
  \/ Close(c)
  \/ \E r \in Calls[c] : Execute(c, r)
  \/ Receive(c)
=============================================================================
