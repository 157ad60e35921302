----------------------------- MODULE MCService -----------------------------
(* Instances of Service for TLC *)
EXTENDS Service, Codec, Cli, TLC

CONSTANTS c1, c2, nil

MCClients == {c1, c2}

Req(t, a) == [type |-> t, args |-> a]

\* A name that fits, and one of Max16 bytes: it is read as an empty name, and
\* its first bytes as the length of the key.
Orders == <<2>>
Long == [i \in 1 .. Max16 |-> 2]

\* One client publishes twice, the other makes a call that is rejected.
MCCalls ==
  (c1 :> CommandRequest("produce", [key |-> <<>>], <<Orders, <<2, 1>>>>)) @@
  (c2 :> CommandRequest("produce", [key |-> <<1>>], <<Long, <<>>>>))

MCMaxCalls == (c1 :> 2) @@ (c2 :> 1)

-----------------------------------------------------------------------------
(* Inputs for the codec: every kind of message *)

\* An empty name, one whose bytes look like lengths, the longest that fits.
Names == {<<>>, <<0, 1>>, [i \in 1 .. Max16 - 1 |-> 2]}
Payloads == {<<>>, <<1, 0, 2>>}
Numbers == {0, Byte, Max32 - 1}

Requests ==
  UNION (
    {CommandRequest("produce", [key |-> k], <<t, v>>) :
       t \in Names, k \in Payloads, v \in Payloads}
    \cup {CommandRequest("fetch", [consumer |-> c, max |-> n, ackTimeout |-> -1,
                                   pollTimeout |-> 1], <<t, g>>) :
            t \in Names, g \in Names, c \in Names, n \in Numbers}
    \cup {CommandRequest(cmd, [key |-> <<>>], <<t, g, o>>) :
            cmd \in {"ack", "nack"}, t \in Names, g \in Names, o \in Numbers}
    \cup {CommandRequest(cmd, [key |-> <<>>], <<t>>) :
            cmd \in {"create-topic", "list", "ping"}, t \in Names})

Lists(S) == {<<>>} \cup {<<x>> : x \in S} \cup {<<x, y>> : x \in S, y \in S}

Responses ==
  {Req("Produce", <<o>>) : o \in Numbers}
    \cup {Req("Fetch", l) :
            l \in Lists({<<o, 1, k, v>> : o \in Numbers, k \in Payloads, v \in Payloads})}
    \cup {Req("ListTopics", l) : l \in Lists({<<t>> : t \in Names})}

-----------------------------------------------------------------------------
(* Inputs for the command line *)

Tokens ==
  {[kind |-> "addr", text |-> 0], [kind |-> "addrEq", text |-> 1],
   [kind |-> "flag", text |-> 2], [kind |-> "word", text |-> 3],
   [kind |-> "word", text |-> 4]}

CommandLines == UNION {[1 .. n -> Tokens] : n \in 1 .. 5}

\* The arguments that are -addr, and those that are its values.
ValueAt(args) ==
  LET value[i \in 1 .. Len(args)] ==
        i > 1 /\ args[i - 1].kind = "addr" /\ ~value[i - 1]
  IN  {i \in 1 .. Len(args) : value[i]}

Dangling(args) == args[Len(args)].kind = "addr" /\ Len(args) \notin ValueAt(args)

\* The arguments at the given positions, in their order.
At(args, S) ==
  LET pick == SelectSeq([i \in 1 .. Len(args) |-> i], LAMBDA i : i \in S)
  IN  [j \in 1 .. Len(pick) |-> args[pick[j]]]

-----------------------------------------------------------------------------
(***************************************************************************)
(* The service runs, or one input for the codec or the command line is     *)
(* tried: then input holds it, and nothing else happens.                   *)
(***************************************************************************)
NoInput == [kind |-> "none"]

Inputs ==
  {[kind |-> "request", msg |-> r] : r \in Requests}
    \cup {[kind |-> "response", msg |-> r] : r \in Responses}
    \cup {[kind |-> "error", msg |-> <<code, text>>] : code \in 0 .. 5, text \in Names}
    \cup {[kind |-> "args", msg |-> args] : args \in CommandLines}

\* The messages among them are ones the format can carry.
ASSUME InputsOK == \A i \in Inputs : i.kind # "args" => IsMessage(i)

MCInit == Init /\ input \in {NoInput} \cup Inputs

MCNext == input = NoInput /\ Next /\ UNCHANGED input

MCSpec == MCInit /\ [][MCNext]_<<vars, input>>

MCFairSpec ==
  MCSpec /\ WF_<<vars, input>>(input = NoInput /\ Progress /\ UNCHANGED input)

(***************************************************************************)
(* Wherever -addr stands among the arguments, rearrangeArgs and then       *)
(* fs.Parse find the same addresses in the same order, and the command     *)
(* gets all other arguments in theirs; unless -addr is the last argument   *)
(* and has no value, or there is no command to find.                       *)
(***************************************************************************)
FlagsAnywhere ==
  input.kind = "args" =>
    LET args == input.msg
        values == ValueAt(args)
        eqs == {i \in 1 .. Len(args) : args[i].kind = "addrEq"} \ values
        flags == {i \in 1 .. Len(args) : args[i].kind = "addr"} \ values
        others == At(args, 1 .. Len(args) \ (values \cup eqs \cup flags))
        given == At(args, values \cup eqs)
        found == Parse(rearrangeArgs(args))
    IN  ~Dangling(args) /\ (others # <<>> => others[1].kind = "word") =>
          /\ found.ok /\ found.rest = others
          /\ found.addrs = [j \in 1 .. Len(given) |-> given[j].text]
=============================================================================
