-------------------------------- MODULE Cli --------------------------------
(***************************************************************************)
(* The command line of cmd/tumbleweed-cli/main.go: how the global flag     *)
(* -addr is found anywhere among the arguments, and the request that a     *)
(* command makes. Connecting, the one call, and closing are module         *)
(* Client's.                                                               *)
(***************************************************************************)
EXTENDS Integers, Wire

(***************************************************************************)
(* An argument is a record: the flag -addr, which takes the next argument  *)
(* as its value, a flag -addr=v, another flag, or a word (kind "addr",     *)
(* "addrEq", "flag", "word"), with its text as a number.                   *)
(***************************************************************************)

\* Mutant: the value of -addr is left where it is.
rearrangeArgsNoValue(args) ==
  LET from[i \in 1 .. Len(args) + 1] ==
        IF i > Len(args) THEN [flags |-> <<>>, others |-> <<>>]
        ELSE LET r == from[i + 1]
             IN  IF args[i].kind \in {"addr", "addrEq"}
                 THEN [r EXCEPT !.flags = <<args[i]>> \o @]
                 ELSE [r EXCEPT !.others = <<args[i]>> \o @]
  IN  from[1].flags \o from[1].others

\* The global flags, each with its value, and then everything else.
rearrangeArgs(args) ==
  LET from[i \in 1 .. Len(args) + 1] ==
        IF i > Len(args) THEN [flags |-> <<>>, others |-> <<>>]
        ELSE LET paired == args[i].kind = "addr" /\ i < Len(args)
                 here == SubSeq(args, i, IF paired THEN i + 1 ELSE i)
                 r == from[i + Len(here)]
             IN  IF args[i].kind \in {"addr", "addrEq"}
                 THEN [r EXCEPT !.flags = here \o @]
                 ELSE [r EXCEPT !.others = here \o @]
  IN  from[1].flags \o from[1].others

(***************************************************************************)
(* FlagSet.Parse of package flag for a set with the one flag addr: the     *)
(* values it is given and the arguments from the first word on, or an      *)
(* error.                                                                  *)
(***************************************************************************)
Parse(args) ==
  LET from[i \in 1 .. Len(args) + 1] ==
        IF i > Len(args) \/ (i <= Len(args) /\ args[i].kind = "word")
        THEN [ok |-> TRUE, addrs |-> <<>>, rest |-> SubSeq(args, i, Len(args))]
        ELSE CASE args[i].kind = "addr" /\ i < Len(args) ->
                    [from[i + 2] EXCEPT !.addrs = <<args[i + 1].text>> \o @]
               [] args[i].kind = "addrEq" ->
                    [from[i + 1] EXCEPT !.addrs = <<args[i].text>> \o @]
               [] OTHER -> [ok |-> FALSE, addrs |-> <<>>, rest |-> <<>>]
  IN  from[1]

-----------------------------------------------------------------------------
\* uint32 of an int flag, which may be negative.
Uint32(n) == n % Max32

(***************************************************************************)
(* The request of command cmd with its own flags and other arguments a, if *)
(* there are enough of them; otherwise the usage is printed. The name of a *)
(* consumer that has none is made up before.                               *)
(***************************************************************************)
CommandRequest(cmd, flags, a) ==
  LET Call(n, type, args) ==
        IF Len(a) < n THEN {} ELSE {[type |-> type, args |-> args]}
  IN  CASE cmd = "ping"         -> Call(0, "Ping", <<>>)
        [] cmd = "create-topic" -> Call(1, "CreateTopic", <<a[1]>>)
        [] cmd = "produce"      -> Call(2, "Produce", <<a[1], flags.key, a[2]>>)
        [] cmd = "fetch" ->
             Call(2, "Fetch", <<a[1], a[2], flags.consumer, Uint32(flags.max),
                                Uint32(flags.ackTimeout), Uint32(flags.pollTimeout)>>)
        [] cmd = "ack"          -> Call(3, "Ack", <<a[1], a[2], a[3]>>)
        [] cmd = "nack"         -> Call(3, "Nack", <<a[1], a[2], a[3]>>)
        [] cmd \in {"list-topics", "list", "topics"} -> Call(0, "ListTopics", <<>>)
        [] OTHER -> {}
=============================================================================
