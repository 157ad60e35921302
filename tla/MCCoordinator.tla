--------------------------- MODULE MCCoordinator ---------------------------
(***************************************************************************)
(* Instances of Coordinator for TLC: one consumed topic with its           *)
(* dead-letter topic, one or two groups, and for each run what every       *)
(* client may ask for.                                                     *)
(***************************************************************************)
EXTENDS Coordinator, TLC

CONSTANTS c1, c2, reaper, orders, dlq, g1, nil

MCClients == {c1, c2}
MCTopics == {orders, dlq}
MCConsumed == {orders}
MCDlq == [t \in {orders} |-> dlq]

Ask(op, max, poll, offset) ==
  [op |-> op, topic |-> orders, group |-> g1, max |-> max, poll |-> poll,
   offset |-> offset, value |-> 0]

Offsets == 0 .. MaxProduced - 1
ProduceReq == Ask("produce", 0, FALSE, 0)
AckReqs == {Ask("ack", 0, FALSE, o) : o \in Offsets}
NackReqs == {Ask("nack", 0, FALSE, o) : o \in Offsets}

\* Both clients long-poll; one also produces and rejects, the other acks.
LongPolls ==
  (c1 :> ({ProduceReq, Ask("fetch", 1, TRUE, 0)} \cup NackReqs)) @@
  (c2 :> ({Ask("fetch", 2, TRUE, 0)} \cup AckReqs))

\* Plain fetches; one client produces and rejects, the other fetches and acks.
ShortPolls ==
  (c1 :> ({Ask("create", 0, FALSE, 0), ProduceReq} \cup NackReqs)) @@
  (c2 :> ({Ask("fetch", 2, FALSE, 0)} \cup AckReqs))

\* One client produces and fetches, the other settles one message: few enough
\* for the state graph of the liveness check.
FewShortPolls ==
  (c1 :> {ProduceReq, Ask("fetch", 1, FALSE, 0)}) @@
  (c2 :> {Ask("nack", 0, FALSE, 0), Ask("ack", 0, FALSE, 0)})

\* One client produces while the other waits in a long poll.
ProduceAndPoll ==
  (c1 :> {ProduceReq}) @@ (c2 :> {Ask("fetch", 1, TRUE, 0)})

\* The only producer is the only one that waits; the other one rejects.
PollAndNack ==
  (c1 :> {ProduceReq, Ask("fetch", 1, TRUE, 0)}) @@
  (c2 :> ({Ask("fetch", 1, FALSE, 0)} \cup NackReqs))
=============================================================================
