-------------------------------- MODULE Wire --------------------------------
(***************************************************************************)
(* The wire format of pkg/protocol/protocol.go: how requests and responses *)
(* become the bodies of frames, and what Unmarshal reads out of a body.    *)
(* A body is a sequence of bytes; the number of values of a byte is a      *)
(* parameter, so that a length of two bytes overflows early. It is written *)
(* modulo its width: a name that is too long is read back as something     *)
(* else, and its bytes are taken for the fields that follow. Bodies are    *)
(* shorter than Max32, so the length in a frame's header, which is left    *)
(* out, is that of its body.                                               *)
(***************************************************************************)
EXTENDS Naturals, Sequences

CONSTANT Byte   \* how many values a byte has: 256

\* The messages of the models are made of the bytes 0, 1 and 2.
ASSUME ByteOK == Byte \in Nat \ {0, 1, 2}

Max16 == Byte * Byte
Max32 == Max16 * Max16

-----------------------------------------------------------------------------
(* Fields: numbers of 2, 4 and 8 bytes; names and byte strings with a length *)

Width == [u16 |-> 2, u32 |-> 4, u64 |-> 8, name |-> 2, bytes |-> 4]

Kinds == DOMAIN Width

Counted == {"name", "bytes"}

\* How many numbers, or lengths, a field of each kind can hold.
Limit == [u16 |-> Max16, u32 |-> Max32, u64 |-> Max32 * Max32,
          name |-> Max16, bytes |-> Max32]

\* binary.BigEndian: v, v >> 8, v >> 16, ..., the last byte of each, and the
\* number that bytes stand for.
PutUint(v, w) ==
  LET shifted[i \in 0 .. w] == IF i = 0 THEN v ELSE shifted[i - 1] \div Byte
  IN  [i \in 1 .. w |-> shifted[w - i] % Byte]

Uint(b) ==
  LET read[i \in 0 .. Len(b)] == IF i = 0 THEN 0 ELSE read[i - 1] * Byte + b[i]
  IN  read[Len(b)]

\* What a field holds in the program, and that its width can hold it.
IsValue(kind, v) == IF kind \in Counted THEN v \in Seq(0 .. Byte - 1) ELSE v \in Nat

FieldFits(kind, v) == (IF kind \in Counted THEN Len(v) ELSE v) < Limit[kind]

Put(kind, v) ==
  IF kind \in Counted THEN PutUint(Len(v), Width[kind]) \o v
  ELSE PutUint(v, Width[kind])

\* Mutant: a name or byte string that is cut off is taken as it is.
GetCutOff(kind, body, r) ==
  LET w == Width[kind]
      n == Uint(SubSeq(body, r.pos + 1, r.pos + w))
      full == r.pos + w + IF kind \in Counted THEN n ELSE 0
      end == IF full > Len(body) THEN Len(body) ELSE full
      v == IF kind \in Counted THEN SubSeq(body, r.pos + w + 1, end) ELSE n
  IN
  IF r.pos + w > Len(body) THEN {}
  ELSE {[pos |-> end, val |-> Append(r.val, v)]}

\* A reading r is a position in the body and the values read before it. The
\* reading after one more field: no such reading if the body is too short.
Get(kind, body, r) ==
  LET w == Width[kind]
      n == Uint(SubSeq(body, r.pos + 1, r.pos + w))
      end == r.pos + w + IF kind \in Counted THEN n ELSE 0
      v == IF kind \in Counted THEN SubSeq(body, r.pos + w + 1, end) ELSE n
  IN
  IF r.pos + w > Len(body) \/ end > Len(body) THEN {}
  ELSE {[pos |-> end, val |-> Append(r.val, v)]}

From(p) == {[pos |-> p, val |-> <<>>]}

-----------------------------------------------------------------------------
(* Bodies: a sequence of fields, or a count and so many of such sequences.   *)
(* Unmarshal yields one reading, or none if the body is malformed.           *)

Marshal(fields, vals) ==
  LET written[i \in 0 .. Len(fields)] ==
        IF i = 0 THEN <<>> ELSE written[i - 1] \o Put(fields[i], vals[i])
  IN  written[Len(fields)]

MarshalList(fields, items) ==
  LET written[i \in 0 .. Len(items)] ==
        IF i = 0 THEN PutUint(Len(items), 4)
        ELSE written[i - 1] \o Marshal(fields, items[i])
  IN  written[Len(items)]

Unmarshal(fields, body, p) ==
  LET read[i \in 0 .. Len(fields)] ==
        IF i = 0 THEN From(p)
        ELSE UNION {Get(fields[i], body, r) : r \in read[i - 1]}
  IN  read[Len(fields)]

\* One more item of a list.
GetItem(fields, body, r) ==
  {[pos |-> m.pos, val |-> Append(r.val, m.val)] : m \in Unmarshal(fields, body, r.pos)}

\* n of them, from position p on.
UnmarshalItems(fields, body, p, n) ==
  LET read[i \in 0 .. n] ==
        IF i = 0 THEN From(p)
        ELSE UNION {GetItem(fields, body, r) : r \in read[i - 1]}
  IN  read[n]

UnmarshalList(fields, body) ==
  UNION {UnmarshalItems(fields, body, c.pos, c.val[1]) :
           c \in Unmarshal(<<"u32">>, body, 0)}

\* One value for each field, and that all of them fit.
AreValues(fields, vals) ==
  /\ vals = [i \in 1 .. Len(fields) |-> vals[i]]
  /\ \A i \in 1 .. Len(fields) : IsValue(fields[i], vals[i])

AllFit(fields, vals) == \A i \in 1 .. Len(fields) : FieldFits(fields[i], vals[i])

\* Messages that the format can carry, and lists of them.
Sendable(fields, vals) ==
  fields \in Seq(Kinds) /\ AreValues(fields, vals) /\ AllFit(fields, vals)

SendableList(fields, items) ==
  /\ items = [i \in 1 .. Len(items) |-> items[i]]
  /\ Len(items) \in Nat /\ Len(items) < Max32
  /\ fields \in Seq(Kinds)
  /\ \A i \in 1 .. Len(items) : Sendable(fields, items[i])

-----------------------------------------------------------------------------
(* The messages: what Marshal writes, and Unmarshal reads, in this order *)

ProduceRequest == <<"name", "bytes", "bytes">>      \* topic, key, value

ProduceResponse == <<"u64">>                        \* offset

\* Topic, group, consumer; MaxMessages, AckTimeoutMs, LongPollTimeoutMs.
FetchRequest == <<"name", "name", "name", "u32", "u32", "u32">>

Message == <<"u64", "u64", "bytes", "bytes">>       \* offset, time, key, value

AckRequest == <<"name", "name", "u64">>             \* topic, group, offset

NackRequest == <<"name", "name", "u64">>

CreateTopicRequest == <<"name">>

ErrorResponse == <<"u16", "name">>                  \* code, message

TopicName == <<"name">>                             \* of ListTopicsResponse

RequestFields ==
  [Ping |-> <<>>, Produce |-> ProduceRequest, Fetch |-> FetchRequest,
   Ack |-> AckRequest, Nack |-> NackRequest,
   CreateTopic |-> CreateTopicRequest, ListTopics |-> <<>>]

\* The body of the response to a request of this type.
ResponseBody(type, val) ==
  CASE type = "Produce"    -> Marshal(ProduceResponse, val)
    [] type = "Fetch"      -> MarshalList(Message, val)
    [] type = "ListTopics" -> MarshalList(TopicName, val)
    [] OTHER               -> <<>>

ReadResponse(type, body) ==
  CASE type = "Produce"    -> Unmarshal(ProduceResponse, body, 0)
    [] type = "Fetch"      -> UnmarshalList(Message, body)
    [] type = "ListTopics" -> UnmarshalList(TopicName, body)
    [] OTHER               -> From(0)

SendableResponse(type, val) ==
  CASE type = "Produce"    -> Sendable(ProduceResponse, val)
    [] type = "Fetch"      -> SendableList(Message, val)
    [] type = "ListTopics" -> SendableList(TopicName, val)
    [] OTHER               -> val = <<>>

\* Every length and every number of the request fits its width.
Fits(r) == AllFit(RequestFields[r.type], r.args)
=============================================================================
