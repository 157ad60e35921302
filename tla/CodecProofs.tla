---------------------------- MODULE CodecProofs ----------------------------
(***************************************************************************)
(* Every message of the protocol, for every size of a byte, is read back   *)
(* exactly.                                                                *)
(***************************************************************************)
EXTENDS Codec, WireProofs

\* Requests, responses and errors whose lengths fit are decoded as they were
\* encoded, and every body that is cut off is rejected: for all topics, groups,
\* keys, values and numbers, and lists of any length.
THEOREM CodecExactAlways ==
  ASSUME IsMessage(input)
  PROVE  CodecExact
<1>1. ASSUME NEW fields, NEW vals, Sendable(fields, vals)
      PROVE  ReadBack(fields, vals)
  <2>1. PICK b : b = Marshal(fields, vals)
    OBVIOUS
  <2>2. /\ Unmarshal(fields, b, 0) = {[pos |-> Len(b), val |-> vals]}
        /\ \A n \in 0 .. Len(b) - 1 : Unmarshal(fields, SubSeq(b, 1, n), 0) = {}
    BY <1>1, <2>1, MarshalReadBack
  <2>3. {m.val : m \in Unmarshal(fields, b, 0)} = {vals}
    BY <2>2, OneRead
  <2> QED
    BY <2>1, <2>2, <2>3, Zenon DEF ReadBack
<1>2. CASE input.kind = "request"
  BY <1>1, <1>2 DEF CodecExact, IsMessage
<1>3. CASE input.kind = "response"
  <2> DEFINE t == input.msg.type
             v == input.msg.args
  <2>1. SendableResponse(t, v)
    BY <1>3 DEF IsMessage
  <2> SUFFICES ResponseReadBack(t, v)
    BY <1>3 DEF CodecExact
  <2> HIDE DEF t, v
  <2>2. CASE t = "Produce"
    <3>1. /\ ResponseBody(t, v) = Marshal(ProduceResponse, v)
          /\ \A b : ReadResponse(t, b) = Unmarshal(ProduceResponse, b, 0)
      BY <2>2 DEF ResponseBody, ReadResponse
    <3>2. Sendable(ProduceResponse, v)
      BY <2>1, <2>2 DEF SendableResponse
    <3>3. ReadBack(ProduceResponse, v)
      BY <1>1, <3>2
    <3>4. PICK b : b = Marshal(ProduceResponse, v)
      OBVIOUS
    <3>5. /\ {m.val : m \in Unmarshal(ProduceResponse, b, 0)} = {v}
          /\ \A n \in 0 .. Len(b) - 1 : Unmarshal(ProduceResponse, SubSeq(b, 1, n), 0) = {}
      BY <3>3, <3>4, Zenon DEF ReadBack
    <3> QED
      BY <3>1, <3>4, <3>5, Zenon DEF ResponseReadBack
  <2>3. CASE t = "Fetch"
    <3>1. /\ ResponseBody(t, v) = MarshalList(Message, v)
          /\ \A b : ReadResponse(t, b) = UnmarshalList(Message, b)
      BY <2>3 DEF ResponseBody, ReadResponse
    <3>2. SendableList(Message, v)
      BY <2>1, <2>3 DEF SendableResponse
    <3>3. PICK b : b = MarshalList(Message, v)
      OBVIOUS
    <3>4. /\ UnmarshalList(Message, b) = {[pos |-> Len(b), val |-> v]}
          /\ \A n \in 0 .. Len(b) - 1 : UnmarshalList(Message, SubSeq(b, 1, n)) = {}
      BY <3>2, <3>3, MarshalListReadBack
    <3>5. {m.val : m \in UnmarshalList(Message, b)} = {v}
      BY <3>4, OneRead
    <3> QED
      BY <3>1, <3>3, <3>4, <3>5, Zenon DEF ResponseReadBack
  <2>4. CASE t = "ListTopics"
    <3>1. /\ ResponseBody(t, v) = MarshalList(TopicName, v)
          /\ \A b : ReadResponse(t, b) = UnmarshalList(TopicName, b)
      BY <2>4 DEF ResponseBody, ReadResponse
    <3>2. SendableList(TopicName, v)
      BY <2>1, <2>4 DEF SendableResponse
    <3>3. PICK b : b = MarshalList(TopicName, v)
      OBVIOUS
    <3>4. /\ UnmarshalList(TopicName, b) = {[pos |-> Len(b), val |-> v]}
          /\ \A n \in 0 .. Len(b) - 1 : UnmarshalList(TopicName, SubSeq(b, 1, n)) = {}
      BY <3>2, <3>3, MarshalListReadBack
    <3>5. {m.val : m \in UnmarshalList(TopicName, b)} = {v}
      BY <3>4, OneRead
    <3> QED
      BY <3>1, <3>3, <3>4, <3>5, Zenon DEF ResponseReadBack
  <2>5. CASE t \notin {"Produce", "Fetch", "ListTopics"}
    <3>1. ResponseBody(t, v) = <<>> /\ \A b : ReadResponse(t, b) = From(0)
      BY <2>5 DEF ResponseBody, ReadResponse
    <3>2. v = <<>>
      BY <2>1, <2>5 DEF SendableResponse
    <3>3. {m.val : m \in From(0)} = {<<>>} /\ Len(<<>>) = 0
      BY DEF From
    <3> QED
      BY <3>1, <3>2, <3>3 DEF ResponseReadBack
  <2> QED
    BY <2>2, <2>3, <2>4, <2>5
<1>4. CASE input.kind = "error"
  BY <1>1, <1>4 DEF CodecExact, IsMessage
<1> QED
  BY <1>2, <1>3, <1>4 DEF CodecExact, IsMessage
=============================================================================
