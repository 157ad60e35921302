------------------------------- MODULE Codec -------------------------------
(***************************************************************************)
(* One message of pkg/protocol/protocol.go, encoded and decoded: input     *)
(* holds a request, the values of a response, or those of an error.        *)
(***************************************************************************)
EXTENDS Wire

VARIABLE input

\* A message that the program may send, and that the format can carry.
IsMessage(i) ==
  CASE i.kind = "request"  -> /\ i.msg.type \in DOMAIN RequestFields
                              /\ Sendable(RequestFields[i.msg.type], i.msg.args)
    [] i.kind = "response" -> /\ i.msg.type \in DOMAIN RequestFields
                              /\ SendableResponse(i.msg.type, i.msg.args)
    [] i.kind = "error"    -> Sendable(ErrorResponse, i.msg)
    [] OTHER -> FALSE

\* What is marshalled is read back, and any part that it starts with is not read.
ReadBack(fields, vals) ==
  LET b == Marshal(fields, vals) IN
  /\ {m.val : m \in Unmarshal(fields, b, 0)} = {vals}
  /\ \A n \in 0 .. Len(b) - 1 : Unmarshal(fields, SubSeq(b, 1, n), 0) = {}

ResponseReadBack(type, val) ==
  LET b == ResponseBody(type, val) IN
  /\ {m.val : m \in ReadResponse(type, b)} = {val}
  /\ \A n \in 0 .. Len(b) - 1 : ReadResponse(type, SubSeq(b, 1, n)) = {}

(***************************************************************************)
(* Marshal and Unmarshal are inverse for requests, responses and errors    *)
(* whose lengths fit, and a body that is cut off anywhere is rejected: no  *)
(* length check of an Unmarshal is missing or one byte off.                *)
(***************************************************************************)
CodecExact ==
  /\ input.kind = "request" => ReadBack(RequestFields[input.msg.type], input.msg.args)
  /\ input.kind = "response" => ResponseReadBack(input.msg.type, input.msg.args)
  /\ input.kind = "error" => ReadBack(ErrorResponse, input.msg)
=============================================================================
