--------------------------- MODULE ServiceProofs ---------------------------
(***************************************************************************)
(* The daemon and its clients, for every instance of Service: types, the   *)
(* count of the running handlers, what a handler executes, and that they   *)
(* implement RemoteCall: a call is executed at most once, and one that     *)
(* returns an answer returns its own, although ReqID is never compared.    *)
(***************************************************************************)
EXTENDS Service, WireProofs, FiniteSetTheorems, SequenceTheorems

-----------------------------------------------------------------------------
(* The codec at work between the two *)

\* What Unmarshal makes of the body of request r.
Reading(r) == Unmarshal(RequestFields[r.type], Marshal(RequestFields[r.type], r.args), 0)

\* What the broker may return for a request of this type.
Possible(type) ==
  {Result(InvalidPayload, <<>>)}
    \cup UNION {Results(type, Cardinality(E)) : E \in SUBSET AllCalls}

\* The fields of the requests.
LEMMA RequestKinds ==
  ASSUME NEW t \in DOMAIN RequestFields
  PROVE  RequestFields[t] \in Seq(Kinds)
<1>1. {"u16", "u32", "u64", "name", "bytes"} = Kinds
  BY DEF Kinds, Width
<1>2. t \in {"Ping", "Produce", "Fetch", "Ack", "Nack", "CreateTopic", "ListTopics"}
  BY DEF RequestFields
<1>3. RequestFields[t] \in {<<>>, ProduceRequest, FetchRequest, AckRequest, NackRequest, CreateTopicRequest}
  BY <1>2 DEF RequestFields
<1>4. /\ <<>> \in Seq(Kinds) /\ ProduceRequest \in Seq(Kinds) /\ FetchRequest \in Seq(Kinds)
      /\ AckRequest \in Seq(Kinds) /\ NackRequest \in Seq(Kinds)
      /\ CreateTopicRequest \in Seq(Kinds)
  BY <1>1 DEF ProduceRequest, FetchRequest, AckRequest, NackRequest, CreateTopicRequest
<1> QED
  BY <1>3, <1>4

\* A request that fits is read back by the handler.
LEMMA RequestReadBack ==
  ASSUME NEW c \in Clients, NEW r \in Calls[c], Fits(r)
  PROVE  {m.val : m \in Reading(r)} = {r.args}
<1>1. PICK fields : fields = RequestFields[r.type]
  OBVIOUS
<1>2. Sendable(fields, r.args)
  BY <1>1, CallsOK, RequestKinds DEF Sendable, Fits
<1>3. Reading(r) = {[pos |-> Len(Marshal(fields, r.args)), val |-> r.args]}
  BY <1>1, <1>2, MarshalReadBack DEF Reading
<1> QED
  BY <1>3, OneRead

\* Squares of numbers above 8.
LEMMA SquareAbove == \A b \in Nat : b > 8 => b * b \in Nat /\ b * b > 8
<1> SUFFICES ASSUME NEW b \in Nat, b > 8 PROVE b * b \in Nat /\ b * b > 8
  OBVIOUS
<1>1. b * b \in Nat /\ b * b >= b
  OBVIOUS
<1> QED
  BY <1>1

\* Numbers of two, four and eight bytes.
LEMMA SizesAre ==
  /\ Max16 \in Nat /\ Max16 > 8
  /\ Max32 \in Nat /\ Max32 > 8 /\ Max32 = Max16 * Max16
  /\ Max32 * Max32 \in Nat /\ Max32 * Max32 > 8
<1>1. \A b \in Nat \ {0, 1, 2} : b * b \in Nat /\ b * b > 8
  <2> SUFFICES ASSUME NEW b \in Nat \ {0, 1, 2} PROVE b * b \in Nat /\ b * b > 8
    OBVIOUS
  <2>1. b * b \in Nat /\ b * b >= 3 * b /\ 3 * b >= 9
    OBVIOUS
  <2>2. PICK m \in Nat : m = b * b
    BY <2>1
  <2> QED
    BY <2>1, <2>2
<1>2. Max16 \in Nat /\ Max16 > 8
  BY <1>1, ByteOK DEF Max16
<1>3. Max32 = Max16 * Max16
  BY DEF Max32
<1>4. Max32 \in Nat /\ Max32 > 8
  BY <1>2, <1>3, SquareAbove
<1> QED
  BY <1>2, <1>3, <1>4, SquareAbove

\* What fits the fields that responses have.
LEMMA FieldsFit ==
  /\ \A n \in Nat : n < Max32 * Max32 => IsValue("u64", n) /\ FieldFits("u64", n)
  /\ IsValue("u64", 1) /\ FieldFits("u64", 1)
  /\ \A n \in 0 .. 5 : IsValue("u16", n) /\ FieldFits("u16", n)
  /\ \A s \in Seq(Bytes) : Len(s) <= 8 =>
       /\ IsValue("name", s) /\ FieldFits("name", s)
       /\ IsValue("bytes", s) /\ FieldFits("bytes", s)
<1>1. Max16 \in Nat /\ Max16 > 8
  BY SizesAre
<1>3. Max32 \in Nat /\ Max32 > 8
  BY SizesAre
<1>4. Max32 * Max32 \in Nat /\ Max32 * Max32 > 8
  BY SizesAre
<1>5. Limit["u64"] = Max32 * Max32 /\ Limit["u16"] = Max16 /\ Limit["name"] = Max16 /\ Limit["bytes"] = Max32
  BY DEF Limit
<1>6. "u64" \notin Counted /\ "u16" \notin Counted /\ "name" \in Counted /\ "bytes" \in Counted
  BY DEF Counted
<1> HIDE ByteOK
<1>7. \A n \in Nat : n < Max32 * Max32 => IsValue("u64", n) /\ FieldFits("u64", n)
  BY <1>5, <1>6 DEF IsValue, FieldFits
<1>8. \A n \in 0 .. 5 : IsValue("u16", n) /\ FieldFits("u16", n)
  BY <1>1, <1>5, <1>6 DEF IsValue, FieldFits
<1>9. \A s \in Seq(Bytes) : Len(s) <= 8 => IsValue("name", s) /\ FieldFits("name", s)
  BY <1>1, <1>5, <1>6 DEF IsValue, FieldFits, Bytes
<1>10. \A s \in Seq(Bytes) : Len(s) <= 8 => IsValue("bytes", s) /\ FieldFits("bytes", s)
  BY <1>3, <1>5, <1>6 DEF IsValue, FieldFits, Bytes
<1>11. 1 < Max32 * Max32
  BY <1>4
<1> QED
  BY <1>7, <1>8, <1>9, <1>10, <1>11

\* Values for one field, for two and for four.
LEMMA SendableTuples ==
  /\ \A k \in Kinds : \A v : IsValue(k, v) /\ FieldFits(k, v) => Sendable(<<k>>, <<v>>)
  /\ \A k, l \in Kinds : \A v, w :
       IsValue(k, v) /\ FieldFits(k, v) /\ IsValue(l, w) /\ FieldFits(l, w)
         => Sendable(<<k, l>>, <<v, w>>)
  /\ \A k, l \in Kinds : \A v1, v2, w1, w2 :
       /\ IsValue(k, v1) /\ FieldFits(k, v1) /\ IsValue(k, v2) /\ FieldFits(k, v2)
       /\ IsValue(l, w1) /\ FieldFits(l, w1) /\ IsValue(l, w2) /\ FieldFits(l, w2)
       => Sendable(<<k, k, l, l>>, <<v1, v2, w1, w2>>)
<1>1. ASSUME NEW k \in Kinds, NEW v, IsValue(k, v), FieldFits(k, v)
      PROVE  Sendable(<<k>>, <<v>>)
  <2> DEFINE f == <<k>>
             x == <<v>>
  <2>1. f \in Seq(Kinds) /\ Len(f) = 1 /\ f[1] = k
    OBVIOUS
  <2>2. x = [i \in 1 .. 1 |-> x[i]] /\ x[1] = v
    OBVIOUS
  <2> HIDE DEF f, x
  <2>3. \A i \in 1 .. 1 : IsValue(f[i], x[i]) /\ FieldFits(f[i], x[i])
    BY <1>1, <2>1, <2>2
  <2>4. Sendable(f, x)
    BY <2>1, <2>2, <2>3 DEF Sendable, AreValues, AllFit
  <2> QED
    BY <2>4 DEF f, x
<1>2. ASSUME NEW k \in Kinds, NEW l \in Kinds, NEW v, NEW w,
             IsValue(k, v), FieldFits(k, v), IsValue(l, w), FieldFits(l, w)
      PROVE  Sendable(<<k, l>>, <<v, w>>)
  <2> DEFINE f == <<k, l>>
             x == <<v, w>>
  <2>1. f \in Seq(Kinds) /\ Len(f) = 2 /\ f[1] = k /\ f[2] = l
    OBVIOUS
  <2>2. x = [i \in 1 .. 2 |-> x[i]] /\ x[1] = v /\ x[2] = w
    OBVIOUS
  <2> HIDE DEF f, x
  <2>3. \A i \in 1 .. 2 : IsValue(f[i], x[i]) /\ FieldFits(f[i], x[i])
    BY <1>2, <2>1, <2>2
  <2>4. Sendable(f, x)
    BY <2>1, <2>2, <2>3 DEF Sendable, AreValues, AllFit
  <2> QED
    BY <2>4 DEF f, x
<1>3. ASSUME NEW k \in Kinds, NEW l \in Kinds, NEW v1, NEW v2, NEW w1, NEW w2,
             IsValue(k, v1), FieldFits(k, v1), IsValue(k, v2), FieldFits(k, v2),
             IsValue(l, w1), FieldFits(l, w1), IsValue(l, w2), FieldFits(l, w2)
      PROVE  Sendable(<<k, k, l, l>>, <<v1, v2, w1, w2>>)
  <2> DEFINE f == <<k, k, l, l>>
             x == <<v1, v2, w1, w2>>
  <2>1. f \in Seq(Kinds) /\ Len(f) = 4 /\ f[1] = k /\ f[2] = k /\ f[3] = l /\ f[4] = l
    OBVIOUS
  <2>2. x = [i \in 1 .. 4 |-> x[i]] /\ x[1] = v1 /\ x[2] = v2 /\ x[3] = w1 /\ x[4] = w2
    OBVIOUS
  <2> HIDE DEF f, x
  <2>3. \A i \in 1 .. 4 : IsValue(f[i], x[i]) /\ FieldFits(f[i], x[i])
    BY <1>3, <2>1, <2>2
  <2>4. Sendable(f, x)
    BY <2>1, <2>2, <2>3 DEF Sendable, AreValues, AllFit
  <2> QED
    BY <2>4 DEF f, x
<1> QED
  BY <1>1, <1>2, <1>3, ZenonT(60)

\* A list of no items, one and two.
LEMMA SendableLists ==
  ASSUME NEW F \in Seq(Kinds)
  PROVE  /\ SendableList(F, <<>>)
         /\ \A v : Sendable(F, v) => SendableList(F, <<v>>)
         /\ \A v, w : Sendable(F, v) /\ Sendable(F, w) => SendableList(F, <<v, w>>)
<1>0. 2 < Max32
  <2>1. 8 < Max16 /\ Max16 \in Nat
    BY SizesAre
  <2>2. \A b \in Nat : b > 8 => b * b > 8
    BY SquareAbove
  <2> QED
    BY <2>1, <2>2, SizesAre
<1>1. SendableList(F, <<>>)
  <2> DEFINE x == <<>>
  <2>1. x = [i \in 1 .. 0 |-> x[i]] /\ Len(x) = 0
    OBVIOUS
  <2> HIDE DEF x
  <2>2. SendableList(F, x)
    BY <1>0, <2>1, SizesAre DEF SendableList
  <2> QED
    BY <2>2 DEF x
<1>2. ASSUME NEW v, Sendable(F, v)
      PROVE  SendableList(F, <<v>>)
  <2> DEFINE x == <<v>>
  <2>1. x = [i \in 1 .. 1 |-> x[i]] /\ Len(x) = 1 /\ x[1] = v
    OBVIOUS
  <2> HIDE DEF x
  <2>2. \A i \in 1 .. 1 : Sendable(F, x[i])
    BY <1>2, <2>1
  <2>3. SendableList(F, x)
    BY <1>0, <2>1, <2>2, SizesAre DEF SendableList
  <2> QED
    BY <2>3 DEF x
<1>3. ASSUME NEW v, NEW w, Sendable(F, v), Sendable(F, w)
      PROVE  SendableList(F, <<v, w>>)
  <2> DEFINE x == <<v, w>>
  <2>1. x = [i \in 1 .. 2 |-> x[i]] /\ Len(x) = 2 /\ x[1] = v /\ x[2] = w
    OBVIOUS
  <2> HIDE DEF x
  <2>2. \A i \in 1 .. 2 : Sendable(F, x[i])
    BY <1>3, <2>1
  <2>3. SendableList(F, x)
    BY <1>0, <2>1, <2>2, SizesAre DEF SendableList
  <2> QED
    BY <2>3 DEF x
<1> QED
  BY <1>1, <1>2, <1>3

\* Every result of the broker can be sent: a value of the response, or the code
\* of an error.
LEMMA ResultsSendable ==
  ASSUME NEW t \in DOMAIN RequestFields, NEW r \in Possible(t)
  PROVE  \/ r.code = 0 /\ SendableResponse(t, r.val)
         \/ r.code \in 1 .. 5 /\ r.val = <<>>
<1>1. \A c, v : Result(c, v).code = c /\ Result(c, v).val = v
  BY DEF Result
<1>2. CASE r = Result(InvalidPayload, <<>>)
  BY <1>1, <1>2 DEF InvalidPayload
<1>3. CASE \E E \in SUBSET AllCalls : r \in Results(t, Cardinality(E))
  <2>1. PICK E \in SUBSET AllCalls : r \in Results(t, Cardinality(E))
    BY <1>3
  <2>2. PICK n \in Nat : n = Cardinality(E) /\ n < Max32 * Max32
    <3>1. /\ Cardinality(E) \in Nat /\ Cardinality(AllCalls) \in Nat
          /\ Cardinality(E) <= Cardinality(AllCalls)
      BY CallsCountable, FS_Subset, FS_CardinalityType
    <3> QED
      BY <3>1, CallsCountable, SizesAre
  <2>3. \/ r.code = 0
        \/ r.code \in 1 .. 5 /\ r.val = <<>>
    BY <1>1, <2>1 DEF Results, TopicNotFound, InternalError, LeaseExpired
  <2>4. ASSUME r.code = 0
        PROVE  SendableResponse(t, r.val)
    <3>1. \A c \in {TopicNotFound, InternalError, LeaseExpired} : c # 0
      BY DEF TopicNotFound, InternalError, LeaseExpired
    <3>2. IsValue("u64", n) /\ FieldFits("u64", n) /\ {"u64", "name", "bytes"} \subseteq Kinds
      BY <2>2, FieldsFit DEF Kinds, Width
    <3>3. /\ PutUint(n, 8) \in Seq(Bytes) /\ Len(PutUint(n, 8)) = 8
      <4>1. Width["u64"] = 8 /\ Limit["u64"] = Max32 * Max32
        BY DEF Width, Limit
      <4> QED
        BY <2>2, <3>2, <4>1, NumberReadBack
    <3>4. CASE t = "Produce"
      <4>1. r.val = <<n>>
        BY <1>1, <2>1, <2>2, <2>4, <3>1, <3>4 DEF Results
      <4> QED
        BY <3>2, <3>4, <4>1, SendableTuples DEF SendableResponse, ProduceResponse
    <3>5. CASE t = "Fetch"
      <4>1. r.val = <<>> \/ r.val = << <<n, 1, <<>>, <<2>> >> >>
        BY <1>1, <2>1, <2>2, <2>4, <3>1, <3>5 DEF Results
      <4>2. <<>> \in Seq(Bytes) /\ Len(<<>>) <= 8 /\ <<2>> \in Seq(Bytes) /\ Len(<<2>>) <= 8
        BY ByteOK DEF Bytes
      <4>3. IsValue("bytes", <<>>) /\ FieldFits("bytes", <<>>)
        BY <4>2, FieldsFit, Zenon
      <4>4. IsValue("bytes", <<2>>) /\ FieldFits("bytes", <<2>>)
        BY <4>2, FieldsFit, Zenon
      <4>5. IsValue("u64", 1) /\ FieldFits("u64", 1)
        BY FieldsFit
      <4>6. Sendable(Message, <<n, 1, <<>>, <<2>> >>)
        BY <3>2, <4>3, <4>4, <4>5, SendableTuples DEF Message
      <4>7. Message \in Seq(Kinds)
        BY <4>6 DEF Sendable
      <4>8. SendableList(Message, r.val)
        BY <4>1, <4>6, <4>7, SendableLists
      <4> QED
        BY <3>5, <4>8 DEF SendableResponse
    <3>6. CASE t = "ListTopics"
      <4> DEFINE a == PutUint(n, 8)
      <4>1. r.val = <<>> \/ r.val = << <<a>>, << <<1, 2>> >> >>
        BY <1>1, <2>1, <2>2, <2>4, <3>1, <3>6 DEF Results
      <4> HIDE DEF a
      <4>2. <<1, 2>> \in Seq(Bytes) /\ Len(<<1, 2>>) <= 8 /\ a \in Seq(Bytes) /\ Len(a) <= 8
        <5>1. a \in Seq(Bytes) /\ Len(a) = 8
          BY <3>3 DEF a
        <5>2. <<1, 2>> \in Seq(Bytes) /\ Len(<<1, 2>>) <= 8
          BY ByteOK DEF Bytes
        <5> QED
          BY <5>1, <5>2
      <4>3. IsValue("name", <<1, 2>>) /\ FieldFits("name", <<1, 2>>)
        BY <4>2, FieldsFit, Zenon
      <4>4. IsValue("name", a) /\ FieldFits("name", a)
        BY <4>2, FieldsFit, Zenon
      <4>5. Sendable(TopicName, <<a>>)
        BY <3>2, <4>4, SendableTuples DEF TopicName
      <4>6. Sendable(TopicName, << <<1, 2>> >>)
        BY <3>2, <4>3, SendableTuples DEF TopicName
      <4>7. TopicName \in Seq(Kinds)
        BY <4>6 DEF Sendable
      <4>8. SendableList(TopicName, r.val)
        BY <4>1, <4>5, <4>6, <4>7, SendableLists
      <4> QED
        BY <3>6, <4>8 DEF SendableResponse
    <3>7. CASE t \notin {"Produce", "Fetch", "ListTopics"}
      <4>1. r.val = <<>>
        BY <1>1, <2>1, <2>4, <3>1, <3>7 DEF Results
      <4> QED
        BY <3>7, <4>1 DEF SendableResponse
    <3> QED
      BY <3>4, <3>5, <3>6, <3>7
  <2> QED
    BY <2>3, <2>4
<1> QED
  BY <1>2, <1>3 DEF Possible

\* An answer is read as the result that it was written for.
LEMMA ResponseReadBack ==
  ASSUME NEW t \in DOMAIN RequestFields, NEW r \in Possible(t), NEW f,
         f.type = IF r.code = 0 THEN t ELSE "Error",
         f.body = IF r.code = 0 THEN ResponseBody(t, r.val)
                  ELSE Marshal(ErrorResponse, <<r.code, << 0 >>>>)
  PROVE  Interpret(t, f) = Answer(r.code, r.val)
<1>1. t # "Error"
  BY DEF RequestFields
<1>2. CASE r.code = 0 /\ SendableResponse(t, r.val)
  <2>1. PICK b : b = ResponseBody(t, r.val)
    OBVIOUS
  <2>2. f.type = t /\ f.body = b
    BY <1>2, <2>1
  <2>3. \E p : ReadResponse(t, b) = {[pos |-> p, val |-> r.val]}
    <3>1. CASE t = "Produce"
      <4>1. b = Marshal(ProduceResponse, r.val) /\ ReadResponse(t, b) = Unmarshal(ProduceResponse, b, 0)
        BY <2>1, <3>1 DEF ResponseBody, ReadResponse
      <4>2. Sendable(ProduceResponse, r.val)
        BY <1>2, <3>1 DEF SendableResponse
      <4>3. ReadResponse(t, b) = {[pos |-> Len(b), val |-> r.val]}
        BY <4>1, <4>2, MarshalReadBack
      <4> QED
        BY <4>3, Zenon
    <3>2. CASE t = "Fetch"
      <4>1. b = MarshalList(Message, r.val) /\ ReadResponse(t, b) = UnmarshalList(Message, b)
        BY <2>1, <3>2 DEF ResponseBody, ReadResponse
      <4>2. SendableList(Message, r.val)
        BY <1>2, <3>2 DEF SendableResponse
      <4>3. ReadResponse(t, b) = {[pos |-> Len(b), val |-> r.val]}
        BY <4>1, <4>2, MarshalListReadBack
      <4> QED
        BY <4>3, Zenon
    <3>3. CASE t = "ListTopics"
      <4>1. b = MarshalList(TopicName, r.val) /\ ReadResponse(t, b) = UnmarshalList(TopicName, b)
        BY <2>1, <3>3 DEF ResponseBody, ReadResponse
      <4>2. SendableList(TopicName, r.val)
        BY <1>2, <3>3 DEF SendableResponse
      <4>3. ReadResponse(t, b) = {[pos |-> Len(b), val |-> r.val]}
        BY <4>1, <4>2, MarshalListReadBack
      <4> QED
        BY <4>3, Zenon
    <3>4. CASE t \notin {"Produce", "Fetch", "ListTopics"}
      BY <1>2, <3>4 DEF SendableResponse, ReadResponse, From
    <3> QED
      BY <3>1, <3>2, <3>3, <3>4
  <2>4. {v.val : v \in ReadResponse(t, b)} = {r.val}
    BY <2>3, OneRead
  <2>5. {Answer(0, v.val) : v \in ReadResponse(t, b)} = {Answer(0, r.val)}
    BY <2>3, <2>4
  <2> QED
    BY <1>1, <1>2, <2>2, <2>5 DEF Interpret
<1>3. CASE r.code \in 1 .. 5 /\ r.val = <<>>
  <2> DEFINE v == <<r.code, <<0>>>>
  <2>1. v[1] = r.code
    OBVIOUS
  <2>2. Sendable(ErrorResponse, v)
    <3>1. <<0>> \in Seq(Bytes) /\ Len(<<0>>) <= 8
      BY ByteOK DEF Bytes
    <3>2. IsValue("name", <<0>>) /\ FieldFits("name", <<0>>)
      BY <3>1, FieldsFit, Zenon
    <3>3. r.code \in 0 .. 5
      BY <1>3
    <3>4. IsValue("u16", r.code) /\ FieldFits("u16", r.code)
      BY <3>3, FieldsFit
    <3>5. "u16" \in Kinds /\ "name" \in Kinds
      BY DEF Kinds, Width
    <3> QED
      BY <3>2, <3>4, <3>5, SendableTuples DEF ErrorResponse
  <2> HIDE DEF v
  <2>3. PICK b : b = Marshal(ErrorResponse, v)
    OBVIOUS
  <2>4. f.type = "Error" /\ f.body = b
    BY <1>3, <2>3 DEF v
  <2> DEFINE z == [pos |-> Len(b), val |-> v]
  <2>5. Unmarshal(ErrorResponse, b, 0) = {z}
    BY <2>2, <2>3, MarshalReadBack
  <2>6. z.val = v
    OBVIOUS
  <2> HIDE DEF z
  <2>7. {Answer(e.val[1], <<>>) : e \in Unmarshal(ErrorResponse, b, 0)} = {Answer(r.code, <<>>)}
    BY <2>1, <2>5, <2>6
  <2>8. PICK A : A = {Answer(e.val[1], <<>>) : e \in Unmarshal(ErrorResponse, f.body, 0)}
    OBVIOUS
  <2>9. A = {Answer(r.code, <<>>)}
    BY <2>4, <2>7, <2>8
  <2>10. Interpret(t, f) = IF A = {} THEN Unknown ELSE CHOOSE a \in A : TRUE
    BY <1>1, <2>4, <2>8 DEF Interpret
  <2>11. Interpret(t, f) = Answer(r.code, <<>>)
    BY <2>9, <2>10
  <2> QED
    BY <1>3, <2>11
<1> QED
  BY <1>2, <1>3, ResultsSendable

-----------------------------------------------------------------------------
(* The inductive invariant *)

IsSeq(s) == \E S : s \in Seq(S)

\* A request on its way to the server is the one its call was made for, where a
\* are the requests the clients have made.
Requested(f, a) ==
  /\ IsFrame(f)
  /\ f.call[2] <= Len(a[f.call[1]])
  /\ LET r == a[f.call[1]][f.call[2]]
     IN  f.type = r.type /\ f.body = Marshal(RequestFields[r.type], r.args)

\* A connection is a record; whatever its streams carry is in some set S.
Shape(S) ==
  [phase : {"unused", "backlog", "accepted", "reset"}, up : Seq(S), down : Seq(S),
   clientOpen : BOOLEAN, serverOpen : BOOLEAN]

ConnShape(c) == \E S : c \in Shape(S)

\* What is under way on it: requests one way, frames the other.
Carries(c, a) ==
  /\ \A n \in 1 .. Len(c.up) : Requested(c.up[n], a)
  /\ \A n \in 1 .. Len(c.down) : IsFrame(c.down[n])

ConnInv ==
  /\ listener \in {"none", "listening", "closed"}
  /\ conn = [i \in Conns |-> conn[i]]
  /\ \A i \in Conns : ConnShape(conn[i]) /\ Carries(conn[i], asked)

ClientInv ==
  /\ socket \in [Clients -> Conns \cup {None}]
  /\ reqID \in [Clients -> 0 .. Max32 - 1]
  /\ waiting \in [Clients -> BOOLEAN]
  /\ asked = [c \in Clients |-> asked[c]] /\ outcome = [c \in Clients |-> outcome[c]]
  /\ \A c \in Clients :
       /\ asked[c] \in Seq(Calls[c]) /\ Len(asked[c]) <= MaxCalls[c]
       /\ outcome[c].kind \in {"pending", "unknown", "answer"}
       /\ waiting[c] => socket[c] \in Conns

\* The frame a handler works on.
HandlerInv ==
  /\ frame = [i \in Conns |-> frame[i]]
  /\ \A i \in Conns :
       /\ handler[i] = "serve" => Requested(frame[i], asked)
       /\ handler[i] = "reply" => IsFrame(frame[i])

\* s.wg counts the handlers that run.
CountInv ==
  /\ IsFiniteSet(Running) /\ wg = Cardinality(Running)
  /\ ~alive => Running = {}

\* A connection is handled once it was accepted, by one handler.
AcceptInv ==
  /\ \A i \in Conns : handler[i] # "none" => conn[i].phase \in {"accepted", "reset"}
  /\ main = "spawn" => /\ handler[inHand] = "none"
                       /\ conn[inHand].phase \in {"accepted", "reset"}

\* Once Stop has returned, nobody is left, or one handler that was on its way.
StopInv ==
  stopper \in {"close", "exit"} /\ listener = "closed" =>
    /\ Cardinality(Running) <= 1
    /\ main = "spawn" => Running = {}

ServiceInv ==
  /\ ConnInv /\ ClientInv /\ ServerTypeOK
  /\ HandlerInv /\ CountInv /\ AcceptInv /\ StopInv

-----------------------------------------------------------------------------
(* Sequences *)

\* A sequence has natural length, and its tail and extensions are sequences.
LEMMA SeqFacts ==
  ASSUME NEW s, IsSeq(s)
  PROVE  /\ Len(s) \in Nat /\ DOMAIN s = 1 .. Len(s)
         /\ \A f : /\ IsSeq(Append(s, f)) /\ Len(Append(s, f)) = Len(s) + 1
                   /\ \A n \in 1 .. Len(s) : Append(s, f)[n] = s[n]
                   /\ Append(s, f)[Len(s) + 1] = f
         /\ s # <<>> => /\ IsSeq(Tail(s)) /\ Len(Tail(s)) = Len(s) - 1
                        /\ Head(s) = s[1] /\ Len(s) >= 1
                        /\ \A n \in 1 .. Len(s) - 1 : Tail(s)[n] = s[n + 1]
<1>1. PICK S : s \in Seq(S)
  BY DEF IsSeq
<1>2. ASSUME NEW f
      PROVE  /\ IsSeq(Append(s, f)) /\ Len(Append(s, f)) = Len(s) + 1
             /\ \A n \in 1 .. Len(s) : Append(s, f)[n] = s[n]
             /\ Append(s, f)[Len(s) + 1] = f
  <2> DEFINE T == S \cup {f}
  <2>1. s \in Seq(T) /\ f \in T
    BY <1>1
  <2> HIDE DEF T
  <2>2. Append(s, f) \in Seq(T)
    BY <2>1, AppendProperties
  <2> QED
    BY <2>1, <2>2, AppendProperties DEF IsSeq
<1>3. ASSUME s # <<>>
      PROVE  /\ IsSeq(Tail(s)) /\ Len(Tail(s)) = Len(s) - 1
             /\ Head(s) = s[1] /\ Len(s) >= 1
             /\ \A n \in 1 .. Len(s) - 1 : Tail(s)[n] = s[n + 1]
  BY <1>1, <1>3, HeadTailProperties, EmptySeq DEF IsSeq
<1> QED
  BY <1>1, <1>2, <1>3, LenProperties

\* The empty sequence is one.
LEMMA EmptyIsSeq == IsSeq(<<>>) /\ Len(<<>>) = 0
<1>1. <<>> \in Seq({})
  OBVIOUS
<1> QED
  BY <1>1 DEF IsSeq

-----------------------------------------------------------------------------
(* What the operations on a connection keep *)

\* Connecting, accepting and closing an end.
LEMMA EndsKeep ==
  ASSUME NEW c, ConnShape(c), NEW a, Carries(c, a)
  PROVE  /\ ConnShape(Dialled(c)) /\ Carries(Dialled(c), a)
         /\ ConnShape(Accepted(c)) /\ Carries(Accepted(c), a)
         /\ Accepted(c).phase = "accepted"
         /\ ConnShape(Reset(c)) /\ Carries(Reset(c), a) /\ Reset(c).phase = "reset"
         /\ ConnShape(ClientClosed(c)) /\ Carries(ClientClosed(c), a)
         /\ ClientClosed(c).phase = c.phase
         /\ ConnShape(ServerClosed(c)) /\ Carries(ServerClosed(c), a)
         /\ ServerClosed(c).phase = c.phase
<1>1. PICK S : c \in Shape(S)
  BY DEF ConnShape
<1>2. <<>> \in Seq(S)
  OBVIOUS
<1>3. PICK e \in Seq(S) : e = <<>>
  BY <1>2
<1>4. Len(e) = 0
  BY <1>3
<1>5. ConnShape(Dialled(c)) /\ Carries(Dialled(c), a)
  <2>1. Dialled(c) \in Shape(S) /\ Dialled(c).up = c.up /\ Dialled(c).down = c.down
    BY <1>1 DEF Shape, Dialled
  <2> QED
    BY <2>1 DEF ConnShape, Carries
<1>6. ConnShape(Accepted(c)) /\ Carries(Accepted(c), a) /\ Accepted(c).phase = "accepted"
  <2>1. /\ Accepted(c) \in Shape(S) /\ Accepted(c).up = c.up /\ Accepted(c).down = c.down
        /\ Accepted(c).phase = "accepted"
    BY <1>1 DEF Shape, Accepted
  <2> QED
    BY <2>1 DEF ConnShape, Carries
<1>7. ConnShape(Reset(c)) /\ Carries(Reset(c), a) /\ Reset(c).phase = "reset"
  <2>1. Reset(c) = [c EXCEPT !.phase = "reset", !.up = e, !.down = e]
    BY <1>3 DEF Reset
  <2>2. /\ [c EXCEPT !.phase = "reset", !.up = e, !.down = e] \in Shape(S)
        /\ [c EXCEPT !.phase = "reset", !.up = e, !.down = e].up = e
        /\ [c EXCEPT !.phase = "reset", !.up = e, !.down = e].down = e
        /\ [c EXCEPT !.phase = "reset", !.up = e, !.down = e].phase = "reset"
    BY <1>1 DEF Shape
  <2>3. Reset(c) \in Shape(S) /\ Reset(c).up = e /\ Reset(c).down = e
    BY <2>1, <2>2
  <2> QED
    BY <1>4, <2>1, <2>2, <2>3 DEF ConnShape, Carries
<1>8. /\ ConnShape(ClientClosed(c)) /\ Carries(ClientClosed(c), a)
      /\ ClientClosed(c).phase = c.phase
  <2>1. ClientClosed(c) = [c EXCEPT !.clientOpen = FALSE, !.down = e]
    BY <1>3 DEF ClientClosed
  <2>2. /\ [c EXCEPT !.clientOpen = FALSE, !.down = e] \in Shape(S)
        /\ [c EXCEPT !.clientOpen = FALSE, !.down = e].up = c.up
        /\ [c EXCEPT !.clientOpen = FALSE, !.down = e].down = e
        /\ [c EXCEPT !.clientOpen = FALSE, !.down = e].phase = c.phase
    BY <1>1 DEF Shape
  <2>3. /\ ClientClosed(c) \in Shape(S) /\ ClientClosed(c).up = c.up
        /\ ClientClosed(c).down = e
    BY <2>1, <2>2
  <2> QED
    BY <1>4, <2>1, <2>2, <2>3 DEF ConnShape, Carries
<1>9. /\ ConnShape(ServerClosed(c)) /\ Carries(ServerClosed(c), a)
      /\ ServerClosed(c).phase = c.phase
  <2>1. ServerClosed(c) = [c EXCEPT !.serverOpen = FALSE, !.up = e]
    BY <1>3 DEF ServerClosed
  <2>2. /\ [c EXCEPT !.serverOpen = FALSE, !.up = e] \in Shape(S)
        /\ [c EXCEPT !.serverOpen = FALSE, !.up = e].up = e
        /\ [c EXCEPT !.serverOpen = FALSE, !.up = e].down = c.down
        /\ [c EXCEPT !.serverOpen = FALSE, !.up = e].phase = c.phase
    BY <1>1 DEF Shape
  <2>3. /\ ServerClosed(c) \in Shape(S) /\ ServerClosed(c).up = e
        /\ ServerClosed(c).down = c.down
    BY <2>1, <2>2
  <2> QED
    BY <1>4, <2>1, <2>2, <2>3 DEF ConnShape, Carries
<1> QED
  BY <1>5, <1>6, <1>7, <1>8, <1>9

\* A stream is replaced by another one.
LEMMA StreamSet ==
  ASSUME NEW c, ConnShape(c), NEW u, IsSeq(u), NEW a, Carries(c, a)
  PROVE  /\ ConnShape([c EXCEPT !.up = u]) /\ [c EXCEPT !.up = u].phase = c.phase
         /\ (\A n \in 1 .. Len(u) : Requested(u[n], a)) => Carries([c EXCEPT !.up = u], a)
         /\ ConnShape([c EXCEPT !.down = u]) /\ [c EXCEPT !.down = u].phase = c.phase
         /\ (\A n \in 1 .. Len(u) : IsFrame(u[n])) => Carries([c EXCEPT !.down = u], a)
<1>1. PICK S : c \in Shape(S)
  BY DEF ConnShape
<1>2. PICK U : u \in Seq(U)
  BY DEF IsSeq
<1> DEFINE T == S \cup U
<1>3. c \in Shape(T) /\ u \in Seq(T)
  BY <1>1, <1>2 DEF Shape
<1> HIDE DEF T
<1>4. /\ [c EXCEPT !.up = u] \in Shape(T) /\ [c EXCEPT !.up = u].phase = c.phase
      /\ [c EXCEPT !.up = u].up = u /\ [c EXCEPT !.up = u].down = c.down
  BY <1>3 DEF Shape
<1>5. /\ [c EXCEPT !.down = u] \in Shape(T) /\ [c EXCEPT !.down = u].phase = c.phase
      /\ [c EXCEPT !.down = u].down = u /\ [c EXCEPT !.down = u].up = c.up
  BY <1>3 DEF Shape
<1>6. (\A n \in 1 .. Len(u) : Requested(u[n], a)) => Carries([c EXCEPT !.up = u], a)
  BY <1>4 DEF Carries
<1>7. (\A n \in 1 .. Len(u) : IsFrame(u[n])) => Carries([c EXCEPT !.down = u], a)
  BY <1>5 DEF Carries
<1> QED
  BY <1>4, <1>5, <1>6, <1>7 DEF ConnShape

\* The streams of a connection are sequences.
LEMMA StreamsAre ==
  ASSUME NEW c, ConnShape(c)
  PROVE  IsSeq(c.up) /\ IsSeq(c.down) /\ c.clientOpen \in BOOLEAN /\ c.serverOpen \in BOOLEAN
         /\ c.phase \in {"unused", "backlog", "accepted", "reset"}
<1>1. PICK S : c \in Shape(S)
  BY DEF ConnShape
<1> QED
  BY <1>1 DEF Shape, IsSeq

\* Sending and receiving a frame.
LEMMA StreamsKeep ==
  ASSUME NEW c, ConnShape(c), NEW a, Carries(c, a)
  PROVE  /\ \A f : Requested(f, a) => /\ ConnShape(SentUp(c, f)) /\ Carries(SentUp(c, f), a)
                                      /\ SentUp(c, f).phase = c.phase
         /\ \A f : IsFrame(f) => /\ ConnShape(SentDown(c, f)) /\ Carries(SentDown(c, f), a)
                                 /\ SentDown(c, f).phase = c.phase
         /\ c.up # <<>> => /\ Requested(Head(c.up), a)
                           /\ ConnShape([c EXCEPT !.up = Tail(c.up)])
                           /\ Carries([c EXCEPT !.up = Tail(c.up)], a)
                           /\ [c EXCEPT !.up = Tail(c.up)].phase = c.phase
         /\ c.down # <<>> => /\ IsFrame(Head(c.down))
                             /\ ConnShape([c EXCEPT !.down = Tail(c.down)])
                             /\ Carries([c EXCEPT !.down = Tail(c.down)], a)
                             /\ [c EXCEPT !.down = Tail(c.down)].phase = c.phase
<1>1. ASSUME NEW f, Requested(f, a)
      PROVE  /\ ConnShape(SentUp(c, f)) /\ Carries(SentUp(c, f), a)
             /\ SentUp(c, f).phase = c.phase
  <2>1. CASE ~c.serverOpen
    BY <2>1 DEF SentUp
  <2>2. CASE c.serverOpen
    <3> DEFINE u == Append(c.up, f)
    <3>1. /\ IsSeq(u) /\ Len(c.up) \in Nat /\ Len(u) = Len(c.up) + 1
          /\ \A n \in 1 .. Len(c.up) : u[n] = c.up[n]
          /\ u[Len(c.up) + 1] = f
      BY SeqFacts, StreamsAre
    <3> HIDE DEF u
    <3>2. SentUp(c, f) = [c EXCEPT !.up = u]
      BY <2>2 DEF SentUp, u
    <3>3. \A n \in 1 .. Len(u) : Requested(u[n], a)
      BY <1>1, <3>1 DEF Carries
    <3>4. /\ ConnShape([c EXCEPT !.up = u]) /\ Carries([c EXCEPT !.up = u], a)
          /\ [c EXCEPT !.up = u].phase = c.phase
      BY <3>1, <3>3, StreamSet
    <3> QED
      BY <3>2, <3>4
  <2> QED
    BY <2>1, <2>2
<1>2. ASSUME NEW f, IsFrame(f)
      PROVE  /\ ConnShape(SentDown(c, f)) /\ Carries(SentDown(c, f), a)
             /\ SentDown(c, f).phase = c.phase
  <2>1. CASE ~c.clientOpen
    BY <2>1 DEF SentDown
  <2>2. CASE c.clientOpen
    <3> DEFINE u == Append(c.down, f)
    <3>1. /\ IsSeq(u) /\ Len(c.down) \in Nat /\ Len(u) = Len(c.down) + 1
          /\ \A n \in 1 .. Len(c.down) : u[n] = c.down[n]
          /\ u[Len(c.down) + 1] = f
      BY SeqFacts, StreamsAre
    <3> HIDE DEF u
    <3>2. SentDown(c, f) = [c EXCEPT !.down = u]
      BY <2>2 DEF SentDown, u
    <3>3. \A n \in 1 .. Len(u) : IsFrame(u[n])
      BY <1>2, <3>1 DEF Carries
    <3>4. /\ ConnShape([c EXCEPT !.down = u]) /\ Carries([c EXCEPT !.down = u], a)
          /\ [c EXCEPT !.down = u].phase = c.phase
      BY <3>1, <3>3, StreamSet
    <3> QED
      BY <3>2, <3>4
  <2> QED
    BY <2>1, <2>2
<1>3. ASSUME c.up # <<>>
      PROVE  /\ Requested(Head(c.up), a)
             /\ ConnShape([c EXCEPT !.up = Tail(c.up)])
             /\ Carries([c EXCEPT !.up = Tail(c.up)], a)
             /\ [c EXCEPT !.up = Tail(c.up)].phase = c.phase
  <2> DEFINE u == Tail(c.up)
  <2>1. /\ IsSeq(u) /\ Len(u) = Len(c.up) - 1 /\ Len(c.up) \in Nat /\ Len(c.up) >= 1
        /\ Head(c.up) = c.up[1]
        /\ \A n \in 1 .. Len(c.up) - 1 : u[n] = c.up[n + 1]
    BY <1>3, SeqFacts, StreamsAre
  <2> HIDE DEF u
  <2>2. \A n \in 1 .. Len(u) : Requested(u[n], a)
    BY <2>1 DEF Carries
  <2>3. Requested(Head(c.up), a)
    BY <2>1 DEF Carries
  <2>5. /\ ConnShape([c EXCEPT !.up = u]) /\ Carries([c EXCEPT !.up = u], a)
        /\ [c EXCEPT !.up = u].phase = c.phase
    BY <2>1, <2>2, StreamSet
  <2> QED
    BY <2>3, <2>5 DEF u
<1>4. ASSUME c.down # <<>>
      PROVE  /\ IsFrame(Head(c.down))
             /\ ConnShape([c EXCEPT !.down = Tail(c.down)])
             /\ Carries([c EXCEPT !.down = Tail(c.down)], a)
             /\ [c EXCEPT !.down = Tail(c.down)].phase = c.phase
  <2> DEFINE u == Tail(c.down)
  <2>1. /\ IsSeq(u) /\ Len(u) = Len(c.down) - 1 /\ Len(c.down) \in Nat /\ Len(c.down) >= 1
        /\ Head(c.down) = c.down[1]
        /\ \A n \in 1 .. Len(c.down) - 1 : u[n] = c.down[n + 1]
    BY <1>4, SeqFacts, StreamsAre
  <2> HIDE DEF u
  <2>2. \A n \in 1 .. Len(u) : IsFrame(u[n])
    BY <2>1 DEF Carries
  <2>3. IsFrame(Head(c.down))
    BY <2>1 DEF Carries
  <2>5. /\ ConnShape([c EXCEPT !.down = u]) /\ Carries([c EXCEPT !.down = u], a)
        /\ [c EXCEPT !.down = u].phase = c.phase
    BY <2>1, <2>2, StreamSet
  <2> QED
    BY <2>3, <2>5 DEF u
<1> QED
  BY <1>1, <1>2, <1>3, <1>4

-----------------------------------------------------------------------------
(* Requests that are made stay made *)

Extends(a, b) ==
  \A c \in Clients :
    /\ Len(a[c]) \in Nat /\ Len(b[c]) \in Nat /\ Len(a[c]) <= Len(b[c])
    /\ \A n \in 1 .. Len(a[c]) : b[c][n] = a[c][n]

\* A frame is still the request of its call when more calls are made.
LEMMA RequestedStays ==
  ASSUME NEW f, NEW a, NEW b, Extends(a, b), Requested(f, a)
  PROVE  Requested(f, b)
<1>1. /\ f.call[1] \in Clients /\ f.call[2] \in 1 .. MaxCalls[f.call[1]]
      /\ f.call[2] <= Len(a[f.call[1]])
  BY DEF Requested, IsFrame
<1>2. f.call[2] \in Nat /\ f.call[2] >= 1
  BY <1>1, ConnectionConstantsOK
<1>3. b[f.call[1]][f.call[2]] = a[f.call[1]][f.call[2]] /\ f.call[2] <= Len(b[f.call[1]])
  BY <1>1, <1>2, SMTT(30) DEF Extends
<1> QED
  BY <1>3 DEF Requested

\* So is everything that is under way on a connection.
LEMMA CarriesStays ==
  ASSUME NEW c, NEW a, NEW b, Extends(a, b), Carries(c, a)
  PROVE  Carries(c, b)
BY RequestedStays DEF Carries

\* Without a new call there is nothing to show.
LEMMA AskedSame ==
  ASSUME ClientInv, UNCHANGED asked
  PROVE  Extends(asked, asked')
BY DEF ClientInv, Extends

-----------------------------------------------------------------------------
(* What a step keeps that touches one connection, or no part of the server *)

\* A step that replaces one connection by a well-formed one leaves all well-formed.
LEMMA ConnOne ==
  ASSUME ConnInv, Extends(asked, asked'), NEW i \in Conns, NEW d,
         ConnShape(d), Carries(d, asked'), conn' = [conn EXCEPT ![i] = d],
         listener' \in {"none", "listening", "closed"}
  PROVE  /\ ConnInv'
         /\ conn'[i] = d /\ \A j \in Conns \ {i} : conn'[j] = conn[j]
<1>1. /\ conn' = [j \in Conns |-> conn'[j]]
      /\ conn'[i] = d /\ \A j \in Conns \ {i} : conn'[j] = conn[j]
  BY DEF ConnInv
<1>2. ASSUME NEW j \in Conns
      PROVE  ConnShape(conn'[j]) /\ Carries(conn'[j], asked')
  <2>1. CASE j = i
    BY <1>1, <2>1
  <2>2. CASE j # i
    <3>1. ConnShape(conn[j]) /\ Carries(conn[j], asked) /\ conn'[j] = conn[j]
      BY <1>1, <2>2 DEF ConnInv
    <3> QED
      BY <3>1, CarriesStays
  <2> QED
    BY <2>1, <2>2
<1> QED
  BY <1>1, <1>2 DEF ConnInv

\* The connections are left alone.
LEMMA ConnSame ==
  ASSUME ConnInv, Extends(asked, asked'), conn' = conn,
         listener' \in {"none", "listening", "closed"}
  PROVE  ConnInv'
<1>1. ASSUME NEW j \in Conns
      PROVE  ConnShape(conn'[j]) /\ Carries(conn'[j], asked')
  <2>1. ConnShape(conn[j]) /\ Carries(conn[j], asked) /\ conn'[j] = conn[j]
    BY DEF ConnInv
  <2> QED
    BY <2>1, CarriesStays
<1> QED
  BY <1>1 DEF ConnInv

\* A step of a client leaves the server's part of the invariant alone.
LEMMA ServerKept ==
  ASSUME ServiceInv, UNCHANGED <<serverVars, listener>>, Extends(asked, asked'),
         \A i \in Conns : conn[i].phase \in {"accepted", "reset"} =>
                            conn'[i].phase \in {"accepted", "reset"}
  PROVE  ServerTypeOK' /\ HandlerInv' /\ CountInv' /\ AcceptInv' /\ StopInv'
<1>1. ServerTypeOK' /\ CountInv' /\ StopInv'
  BY DEF ServiceInv, ServerTypeOK, serverVars, CountInv, StopInv, Running
<1>2. HandlerInv'
  <2>1. ASSUME NEW i \in Conns, handler'[i] = "serve"
        PROVE  Requested(frame'[i], asked')
    <3>1. Requested(frame[i], asked) /\ frame'[i] = frame[i]
      BY <2>1 DEF ServiceInv, HandlerInv, serverVars
    <3> QED
      BY <3>1, RequestedStays
  <2> QED
    BY <2>1 DEF ServiceInv, HandlerInv, serverVars
<1>3. AcceptInv'
  BY DEF ServiceInv, ServerTypeOK, AcceptInv, serverVars
<1> QED
  BY <1>1, <1>2, <1>3

-----------------------------------------------------------------------------
(* The client's steps *)

\* Dialling keeps the invariant.
LEMMA ConnectInv ==
  ASSUME ServiceInv, NEW c \in Clients, Connect(c), UNCHANGED serverVars
  PROVE  ServiceInv'
<1> DEFINE unused == {i \in Conns : conn[i].phase = "unused"}
<1>1. PICK i \in unused : i = CHOOSE j \in unused : TRUE
  BY DEF Connect
<1>2. /\ i \in Conns /\ conn[i].phase = "unused"
      /\ conn' = [conn EXCEPT ![i] = Dialled(conn[i])]
      /\ socket' = [socket EXCEPT ![c] = i]
      /\ UNCHANGED <<listener, reqID, waiting, asked, outcome>>
  BY <1>1 DEF Connect
<1> HIDE DEF unused
<1>3. Extends(asked, asked')
  BY <1>2, AskedSame DEF ServiceInv
<1>4. ConnShape(Dialled(conn[i])) /\ Carries(Dialled(conn[i]), asked')
  <2>1. ConnShape(conn[i]) /\ Carries(conn[i], asked)
    BY <1>2 DEF ServiceInv, ConnInv
  <2> QED
    BY <1>2, <2>1, EndsKeep
<1>5. /\ ConnInv'
      /\ conn'[i] = Dialled(conn[i]) /\ \A j \in Conns \ {i} : conn'[j] = conn[j]
  BY <1>2, <1>3, <1>4, ConnOne DEF ServiceInv, ConnInv
<1>6. ClientInv'
  BY <1>2 DEF ServiceInv, ClientInv
<1>7. ServerTypeOK' /\ HandlerInv' /\ CountInv' /\ AcceptInv' /\ StopInv'
  BY <1>2, <1>3, <1>5, ServerKept
<1> QED
  BY <1>5, <1>6, <1>7 DEF ServiceInv

\* So does closing the client.
LEMMA CloseInv ==
  ASSUME ServiceInv, NEW c \in Clients, Close(c), UNCHANGED serverVars
  PROVE  ServiceInv'
<1>1. PICK i \in Conns : i = socket[c]
  BY DEF Close, ServiceInv, ClientInv
<1>2. /\ conn' = [conn EXCEPT ![i] = ClientClosed(conn[i])]
      /\ UNCHANGED <<listener, clientVars>>
  BY <1>1 DEF Close
<1>3. Extends(asked, asked')
  BY <1>2, AskedSame DEF ServiceInv, clientVars
<1>4. /\ ConnShape(ClientClosed(conn[i])) /\ Carries(ClientClosed(conn[i]), asked')
      /\ ClientClosed(conn[i]).phase = conn[i].phase
  <2>1. ConnShape(conn[i]) /\ Carries(conn[i], asked) /\ asked' = asked
    BY <1>2 DEF ServiceInv, ConnInv, clientVars
  <2> QED
    BY <2>1, EndsKeep
<1>5. /\ ConnInv'
      /\ conn'[i] = ClientClosed(conn[i]) /\ \A j \in Conns \ {i} : conn'[j] = conn[j]
  BY <1>2, <1>3, <1>4, ConnOne DEF ServiceInv, ConnInv
<1>6. ClientInv'
  BY <1>2 DEF ServiceInv, ClientInv, clientVars
<1>7. ServerTypeOK' /\ HandlerInv' /\ CountInv' /\ AcceptInv' /\ StopInv'
  BY <1>2, <1>3, <1>4, <1>5, ServerKept
<1> QED
  BY <1>5, <1>6, <1>7 DEF ServiceInv

\* A frame that a client writes is the request of its call.
LEMMA RequestFrameIs ==
  ASSUME ClientInv, NEW c \in Clients, NEW r \in Calls[c], Len(asked[c]) < MaxCalls[c],
         asked' = [asked EXCEPT ![c] = Append(@, r)]
  PROVE  /\ Extends(asked, asked') /\ Requested(RequestFrame(c, r), asked')
         /\ asked' = [d \in Clients |-> asked'[d]]
         /\ \A d \in Clients : asked'[d] \in Seq(Calls[d]) /\ Len(asked'[d]) <= MaxCalls[d]
<1> DEFINE s == asked[c]
           n == Len(asked[c]) + 1
<1>1. s \in Seq(Calls[c]) /\ Len(s) \in Nat /\ MaxCalls[c] \in Nat
  BY ConnectionConstantsOK DEF ClientInv
<1>2. /\ Append(s, r) \in Seq(Calls[c]) /\ Len(Append(s, r)) = Len(s) + 1
      /\ \A k \in 1 .. Len(s) : Append(s, r)[k] = s[k]
      /\ Append(s, r)[n] = r
  <2> HIDE DEF s
  <2>1. n = Len(s) + 1
    BY DEF s
  <2> QED
    BY <1>1, <2>1, AppendProperties
<1>3. /\ asked'[c] = Append(s, r) /\ \A d \in Clients \ {c} : asked'[d] = asked[d]
      /\ asked' = [d \in Clients |-> asked'[d]]
  BY DEF ClientInv
<1>4. \A d \in Clients : asked'[d] \in Seq(Calls[d]) /\ Len(asked'[d]) <= MaxCalls[d]
  <2> SUFFICES ASSUME NEW d \in Clients
               PROVE  asked'[d] \in Seq(Calls[d]) /\ Len(asked'[d]) <= MaxCalls[d]
    OBVIOUS
  <2>1. CASE d = c
    BY <1>1, <1>2, <1>3, <2>1
  <2>2. CASE d # c
    BY <1>3, <2>2 DEF ClientInv
  <2> QED
    BY <2>1, <2>2
<1>5. Extends(asked, asked')
  <2> SUFFICES ASSUME NEW d \in Clients
               PROVE  /\ Len(asked[d]) \in Nat /\ Len(asked'[d]) \in Nat
                      /\ Len(asked[d]) <= Len(asked'[d])
                      /\ \A k \in 1 .. Len(asked[d]) : asked'[d][k] = asked[d][k]
    BY DEF Extends
  <2>1. CASE d = c
    BY <1>1, <1>2, <1>3, <2>1
  <2>2. CASE d # c
    BY <1>3, <2>2 DEF ClientInv
  <2> QED
    BY <2>1, <2>2
<1>6. Requested(RequestFrame(c, r), asked')
  <2> DEFINE f == RequestFrame(c, r)
  <2>1. /\ f.type = r.type /\ f.id = (reqID[c] + 1) % Max32
        /\ f.body = Marshal(RequestFields[r.type], r.args)
        /\ f.call[1] = c /\ f.call[2] = n
    BY DEF RequestFrame
  <2> HIDE DEF f
  <2>2. Max32 \in Nat \ {0}
    BY ByteOK DEF Max32, Max16
  <2>3. f.id \in 0 .. Max32 - 1
    BY <2>1, <2>2 DEF ClientInv
  <2>4. n \in 1 .. MaxCalls[c] /\ n <= Len(asked'[c]) /\ asked'[c][n] = r
    BY <1>1, <1>2, <1>3
  <2>5. r.type \in DOMAIN RequestFields
    BY CallsOK
  <2> QED
    BY <2>1, <2>3, <2>4, <2>5 DEF Requested, IsFrame, f
<1> QED
  BY <1>3, <1>4, <1>5, <1>6

\* A call writes a frame that is the request it was made for.
LEMMA ExecuteInv ==
  ASSUME ServiceInv, NEW c \in Clients, NEW r \in Calls[c], Execute(c, r), UNCHANGED serverVars
  PROVE  ServiceInv'
<1>1. PICK i \in Conns : i = socket[c]
  BY DEF Execute, ServiceInv, ClientInv
<1>2. /\ Len(asked[c]) < MaxCalls[c]
      /\ asked' = [asked EXCEPT ![c] = Append(@, r)]
      /\ reqID' = [reqID EXCEPT ![c] = (@ + 1) % Max32]
      /\ UNCHANGED <<listener, socket>>
  BY DEF Execute
<1>3. /\ Extends(asked, asked') /\ Requested(RequestFrame(c, r), asked')
      /\ asked' = [d \in Clients |-> asked'[d]]
      /\ \A d \in Clients : asked'[d] \in Seq(Calls[d]) /\ Len(asked'[d]) <= MaxCalls[d]
  BY <1>2, RequestFrameIs DEF ServiceInv
<1>4. reqID' \in [Clients -> 0 .. Max32 - 1]
  <2>1. Max32 \in Nat \ {0}
    BY ByteOK DEF Max32, Max16
  <2>2. reqID \in [Clients -> 0 .. Max32 - 1]
    BY DEF ServiceInv, ClientInv
  <2>3. (reqID[c] + 1) % Max32 \in 0 .. Max32 - 1
    BY <2>1, <2>2
  <2> QED
    BY <1>2, <2>2, <2>3
<1>5. /\ waiting' \in [Clients -> BOOLEAN]
      /\ outcome' = [d \in Clients |-> outcome'[d]]
      /\ \A d \in Clients : /\ outcome'[d].kind \in {"pending", "unknown", "answer"}
                            /\ waiting'[d] => socket'[d] \in Conns
  <2>1. CASE /\ waiting' = [waiting EXCEPT ![c] = TRUE]
             /\ outcome' = [outcome EXCEPT ![c] = Pending]
    <3>1. Pending.kind = "pending"
      BY DEF Pending
    <3> QED
      BY <1>1, <1>2, <2>1, <3>1 DEF ServiceInv, ClientInv
  <2>2. CASE /\ waiting' = waiting
             /\ outcome' = [outcome EXCEPT ![c] = Unknown]
    <3>1. Unknown.kind = "unknown"
      BY DEF Unknown
    <3> QED
      BY <1>1, <1>2, <2>2, <3>1 DEF ServiceInv, ClientInv
  <2> QED
    BY <2>1, <2>2 DEF Execute
<1>6. /\ ConnInv'
      /\ \A j \in Conns : conn'[j].phase = conn[j].phase
  <2>1. CASE conn' = [conn EXCEPT ![i] = SentUp(conn[i], RequestFrame(c, r))]
    <3>1. ConnShape(conn[i]) /\ Carries(conn[i], asked')
      BY <1>3, CarriesStays DEF ServiceInv, ConnInv
    <3> DEFINE d == SentUp(conn[i], RequestFrame(c, r))
    <3>2. ConnShape(d) /\ Carries(d, asked') /\ d.phase = conn[i].phase
      BY <1>3, <3>1, StreamsKeep, ZenonT(60)
    <3> HIDE DEF d
    <3>3. conn' = [conn EXCEPT ![i] = d]
      BY <2>1 DEF d
    <3>4. ConnInv' /\ conn'[i] = d /\ \A j \in Conns \ {i} : conn'[j] = conn[j]
      BY <1>2, <1>3, <3>2, <3>3, ConnOne DEF ServiceInv, ConnInv
    <3> QED
      BY <3>2, <3>4
  <2>2. CASE conn' = conn
    BY <1>2, <1>3, <2>2, ConnSame DEF ServiceInv, ConnInv
  <2> QED
    BY <1>1, <2>1, <2>2 DEF Execute
<1>7. ClientInv'
  BY <1>2, <1>3, <1>4, <1>5 DEF ServiceInv, ClientInv
<1>8. ServerTypeOK' /\ HandlerInv' /\ CountInv' /\ AcceptInv' /\ StopInv'
  BY <1>2, <1>3, <1>6, ServerKept
<1> QED
  BY <1>6, <1>7, <1>8 DEF ServiceInv

\* A call returns one of the three kinds of outcome.
LEMMA InterpretKind ==
  ASSUME NEW type, NEW f
  PROVE  Interpret(type, f).kind \in {"unknown", "answer"}
<1> DEFINE errors == {Answer(e.val[1], <<>>) : e \in Unmarshal(ErrorResponse, f.body, 0)}
           values == {Answer(0, v.val) : v \in ReadResponse(type, f.body)}
           answers == CASE f.type = "Error" -> errors
                        [] f.type = type -> values
                        [] OTHER -> {}
<1>1. \A a \in errors : a.kind = "answer"
  BY DEF Answer
<1>2. \A a \in values : a.kind = "answer"
  BY DEF Answer
<1>3. Interpret(type, f) = IF answers = {} THEN Unknown ELSE CHOOSE a \in answers : TRUE
  BY DEF Interpret
<1> HIDE DEF errors, values
<1>4. \A a \in answers : a.kind = "answer"
  <2>1. answers \in {errors, values, {}}
    OBVIOUS
  <2> QED
    BY <1>1, <1>2, <2>1
<1> HIDE DEF answers
<1>5. CASE answers = {}
  BY <1>3, <1>5 DEF Unknown
<1>6. CASE answers # {}
  <2>1. Interpret(type, f) \in answers
    BY <1>3, <1>6
  <2> QED
    BY <1>4, <2>1
<1> QED
  BY <1>5, <1>6

\* A client that reads takes one frame off its connection.
LEMMA ReceiveInv ==
  ASSUME ServiceInv, NEW c \in Clients, Receive(c), UNCHANGED serverVars
  PROVE  ServiceInv'
<1>1. PICK i \in Conns : i = socket[c]
  BY DEF Receive, ServiceInv, ClientInv
<1>2. /\ waiting' = [waiting EXCEPT ![c] = FALSE]
      /\ UNCHANGED <<listener, socket, reqID, asked>>
  BY DEF Receive
<1>3. Extends(asked, asked')
  BY <1>2, AskedSame DEF ServiceInv
<1>4. PICK o : o.kind \in {"unknown", "answer"} /\ outcome' = [outcome EXCEPT ![c] = o]
  <2>1. Unknown.kind = "unknown"
    BY DEF Unknown
  <2> QED
    BY <2>1, InterpretKind DEF Receive
<1>5. /\ ConnInv'
      /\ \A j \in Conns : conn'[j].phase = conn[j].phase
  <2>1. CASE conn[i].down # <<>> /\ conn' = [conn EXCEPT ![i].down = Tail(@)]
    <3>1. ConnShape(conn[i]) /\ Carries(conn[i], asked')
      BY <1>3, CarriesStays DEF ServiceInv, ConnInv
    <3> DEFINE d == [conn[i] EXCEPT !.down = Tail(conn[i].down)]
    <3>2. ConnShape(d) /\ Carries(d, asked') /\ d.phase = conn[i].phase
      BY <2>1, <3>1, StreamsKeep
    <3>3. conn' = [conn EXCEPT ![i] = d]
      BY <2>1
    <3> HIDE DEF d
    <3>4. ConnInv' /\ conn'[i] = d /\ \A j \in Conns \ {i} : conn'[j] = conn[j]
      BY <1>2, <1>3, <3>2, <3>3, ConnOne DEF ServiceInv, ConnInv
    <3> QED
      BY <3>2, <3>4
  <2>2. CASE conn' = conn
    BY <1>2, <1>3, <2>2, ConnSame DEF ServiceInv, ConnInv
  <2> QED
    BY <1>1, <2>1, <2>2 DEF Receive
<1>6. ClientInv'
  BY <1>2, <1>4 DEF ServiceInv, ClientInv
<1>7. ServerTypeOK' /\ HandlerInv' /\ CountInv' /\ AcceptInv' /\ StopInv'
  BY <1>2, <1>3, <1>5, ServerKept
<1> QED
  BY <1>5, <1>6, <1>7 DEF ServiceInv

\* A connection breaks.
LEMMA BreakConnInv ==
  ASSUME ServiceInv, NEW i \in Conns, BreakConn(i), UNCHANGED <<clientVars, serverVars>>
  PROVE  ServiceInv'
<1>1. conn' = [conn EXCEPT ![i] = Reset(conn[i])] /\ UNCHANGED <<listener, asked>>
  BY DEF BreakConn, clientVars
<1>2. Extends(asked, asked')
  BY <1>1, AskedSame DEF ServiceInv
<1>3. ConnShape(Reset(conn[i])) /\ Carries(Reset(conn[i]), asked') /\ Reset(conn[i]).phase = "reset"
  <2>1. ConnShape(conn[i]) /\ Carries(conn[i], asked)
    BY DEF ServiceInv, ConnInv
  <2> QED
    BY <1>1, <2>1, EndsKeep
<1>4. /\ ConnInv'
      /\ conn'[i] = Reset(conn[i]) /\ \A j \in Conns \ {i} : conn'[j] = conn[j]
  BY <1>1, <1>2, <1>3, ConnOne DEF ServiceInv, ConnInv
<1>5. ClientInv'
  BY DEF ServiceInv, ClientInv, clientVars
<1>6. ServerTypeOK' /\ HandlerInv' /\ CountInv' /\ AcceptInv' /\ StopInv'
  BY <1>1, <1>2, <1>3, <1>4, ServerKept
<1> QED
  BY <1>4, <1>5, <1>6 DEF ServiceInv

-----------------------------------------------------------------------------
(* The handlers that run, and what they hold *)

\* The server's steps leave the clients alone.
LEMMA ClientKept ==
  ASSUME ServiceInv, UNCHANGED clientVars
  PROVE  ClientInv' /\ Extends(asked, asked') /\ asked' = asked
<1>1. ClientInv' /\ asked' = asked
  BY DEF ServiceInv, ClientInv, clientVars
<1> QED
  BY <1>1, AskedSame DEF ServiceInv

\* One handler goes on with another frame.
LEMMA HandlerOne ==
  ASSUME ServiceInv, UNCHANGED asked, NEW i \in Conns, NEW f,
         NEW h \in {"none", "read", "serve", "reply", "done"},
         handler' = [handler EXCEPT ![i] = h], frame' = [frame EXCEPT ![i] = f],
         h = "serve" => Requested(f, asked), h = "reply" => IsFrame(f)
  PROVE  /\ HandlerInv' /\ handler' \in [Conns -> {"none", "read", "serve", "reply", "done"}]
         /\ handler'[i] = h /\ \A j \in Conns \ {i} : handler'[j] = handler[j]
<1>1. /\ handler \in [Conns -> {"none", "read", "serve", "reply", "done"}]
      /\ frame = [j \in Conns |-> frame[j]]
  BY DEF ServiceInv, ServerTypeOK, HandlerInv
<1>2. /\ handler' \in [Conns -> {"none", "read", "serve", "reply", "done"}]
      /\ handler'[i] = h /\ \A j \in Conns \ {i} : handler'[j] = handler[j]
      /\ frame' = [j \in Conns |-> frame'[j]]
      /\ frame'[i] = f /\ \A j \in Conns \ {i} : frame'[j] = frame[j]
  BY <1>1
<1>3. ASSUME NEW j \in Conns
      PROVE  /\ handler'[j] = "serve" => Requested(frame'[j], asked')
             /\ handler'[j] = "reply" => IsFrame(frame'[j])
  <2>1. CASE j = i
    BY <1>2, <2>1
  <2>2. CASE j # i
    BY <1>2, <2>2 DEF ServiceInv, HandlerInv
  <2> QED
    BY <2>1, <2>2
<1> QED
  BY <1>2, <1>3 DEF HandlerInv

\* A handler that runs goes on running.
LEMMA RunsOn ==
  ASSUME ServiceInv, NEW i \in Conns, i \in Running,
         handler'[i] \in {"read", "serve", "reply"},
         \A j \in Conns \ {i} : handler'[j] = handler[j],
         UNCHANGED <<alive, wg, main, stopper, listener>>
  PROVE  CountInv' /\ StopInv'
<1>1. Running' = Running
  BY DEF Running
<1> QED
  BY <1>1 DEF ServiceInv, CountInv, StopInv

\* The handlers, the counter and the stopper are left alone.
LEMMA CountSame ==
  ASSUME ServiceInv, UNCHANGED <<alive, handler, wg>>
  PROVE  CountInv' /\ Running' = Running
BY DEF ServiceInv, CountInv, Running

\* A handler ends.
LEMMA HandlerEnds ==
  ASSUME ServiceInv, NEW i \in Conns, i \in Running, wg' = wg - 1,
         handler'[i] \notin {"read", "serve", "reply"},
         \A j \in Conns \ {i} : handler'[j] = handler[j],
         UNCHANGED <<alive, main, stopper, listener>>
  PROVE  CountInv' /\ StopInv' /\ wg' \in Nat
<1>1. Running' = Running \ {i}
  BY DEF Running
<1>2. IsFiniteSet(Running) /\ wg = Cardinality(Running) /\ Cardinality(Running) \in Nat
  BY FS_CardinalityType DEF ServiceInv, CountInv
<1>3. IsFiniteSet(Running \ {i}) /\ Cardinality(Running \ {i}) = Cardinality(Running) - 1
  BY <1>2, FS_RemoveElement
<1>4. Cardinality(Running \ {i}) \in Nat
  BY <1>3, FS_CardinalityType
<1>5. CountInv'
  BY <1>1, <1>2, <1>3 DEF ServiceInv, CountInv
<1>6. StopInv'
  BY <1>1, <1>2, <1>3, <1>4 DEF ServiceInv, StopInv
<1> QED
  BY <1>2, <1>3, <1>4, <1>5, <1>6

-----------------------------------------------------------------------------
(* The main goroutine's steps *)

\* The process ends.
LEMMA ExitInv ==
  ASSUME ServiceInv, ExitProcess, UNCHANGED clientVars
  PROVE  ServiceInv'
<1>1. ClientInv' /\ Extends(asked, asked') /\ asked' = asked
  BY ClientKept
<1>2. /\ conn' = Orphaned /\ alive' = FALSE /\ main' = "exited" /\ stopper' = "exited"
      /\ listener' \in {listener, "closed"}
      /\ inHand' = None /\ wg' = 0 /\ UNCHANGED <<closed, brokerOpen, served>>
      /\ handler' = [i \in Conns |-> "none"] /\ frame' = [i \in Conns |-> NoFrame]
  BY DEF ExitProcess
<1>3. ConnInv'
  <2>1. ASSUME NEW j \in Conns
        PROVE  ConnShape(conn'[j]) /\ Carries(conn'[j], asked')
    <3>1. ConnShape(conn[j]) /\ Carries(conn[j], asked)
      BY DEF ServiceInv, ConnInv
    <3>2. conn'[j] = ServerClosed(conn[j])
      BY <1>2 DEF Orphaned
    <3> QED
      BY <1>1, <3>1, <3>2, EndsKeep
  <2>2. conn' = [j \in Conns |-> conn'[j]]
    BY <1>2 DEF Orphaned
  <2>3. listener' \in {"none", "listening", "closed"}
    BY <1>2 DEF ServiceInv, ConnInv
  <2> QED
    BY <2>1, <2>2, <2>3 DEF ConnInv
<1>4. ServerTypeOK'
  BY <1>2 DEF ServiceInv, ServerTypeOK
<1>5. HandlerInv' /\ AcceptInv' /\ StopInv'
  BY <1>2 DEF HandlerInv, AcceptInv, StopInv
<1>6. CountInv'
  <2>1. Running' = {}
    BY <1>2 DEF Running
  <2> QED
    BY <1>2, <2>1, FS_EmptySet DEF CountInv
<1> QED
  BY <1>1, <1>3, <1>4, <1>5, <1>6 DEF ServiceInv

\* The main goroutine listens, or ends the process because it cannot.
LEMMA ListenInv ==
  ASSUME ServiceInv, Listen, UNCHANGED clientVars
  PROVE  ServiceInv'
<1>1. CASE ExitProcess
  BY <1>1, ExitInv
<1>2. CASE /\ listener' = "listening" /\ main' = "accept"
           /\ UNCHANGED <<conn, alive, inHand, handler, frame, wg, closed, stopper,
                          brokerOpen, served>>
  <2>1. ClientInv' /\ Extends(asked, asked') /\ asked' = asked
    BY ClientKept
  <2>2. ConnInv'
    BY <1>2, <2>1, ConnSame DEF ServiceInv
  <2>3. ServerTypeOK' /\ AcceptInv' /\ StopInv'
    BY <1>2 DEF ServiceInv, ServerTypeOK, AcceptInv, StopInv
  <2>4. HandlerInv'
    BY <1>2, <2>1 DEF ServiceInv, HandlerInv
  <2>5. CountInv'
    BY <1>2, CountSame
  <2> QED
    BY <2>1, <2>2, <2>3, <2>4, <2>5 DEF ServiceInv
<1> QED
  BY <1>1, <1>2 DEF Listen

\* An accepted connection is in hand and is not counted yet.
LEMMA AcceptKeeps ==
  ASSUME ServiceInv, NEW i \in Conns, Accept(i), UNCHANGED clientVars
  PROVE  ServiceInv'
<1>1. /\ listener = "listening" /\ conn[i].phase = "backlog"
      /\ conn' = [conn EXCEPT ![i] = Accepted(conn[i])]
      /\ inHand' = i /\ main' = "spawn"
      /\ UNCHANGED <<listener, alive, handler, frame, wg, closed, stopper,
                     brokerOpen, served>>
  BY DEF Accept
<1>2. ClientInv' /\ Extends(asked, asked') /\ asked' = asked
  BY ClientKept
<1>3. /\ ConnShape(Accepted(conn[i])) /\ Carries(Accepted(conn[i]), asked')
      /\ Accepted(conn[i]).phase = "accepted"
  <2>1. ConnShape(conn[i]) /\ Carries(conn[i], asked)
    BY DEF ServiceInv, ConnInv
  <2> QED
    BY <1>2, <2>1, EndsKeep
<1>4. /\ ConnInv'
      /\ conn'[i] = Accepted(conn[i]) /\ \A j \in Conns \ {i} : conn'[j] = conn[j]
  BY <1>1, <1>2, <1>3, ConnOne DEF ServiceInv, ConnInv
<1>5. ServerTypeOK' /\ StopInv'
  BY <1>1 DEF ServiceInv, ServerTypeOK, StopInv
<1>6. HandlerInv'
  BY <1>1, <1>2 DEF ServiceInv, HandlerInv
<1>7. CountInv'
  BY <1>1, CountSame
<1>8. AcceptInv'
  <2>1. handler[i] = "none"
    BY <1>1 DEF ServiceInv, AcceptInv
  <2> QED
    BY <1>1, <1>3, <1>4, <2>1 DEF ServiceInv, AcceptInv
<1> QED
  BY <1>2, <1>4, <1>5, <1>6, <1>7, <1>8 DEF ServiceInv

\* wg.Add and the go statement: one more handler, and one more counted.
LEMMA SpawnInv ==
  ASSUME ServiceInv, Spawn, UNCHANGED clientVars
  PROVE  ServiceInv'
<1>1. PICK i \in Conns : i = inHand
  BY DEF Spawn, ServiceInv, ServerTypeOK
<1>2. /\ alive /\ main = "spawn" /\ wg' = wg + 1
      /\ handler' = [handler EXCEPT ![i] = "read"]
      /\ main' = "accept" /\ inHand' = None
      /\ UNCHANGED <<connVars, alive, frame, closed, stopper, brokerOpen, served>>
  BY <1>1 DEF Spawn
<1>3. ClientInv' /\ Extends(asked, asked') /\ asked' = asked
  BY ClientKept
<1>4. ConnInv'
  BY <1>2, <1>3, ConnSame DEF ServiceInv, ConnInv, connVars
<1>5. handler[i] = "none" /\ conn[i].phase \in {"accepted", "reset"}
  BY <1>1, <1>2 DEF ServiceInv, AcceptInv
<1>6. /\ HandlerInv' /\ handler' \in [Conns -> {"none", "read", "serve", "reply", "done"}]
      /\ handler'[i] = "read" /\ \A j \in Conns \ {i} : handler'[j] = handler[j]
  <2>1. frame' = [frame EXCEPT ![i] = frame[i]]
    BY <1>2 DEF ServiceInv, HandlerInv
  <2> QED
    BY <1>2, <1>3, <2>1, HandlerOne
<1>7. AcceptInv'
  BY <1>2, <1>5, <1>6 DEF ServiceInv, AcceptInv, connVars
<1>8. /\ Running' = Running \cup {i} /\ i \notin Running
      /\ IsFiniteSet(Running) /\ wg = Cardinality(Running)
  BY <1>5, <1>6 DEF Running, ServiceInv, CountInv
<1>9. IsFiniteSet(Running \cup {i}) /\ Cardinality(Running \cup {i}) = Cardinality(Running) + 1
  BY <1>8, FS_AddElement
<1>10. CountInv'
  BY <1>2, <1>8, <1>9 DEF CountInv
<1>11. StopInv'
  <2>1. ASSUME stopper' \in {"close", "exit"}, listener' = "closed"
        PROVE  Cardinality(Running') <= 1
    <3>1. Running = {}
      BY <1>2, <2>1 DEF ServiceInv, StopInv, connVars
    <3>2. Cardinality(Running) = 0
      BY <3>1, FS_EmptySet
    <3> QED
      BY <1>8, <1>9, <3>2
  <2> QED
    BY <1>2, <2>1 DEF StopInv
<1>12. ServerTypeOK'
  BY <1>2, <1>6 DEF ServiceInv, ServerTypeOK
<1> QED
  BY <1>3, <1>4, <1>6, <1>7, <1>10, <1>11, <1>12 DEF ServiceInv

-----------------------------------------------------------------------------
(* The handlers' steps *)

\* A handler returns; it has dropped its frame, or leaves it.
LEMMA EndHandlerInv ==
  ASSUME ServiceInv, NEW i \in Conns, i \in Running, EndHandler(i), NEW f,
         frame' = [frame EXCEPT ![i] = f], UNCHANGED clientVars,
         UNCHANGED <<listener, alive, main, inHand, closed, stopper, brokerOpen, served>>
  PROVE  ServiceInv'
<1>1. /\ conn' = [conn EXCEPT ![i] = ServerClosed(conn[i])]
      /\ wg' = wg - 1 /\ handler' = [handler EXCEPT ![i] = "done"]
  BY DEF EndHandler
<1>2. ClientInv' /\ Extends(asked, asked') /\ asked' = asked
  BY ClientKept
<1>3. /\ ConnShape(ServerClosed(conn[i])) /\ Carries(ServerClosed(conn[i]), asked')
      /\ ServerClosed(conn[i]).phase = conn[i].phase
  <2>1. ConnShape(conn[i]) /\ Carries(conn[i], asked)
    BY DEF ServiceInv, ConnInv
  <2> QED
    BY <1>2, <2>1, EndsKeep
<1>4. /\ ConnInv'
      /\ conn'[i] = ServerClosed(conn[i]) /\ \A j \in Conns \ {i} : conn'[j] = conn[j]
  BY <1>1, <1>2, <1>3, ConnOne DEF ServiceInv, ConnInv
<1>5. /\ HandlerInv' /\ handler' \in [Conns -> {"none", "read", "serve", "reply", "done"}]
      /\ handler'[i] = "done" /\ \A j \in Conns \ {i} : handler'[j] = handler[j]
  BY <1>1, <1>2, HandlerOne
<1>6. CountInv' /\ StopInv' /\ wg' \in Nat
  BY <1>1, <1>5, HandlerEnds
<1>7. ServerTypeOK'
  BY <1>5, <1>6 DEF ServiceInv, ServerTypeOK
<1>8. AcceptInv'
  BY <1>3, <1>4, <1>5 DEF ServiceInv, ServerTypeOK, AcceptInv, Running
<1> QED
  BY <1>2, <1>4, <1>5, <1>6, <1>7, <1>8 DEF ServiceInv

\* A handler goes on: with its connection as d, in phase h, with frame f.
LEMMA HandlerGoes ==
  ASSUME ServiceInv, NEW i \in Conns, i \in Running, NEW h \in {"read", "serve", "reply"},
         NEW d, ConnShape(d), Carries(d, asked), d.phase = conn[i].phase, NEW f,
         h = "serve" => Requested(f, asked), h = "reply" => IsFrame(f),
         conn' = [conn EXCEPT ![i] = d], frame' = [frame EXCEPT ![i] = f],
         handler' = [handler EXCEPT ![i] = h], UNCHANGED clientVars,
         UNCHANGED <<listener, alive, main, inHand, wg, closed, stopper, brokerOpen>>
  PROVE  ServiceInv'
<1>1. ClientInv' /\ Extends(asked, asked') /\ asked' = asked
  BY ClientKept
<1>2. /\ ConnInv'
      /\ conn'[i] = d /\ \A j \in Conns \ {i} : conn'[j] = conn[j]
  BY <1>1, ConnOne DEF ServiceInv, ConnInv
<1>3. /\ HandlerInv' /\ handler' \in [Conns -> {"none", "read", "serve", "reply", "done"}]
      /\ handler'[i] = h /\ \A j \in Conns \ {i} : handler'[j] = handler[j]
  BY <1>1, HandlerOne
<1>4. CountInv' /\ StopInv'
  BY <1>3, RunsOn
<1>5. ServerTypeOK'
  BY <1>3 DEF ServiceInv, ServerTypeOK
<1>6. AcceptInv'
  BY <1>2, <1>3 DEF ServiceInv, ServerTypeOK, AcceptInv, Running
<1> QED
  BY <1>1, <1>2, <1>3, <1>4, <1>5, <1>6 DEF ServiceInv

\* A handler takes the next request, or ends and is counted off.
LEMMA ReadFrameInv ==
  ASSUME ServiceInv, NEW i \in Conns, ReadFrame(i), UNCHANGED clientVars
  PROVE  ServiceInv'
<1>1. /\ i \in Running
      /\ UNCHANGED <<listener, alive, main, inHand, closed, stopper, brokerOpen, served>>
  BY DEF ReadFrame, Running
<1>2. CASE /\ conn[i].up # <<>>
           /\ frame' = [frame EXCEPT ![i] = Head(conn[i].up)]
           /\ conn' = [conn EXCEPT ![i].up = Tail(@)]
           /\ handler' = [handler EXCEPT ![i] = "serve"]
           /\ UNCHANGED wg
  <2> DEFINE d == [conn[i] EXCEPT !.up = Tail(conn[i].up)]
             f == Head(conn[i].up)
  <2>1. ConnShape(conn[i]) /\ Carries(conn[i], asked)
    BY DEF ServiceInv, ConnInv
  <2>2. ConnShape(d) /\ Carries(d, asked) /\ d.phase = conn[i].phase /\ Requested(f, asked)
    BY <1>2, <2>1, StreamsKeep
  <2>3. conn' = [conn EXCEPT ![i] = d] /\ frame' = [frame EXCEPT ![i] = f]
    BY <1>2
  <2> HIDE DEF d, f
  <2> QED
    BY <1>1, <1>2, <2>2, <2>3, HandlerGoes
<1>3. CASE EndHandler(i) /\ UNCHANGED frame
  <2>1. frame' = [frame EXCEPT ![i] = frame[i]]
    BY <1>3 DEF ServiceInv, HandlerInv
  <2> QED
    BY <1>1, <1>3, <2>1, EndHandlerInv
<1> QED
  BY <1>2, <1>3 DEF ReadFrame

\* The answer to a request is a frame.
LEMMA ResponseFrameIs ==
  ASSUME NEW f, IsFrame(f), NEW r
  PROVE  IsFrame(ResponseFrame(f, r)) /\ ResponseFrame(f, r).call = f.call
<1> DEFINE t == IF r.code = 0 THEN f.type ELSE "Error"
           b == IF r.code = 0 THEN ResponseBody(f.type, r.val)
                ELSE Marshal(ErrorResponse, <<r.code, <<0>>>>)
<1>1. ResponseFrame(f, r) = [type |-> t, id |-> f.id, body |-> b, call |-> f.call]
  BY DEF ResponseFrame
<1>2. t \in DOMAIN RequestFields \cup {"Error"}
  BY DEF IsFrame
<1> HIDE DEF t, b
<1>3. /\ ResponseFrame(f, r).type = t /\ ResponseFrame(f, r).id = f.id
      /\ ResponseFrame(f, r).call = f.call
  BY <1>1
<1> QED
  BY <1>2, <1>3 DEF IsFrame

\* A handler turns the request into its response.
LEMMA ProcessFrameInv ==
  ASSUME ServiceInv, NEW i \in Conns, ProcessFrame(i), UNCHANGED clientVars
  PROVE  ServiceInv'
<1>1. PICK q, r : Answers(i, frame[i], q, r)
  BY DEF ProcessFrame
<1>2. /\ handler[i] = "serve" /\ i \in Running
      /\ UNCHANGED <<connVars, alive, main, inHand, wg, closed, stopper, brokerOpen>>
  BY DEF ProcessFrame, Running
<1>3. /\ frame' = [frame EXCEPT ![i] = ResponseFrame(frame[i], r)]
      /\ handler' = [handler EXCEPT ![i] = "reply"]
  BY <1>1 DEF Answers
<1>4. IsFrame(ResponseFrame(frame[i], r))
  <2>1. IsFrame(frame[i])
    BY <1>2 DEF ServiceInv, HandlerInv, Requested
  <2> QED
    BY <2>1, ResponseFrameIs, SMTT(30)
<1>5. ConnShape(conn[i]) /\ Carries(conn[i], asked) /\ conn' = [conn EXCEPT ![i] = conn[i]]
  BY <1>2 DEF ServiceInv, ConnInv, connVars
<1> QED
  BY <1>2, <1>3, <1>4, <1>5, HandlerGoes DEF connVars

\* A handler writes its response, or ends and is counted off.
LEMMA WriteFrameInv ==
  ASSUME ServiceInv, NEW i \in Conns, WriteFrame(i), UNCHANGED clientVars
  PROVE  ServiceInv'
<1>1. /\ handler[i] = "reply" /\ i \in Running
      /\ frame' = [frame EXCEPT ![i] = NoFrame]
      /\ UNCHANGED <<listener, alive, main, inHand, closed, stopper, brokerOpen, served>>
  BY DEF WriteFrame, Running
<1>2. CASE /\ conn' = [conn EXCEPT ![i] = SentDown(@, frame[i])]
           /\ handler' = [handler EXCEPT ![i] = "read"]
           /\ UNCHANGED wg
  <2> DEFINE d == SentDown(conn[i], frame[i])
  <2>1. ConnShape(conn[i]) /\ Carries(conn[i], asked) /\ IsFrame(frame[i])
    BY <1>1 DEF ServiceInv, ConnInv, HandlerInv
  <2>2. ConnShape(d) /\ Carries(d, asked) /\ d.phase = conn[i].phase
    BY <2>1, StreamsKeep
  <2>3. conn' = [conn EXCEPT ![i] = d]
    BY <1>2
  <2> HIDE DEF d
  <2> QED
    BY <1>1, <1>2, <2>2, <2>3, HandlerGoes
<1>3. CASE EndHandler(i)
  BY <1>1, <1>3, EndHandlerInv
<1> QED
  BY <1>2, <1>3 DEF WriteFrame

-----------------------------------------------------------------------------
(* The signal goroutine's steps *)

\* Only the stopper moves, to where StopInv does not speak or nobody runs.
LEMMA StopperInv ==
  ASSUME ServiceInv, UNCHANGED clientVars,
         UNCHANGED <<connVars, alive, main, inHand, handler, frame, wg, served>>,
         stopper' \in {"idle", "unlisten", "wait", "close", "exit", "exited"},
         closed' \in BOOLEAN, brokerOpen' \in BOOLEAN,
         stopper' \in {"close", "exit"} => StopInv' 
  PROVE  ServiceInv'
<1>1. ClientInv' /\ Extends(asked, asked') /\ asked' = asked
  BY ClientKept
<1>2. ConnInv'
  BY <1>1, ConnSame DEF ServiceInv, ConnInv, connVars
<1>3. ServerTypeOK' /\ AcceptInv' /\ StopInv'
  BY DEF ServiceInv, ServerTypeOK, AcceptInv, StopInv, connVars
<1>4. HandlerInv'
  BY <1>1 DEF ServiceInv, HandlerInv
<1>5. CountInv'
  BY CountSame
<1> QED
  BY <1>1, <1>2, <1>3, <1>4, <1>5 DEF ServiceInv

\* The signal goroutine begins Stop.
LEMMA SignalInv ==
  ASSUME ServiceInv, Signal, UNCHANGED clientVars
  PROVE  ServiceInv'
<1>1. brokerOpen \in BOOLEAN
  BY DEF ServiceInv, ServerTypeOK
<1> QED
  BY <1>1, StopperInv DEF Signal, StopperAt

\* Stop closes the listener, and with it the backlog.
LEMMA StopListenerInv ==
  ASSUME ServiceInv, StopListener, UNCHANGED clientVars
  PROVE  ServiceInv'
<1>1. closed \in BOOLEAN /\ brokerOpen \in BOOLEAN
  BY DEF ServiceInv, ServerTypeOK
<1>2. /\ stopper' = "wait"
      /\ UNCHANGED <<alive, main, inHand, handler, frame, wg, closed, brokerOpen, served>>
  BY DEF StopListener, StopperAt
<1>3. CASE UNCHANGED connVars
  BY <1>1, <1>2, <1>3, StopperInv
<1>4. CASE listener' = "closed" /\ conn' = WithoutBacklog
  <2>1. ClientInv' /\ Extends(asked, asked') /\ asked' = asked
    BY ClientKept
  <2>2. ASSUME NEW j \in Conns
        PROVE  /\ ConnShape(conn'[j]) /\ Carries(conn'[j], asked')
               /\ conn[j].phase \in {"accepted", "reset"} => conn'[j].phase = conn[j].phase
    <3>1. ConnShape(conn[j]) /\ Carries(conn[j], asked)
      BY DEF ServiceInv, ConnInv
    <3>2. conn'[j] = IF conn[j].phase = "backlog" THEN Reset(conn[j]) ELSE conn[j]
      BY <1>4 DEF WithoutBacklog
    <3> QED
      BY <2>1, <3>1, <3>2, EndsKeep
  <2>3. conn' = [j \in Conns |-> conn'[j]]
    BY <1>4 DEF WithoutBacklog
  <2>4. ConnInv'
    BY <1>4, <2>2, <2>3 DEF ConnInv
  <2>5. ServerTypeOK' /\ StopInv'
    BY <1>2 DEF ServiceInv, ServerTypeOK, StopInv
  <2>6. AcceptInv'
    BY <1>2, <2>2 DEF ServiceInv, ServerTypeOK, AcceptInv
  <2>7. HandlerInv'
    BY <1>2, <2>1 DEF ServiceInv, HandlerInv
  <2>8. CountInv'
    BY <1>2, CountSame
  <2> QED
    BY <2>1, <2>4, <2>5, <2>6, <2>7, <2>8 DEF ServiceInv
<1> QED
  BY <1>3, <1>4 DEF StopListener

\* wg.Wait returns when no handler runs.
LEMMA StopWaitInv ==
  ASSUME ServiceInv, StopWait, UNCHANGED clientVars
  PROVE  ServiceInv'
<1>1. closed \in BOOLEAN /\ brokerOpen \in BOOLEAN
  BY DEF ServiceInv, ServerTypeOK
<1>2. /\ stopper' = "close" /\ wg = 0
      /\ UNCHANGED <<connVars, alive, main, inHand, handler, frame, wg, closed,
                     brokerOpen, served>>
  BY DEF StopWait, StopperAt
<1>3. Running' = {}
  <2>1. Running' = Running /\ IsFiniteSet(Running) /\ Cardinality(Running) = 0
    BY <1>2 DEF ServiceInv, CountInv, Running
  <2> QED
    BY <2>1, FS_EmptySet
<1>4. StopInv'
  <2>1. Cardinality(Running') = 0
    BY <1>3, FS_EmptySet
  <2> QED
    BY <1>3, <2>1 DEF StopInv
<1> QED
  BY <1>1, <1>2, <1>4, StopperInv

\* The broker is closed after the handlers have ended.
LEMMA CloseBrokerInv ==
  ASSUME ServiceInv, CloseBroker, UNCHANGED clientVars
  PROVE  ServiceInv'
<1>1. closed \in BOOLEAN
  BY DEF ServiceInv, ServerTypeOK
<1>2. /\ stopper = "close" /\ stopper' = "exit" /\ brokerOpen' = FALSE
      /\ UNCHANGED <<connVars, alive, main, inHand, handler, frame, wg, closed, served>>
  BY DEF CloseBroker, StopperAt
<1>3. StopInv'
  <2>1. Running' = Running /\ listener' = listener
    BY <1>2 DEF Running, connVars
  <2> QED
    BY <1>2, <2>1 DEF ServiceInv, StopInv
<1> QED
  BY <1>1, <1>2, <1>3, StopperInv

-----------------------------------------------------------------------------
(* The invariant, and what follows from it *)

\* The invariant holds before the daemon listens.
LEMMA ServiceInitially == Init => ServiceInv
<1> SUFFICES ASSUME Init
             PROVE  ServiceInv
  OBVIOUS
<1> USE DEF Init
<1>1. ConnInv
  <2>1. NewConn \in Shape({}) /\ Len(NewConn.up) = 0 /\ Len(NewConn.down) = 0
    <3>1. <<>> \in Seq({}) /\ Len(<<>>) = 0
      OBVIOUS
    <3> QED
      BY <3>1 DEF NewConn, Shape
  <2>2. ConnShape(NewConn) /\ Carries(NewConn, asked)
    BY <2>1 DEF ConnShape, Carries
  <2> QED
    BY <2>2 DEF ConnInit, ConnInv
<1>2. ClientInv
  <2>1. Max32 \in Nat \ {0}
    BY ByteOK DEF Max32, Max16
  <2>2. \A c \in Clients : MaxCalls[c] \in Nat
    BY ConnectionConstantsOK
  <2>3. Unknown.kind = "unknown"
    BY DEF Unknown
  <2>4. \A c \in Clients : <<>> \in Seq(Calls[c]) /\ Len(<<>>) = 0
    OBVIOUS
  <2> QED
    BY <2>1, <2>2, <2>3, <2>4 DEF ClientInit, ClientInv
<1>3. ServerTypeOK /\ HandlerInv /\ AcceptInv /\ StopInv
  BY DEF ServerInit, ServerTypeOK, HandlerInv, AcceptInv, StopInv
<1>4. CountInv
  <2>1. Running = {}
    BY DEF ServerInit, Running
  <2> QED
    BY <2>1, FS_EmptySet DEF ServerInit, CountInv
<1> QED
  BY <1>1, <1>2, <1>3, <1>4 DEF ServiceInv

\* ServiceInv is an inductive invariant: every step of the clients, of the
\* daemon's goroutines and of the network keeps it.
THEOREM ServiceInductive == ServiceInv /\ [Next]_vars => ServiceInv'
<1> SUFFICES ASSUME ServiceInv, [Next]_vars
             PROVE  ServiceInv'
  OBVIOUS
<1>1. ASSUME NEW c \in Clients, ClientNext(c), UNCHANGED serverVars
      PROVE  ServiceInv'
  BY <1>1, ConnectInv, CloseInv, ExecuteInv, ReceiveInv DEF ClientNext
<1>2. ASSUME ServerNext, UNCHANGED clientVars
      PROVE  ServiceInv'
  <2>1. CASE StartStep \/ AcceptFails
    <3>1. CASE Listen
      BY <1>2, <3>1, ListenInv
    <3>2. CASE \E i \in Conns : Accept(i)
      BY <1>2, <3>2, AcceptKeeps
    <3>3. CASE Spawn
      BY <1>2, <3>3, SpawnInv
    <3>4. CASE AcceptFails
      BY <1>2, <3>4, ExitInv DEF AcceptFails
    <3> QED
      BY <2>1, <3>1, <3>2, <3>3, <3>4 DEF StartStep
  <2>2. ASSUME NEW i \in Conns, HandlerStep(i)
        PROVE  ServiceInv'
    BY <1>2, <2>2, ReadFrameInv, ProcessFrameInv, WriteFrameInv DEF HandlerStep
  <2>3. CASE Signal
    BY <1>2, <2>3, SignalInv
  <2>4. CASE StopStep
    <3>1. CASE StopListener
      BY <1>2, <3>1, StopListenerInv
    <3>2. CASE StopWait
      BY <1>2, <3>2, StopWaitInv
    <3>3. CASE CloseBroker
      BY <1>2, <3>3, CloseBrokerInv
    <3>4. CASE Exit
      BY <1>2, <3>4, ExitInv DEF Exit
    <3> QED
      BY <2>4, <3>1, <3>2, <3>3, <3>4 DEF StopStep
  <2> QED
    BY <1>2, <2>1, <2>2, <2>3, <2>4 DEF ServerNext
<1>3. ASSUME NEW i \in Conns, BreakConn(i), UNCHANGED <<clientVars, serverVars>>
      PROVE  ServiceInv'
  BY <1>3, BreakConnInv
<1>4. CASE UNCHANGED vars
  <2>1. UNCHANGED clientVars /\ UNCHANGED serverVars /\ UNCHANGED connVars
    BY <1>4 DEF vars
  <2>2. ClientInv' /\ Extends(asked, asked') /\ asked' = asked
    BY <2>1, ClientKept
  <2>3. ConnInv'
    BY <2>1, <2>2, ConnSame DEF ServiceInv, ConnInv, connVars
  <2>4. ServerTypeOK' /\ HandlerInv' /\ CountInv' /\ AcceptInv' /\ StopInv'
    BY <2>1, <2>2, ServerKept DEF connVars
  <2> QED
    BY <2>2, <2>3, <2>4 DEF ServiceInv
<1> QED
  BY <1>1, <1>2, <1>3, <1>4 DEF Next

\* It holds in every state of every behaviour.
LEMMA ServiceAlways == Spec => []ServiceInv
<1> QED
  BY ServiceInitially, ServiceInductive, PTL DEF Spec

\* The invariant contains the types.
LEMMA ServiceTypes == ServiceInv => TypeOK
<1> SUFFICES ASSUME ServiceInv
             PROVE  TypeOK
  OBVIOUS
<1>1. ConnTypeOK(IsFrame)
  <2>1. ASSUME NEW i \in Conns
        PROVE  /\ conn[i].phase \in {"unused", "backlog", "accepted", "reset"}
               /\ {conn[i].clientOpen, conn[i].serverOpen} \subseteq BOOLEAN
               /\ \A n \in DOMAIN conn[i].up : IsFrame(conn[i].up[n])
               /\ \A n \in DOMAIN conn[i].down : IsFrame(conn[i].down[n])
    <3>1. ConnShape(conn[i]) /\ Carries(conn[i], asked)
      BY DEF ServiceInv, ConnInv
    <3>2. /\ IsSeq(conn[i].up) /\ IsSeq(conn[i].down)
          /\ conn[i].clientOpen \in BOOLEAN /\ conn[i].serverOpen \in BOOLEAN
          /\ conn[i].phase \in {"unused", "backlog", "accepted", "reset"}
      BY <3>1, StreamsAre
    <3>3. /\ DOMAIN conn[i].up = 1 .. Len(conn[i].up)
          /\ DOMAIN conn[i].down = 1 .. Len(conn[i].down)
      BY <3>2, SeqFacts
    <3> QED
      BY <3>1, <3>2, <3>3 DEF Carries, Requested
  <2> QED
    BY <2>1, SMTT(30) DEF ServiceInv, ConnInv, ConnTypeOK
<1>2. ClientTypeOK
  BY DEF ServiceInv, ClientInv, ClientTypeOK
<1> QED
  BY <1>1, <1>2 DEF ServiceInv, TypeOK

\* Connections, clients and the daemon always have values of their types: a
\* frame on the wire names a request type or Error, has a ReqID that fits 32
\* bits, and belongs to a call its client may have made.
THEOREM ServiceTypeCorrect == Spec => []TypeOK
<1> QED
  BY ServiceAlways, ServiceTypes, PTL

\* When Stop has returned with the listener closed, at most one handler runs
\* or is about to, however many connections there are: s.wg counts exactly the
\* handlers that run, and Accept has nothing more to return.
THEOREM StopDrainsAlways == Spec => []StopDrains
<1>1. ServiceInv => StopDrains
  <2> SUFFICES ASSUME ServiceInv, stopper \in {"close", "exit"}, listener = "closed"
               PROVE  Cardinality(Running \cup IF main = "spawn" THEN {inHand} ELSE {}) <= 1
    BY DEF StopDrains
  <2>1. CASE main = "spawn"
    <3>1. Running \cup (IF main = "spawn" THEN {inHand} ELSE {}) = {inHand}
      BY <2>1 DEF ServiceInv, StopInv
    <3>2. Cardinality({inHand}) = 1
      BY FS_Singleton
    <3> QED
      BY <3>1, <3>2
  <2>2. CASE main # "spawn"
    <3>1. Running \cup (IF main = "spawn" THEN {inHand} ELSE {}) = Running
      BY <2>2
    <3> QED
      BY <3>1 DEF ServiceInv, StopInv
  <2> QED
    BY <2>1, <2>2
<1> QED
  BY <1>1, ServiceAlways, PTL

-----------------------------------------------------------------------------
(* Calls: the second inductive invariant *)

\* The frames under way as requests, and as answers, on connection c, whose
\* handler is at h with frame g.
Asking(c, h, g) ==
  {c.up[n] : n \in 1 .. Len(c.up)} \cup IF h = "serve" THEN {g} ELSE {}
Answering(c, h, g) ==
  {c.down[n] : n \in 1 .. Len(c.down)} \cup IF h = "reply" THEN {g} ELSE {}

Idle(c, h) == Len(c.up) = 0 /\ Len(c.down) = 0 /\ h \notin {"serve", "reply"}

\* One frame at most is under way, in one of four places; a server end that is
\* closed reads nothing, and has no handler.
OneFrame(c, h) ==
  /\ Len(c.up) + Len(c.down) <= 1
  /\ h \in {"serve", "reply"} => Len(c.up) = 0 /\ Len(c.down) = 0
  /\ ~c.serverOpen => Len(c.up) = 0 /\ h \notin {"read", "serve", "reply"}
  /\ c.phase = "unused" => Idle(c, h)

LoadInv ==
  /\ \A i \in Conns : /\ OneFrame(conn[i], handler[i])
                      /\ alive /\ conn[i].phase = "backlog" => conn[i].serverOpen
  /\ main = "spawn" => conn[inHand].serverOpen

\* Clients do not share connections. One that does not wait has nothing under
\* way, unless the connection broke; one that waits, nothing but its last call.
OwnerInv ==
  /\ \A c, d \in Clients : socket[c] = socket[d] /\ socket[c] \in Conns => c = d
  /\ \A c \in Clients :
       /\ waiting[c] <=> outcome[c] = Pending
       /\ socket[c] \in Conns =>
            LET i == socket[c] IN
            /\ conn[i].phase # "unused"
            /\ ~waiting[c] => Idle(conn[i], handler[i]) \/ conn[i].phase = "reset"
            /\ waiting[c] =>
                 \A f \in Asking(conn[i], handler[i], frame[i])
                             \cup Answering(conn[i], handler[i], frame[i]) :
                   f.call = <<c, Len(asked[c])>>

\* Entry e of served for request r.
Executed(r, e) ==
  /\ \/ \E q \in Reading(r) : e.req = [type |-> r.type, args |-> q.val]
     \/ Reading(r) = {} /\ e.req = Nothing
  /\ e.res \in Possible(r.type)

\* A call is executed once at most, after it was made; s is served.
ServedOnce(c, n, a, s) ==
  /\ IsSeq(s[c][n]) /\ Len(s[c][n]) <= 1
  /\ Len(s[c][n]) = 1 => n <= Len(a[c]) /\ Executed(a[c][n], s[c][n][1])

\* f answers its call with what was done for it.
Answered(f, a, s) ==
  LET c == f.call[1]
      n == f.call[2]
      e == s[c][n][1]
  IN  /\ Len(s[c][n]) = 1
      /\ f.type = IF e.res.code = 0 THEN a[c][n].type ELSE "Error"
      /\ f.body = IF e.res.code = 0 THEN ResponseBody(a[c][n].type, e.res.val)
                  ELSE Marshal(ErrorResponse, <<e.res.code, <<0>>>>)

SameCall(f, g) == f.call[1] = g.call[1] /\ f.call[2] = g.call[2]

\* No call is under way twice, or again after it was executed.
OnceInv ==
  /\ served = [c \in Clients |-> [n \in 1 .. MaxCalls[c] |-> served[c][n]]]
  /\ \A c \in Clients : \A n \in 1 .. MaxCalls[c] : ServedOnce(c, n, asked, served)
  /\ \A i \in Conns : \A f \in Asking(conn[i], handler[i], frame[i]) :
       /\ Len(served[f.call[1]][f.call[2]]) = 0
       /\ \A j \in Conns \ {i} : \A g \in Asking(conn[j], handler[j], frame[j]) :
            ~SameCall(g, f)

AnswerInv ==
  \A i \in Conns : \A f \in Answering(conn[i], handler[i], frame[i]) :
    Answered(f, asked, served)

CallInv == LoadInv /\ OwnerInv /\ OnceInv /\ AnswerInv

-----------------------------------------------------------------------------
(* What the operations on a connection do to its fields *)

\* Dialling a connection leaves its streams alone.
LEMMA DialledFields ==
  ASSUME NEW c, ConnShape(c), NEW d, d = Dialled(c)
  PROVE  /\ d.up = c.up /\ d.down = c.down
         /\ d.phase = "backlog" /\ d.serverOpen
<1>1. PICK S : c \in Shape(S)
  BY DEF ConnShape
<1> QED
  BY <1>1 DEF Shape, Dialled

\* So does accepting it.
LEMMA AcceptedFields ==
  ASSUME NEW c, ConnShape(c), NEW d, d = Accepted(c)
  PROVE  /\ d.up = c.up /\ d.down = c.down
         /\ d.phase = "accepted" /\ (d.serverOpen <=> c.serverOpen)
<1>1. PICK S : c \in Shape(S)
  BY DEF ConnShape
<1> QED
  BY <1>1 DEF Shape, Accepted

\* A reset loses what is under way both ways.
LEMMA ResetFields ==
  ASSUME NEW c, ConnShape(c), NEW d, d = Reset(c)
  PROVE  /\ Len(d.up) = 0 /\ Len(d.down) = 0
         /\ d.phase = "reset" /\ (d.serverOpen <=> c.serverOpen)
<1>1. PICK S : c \in Shape(S)
  BY DEF ConnShape
<1>2. PICK e : e = <<>> /\ Len(e) = 0
  BY EmptyIsSeq
<1>3. d = [c EXCEPT !.phase = "reset", !.up = e, !.down = e]
  BY <1>2 DEF Reset
<1>4. /\ d.up = e /\ d.down = e
      /\ d.phase = "reset" /\ (d.serverOpen <=> c.serverOpen)
  BY <1>1, <1>3 DEF Shape
<1> QED
  BY <1>2, <1>4

\* Closing the client end loses what was on its way to it.
LEMMA ClientClosedFields ==
  ASSUME NEW c, ConnShape(c), NEW d, d = ClientClosed(c)
  PROVE  /\ d.up = c.up /\ Len(d.down) = 0
         /\ d.phase = c.phase /\ (d.serverOpen <=> c.serverOpen)
<1>1. PICK S : c \in Shape(S)
  BY DEF ConnShape
<1>2. PICK e : e = <<>> /\ Len(e) = 0
  BY EmptyIsSeq
<1>3. d = [c EXCEPT !.clientOpen = FALSE, !.down = e]
  BY <1>2 DEF ClientClosed
<1>4. /\ d.up = c.up /\ d.down = e
      /\ d.phase = c.phase /\ (d.serverOpen <=> c.serverOpen)
  BY <1>1, <1>3 DEF Shape
<1> QED
  BY <1>2, <1>4

\* Closing the server end loses what was on its way to it.
LEMMA ServerClosedFields ==
  ASSUME NEW c, ConnShape(c), NEW d, d = ServerClosed(c)
  PROVE  /\ Len(d.up) = 0 /\ d.down = c.down
         /\ d.phase = c.phase /\ ~d.serverOpen
<1>1. PICK S : c \in Shape(S)
  BY DEF ConnShape
<1>2. PICK e : e = <<>> /\ Len(e) = 0
  BY EmptyIsSeq
<1>3. d = [c EXCEPT !.serverOpen = FALSE, !.up = e]
  BY <1>2 DEF ServerClosed
<1>4. /\ d.up = e /\ d.down = c.down
      /\ d.phase = c.phase /\ ~d.serverOpen
  BY <1>1, <1>3 DEF Shape
<1> QED
  BY <1>2, <1>4

\* Changing one stream leaves the other alone.
LEMMA StreamFields ==
  ASSUME NEW c, ConnShape(c), NEW u
  PROVE  /\ [c EXCEPT !.up = u].up = u /\ [c EXCEPT !.up = u].down = c.down
         /\ [c EXCEPT !.up = u].phase = c.phase
         /\ ([c EXCEPT !.up = u].serverOpen <=> c.serverOpen)
         /\ [c EXCEPT !.down = u].up = c.up /\ [c EXCEPT !.down = u].down = u
         /\ [c EXCEPT !.down = u].phase = c.phase
         /\ ([c EXCEPT !.down = u].serverOpen <=> c.serverOpen)
<1>1. PICK S : c \in Shape(S)
  BY DEF ConnShape
<1> QED
  BY <1>1 DEF Shape

\* Nothing is under way when both sets are empty.
LEMMA IdleIs ==
  ASSUME NEW c, ConnShape(c), NEW h, NEW g
  PROVE  Idle(c, h) <=> Asking(c, h, g) = {} /\ Answering(c, h, g) = {}
<1>1. Len(c.up) \in Nat /\ Len(c.down) \in Nat
  BY StreamsAre, SeqFacts
<1>2. Len(c.up) = 0 /\ h # "serve" <=> Asking(c, h, g) = {}
  <2>1. ASSUME Len(c.up) # 0
        PROVE  c.up[1] \in Asking(c, h, g)
    BY <1>1, <2>1 DEF Asking
  <2>2. ASSUME Len(c.up) = 0, h # "serve"
        PROVE  Asking(c, h, g) = {}
    BY <2>2 DEF Asking
  <2>3. ASSUME h = "serve"
        PROVE  g \in Asking(c, h, g)
    BY <2>3 DEF Asking
  <2> QED
    BY <2>1, <2>2, <2>3
<1>3. Len(c.down) = 0 /\ h # "reply" <=> Answering(c, h, g) = {}
  <2>1. ASSUME Len(c.down) # 0
        PROVE  c.down[1] \in Answering(c, h, g)
    BY <1>1, <2>1 DEF Answering
  <2>2. ASSUME Len(c.down) = 0, h # "reply"
        PROVE  Answering(c, h, g) = {}
    BY <2>2 DEF Answering
  <2>3. ASSUME h = "reply"
        PROVE  g \in Answering(c, h, g)
    BY <2>3 DEF Answering
  <2> QED
    BY <2>1, <2>2, <2>3
<1> QED
  BY <1>2, <1>3 DEF Idle

\* Frames under way are requests and frames.
LEMMA UnderWay ==
  ASSUME ServiceInv, NEW i \in Conns
  PROVE  /\ \A f \in Asking(conn[i], handler[i], frame[i]) : Requested(f, asked) /\ IsFrame(f)
         /\ \A f \in Answering(conn[i], handler[i], frame[i]) : IsFrame(f)
<1>1. Carries(conn[i], asked)
  BY DEF ServiceInv, ConnInv
<1>2. ASSUME NEW f \in Asking(conn[i], handler[i], frame[i])
      PROVE  Requested(f, asked)
  <2>1. (\E n \in 1 .. Len(conn[i].up) : f = conn[i].up[n]) \/ (handler[i] = "serve" /\ f = frame[i])
    BY <1>2 DEF Asking
  <2> QED
    BY <1>1, <2>1 DEF Carries, ServiceInv, HandlerInv
<1>3. ASSUME NEW f \in Answering(conn[i], handler[i], frame[i])
      PROVE  IsFrame(f)
  <2>1. \/ \E n \in 1 .. Len(conn[i].down) : f = conn[i].down[n]
        \/ handler[i] = "reply" /\ f = frame[i]
    BY <1>3 DEF Answering
  <2> QED
    BY <1>1, <2>1 DEF Carries, ServiceInv, HandlerInv
<1> QED
  BY <1>2, <1>3 DEF Requested

\* A call named by a frame is one of a client.
LEMMA CallOf ==
  ASSUME NEW f, IsFrame(f)
  PROVE  /\ f.call[1] \in Clients /\ f.call[2] \in 1 .. MaxCalls[f.call[1]]
         /\ f.call[2] \in Nat
BY ConnectionConstantsOK DEF IsFrame

-----------------------------------------------------------------------------
(* Steps that make no call, execute none, and at most lose frames *)

\* A step that only loses frames keeps what is known of the calls.
LEMMA Loses ==
  ASSUME ServiceInv, ServiceInv', CallInv, LoadInv', UNCHANGED <<clientVars, served>>,
         \A i \in Conns :
           /\ Asking(conn'[i], handler'[i], frame'[i])
                \subseteq Asking(conn[i], handler[i], frame[i])
           /\ Answering(conn'[i], handler'[i], frame'[i])
                \subseteq Answering(conn[i], handler[i], frame[i])
           /\ conn'[i].phase = "unused" => conn[i].phase = "unused"
           /\ conn[i].phase = "reset" => conn'[i].phase = "reset"
  PROVE  CallInv'
<1>1. UNCHANGED <<socket, waiting, asked, outcome, served>>
  BY DEF clientVars
<1>2. \A i \in Conns : Idle(conn[i], handler[i]) => Idle(conn'[i], handler'[i])
  <2> SUFFICES ASSUME NEW i \in Conns, Idle(conn[i], handler[i])
               PROVE  Idle(conn'[i], handler'[i])
    OBVIOUS
  <2>1. ConnShape(conn[i]) /\ ConnShape(conn'[i])
    BY DEF ServiceInv, ConnInv
  <2>2. /\ Asking(conn[i], handler[i], frame[i]) = {}
        /\ Answering(conn[i], handler[i], frame[i]) = {}
    BY <2>1, IdleIs
  <2>3. /\ Asking(conn'[i], handler'[i], frame'[i]) = {}
        /\ Answering(conn'[i], handler'[i], frame'[i]) = {}
    BY <2>2
  <2> QED
    BY <2>1, <2>3, IdleIs
<1>3. OwnerInv'
  <2>1. ASSUME NEW c \in Clients, NEW i \in Conns, i = socket[c]
        PROVE  /\ conn'[i].phase # "unused"
               /\ ~waiting[c] => Idle(conn'[i], handler'[i]) \/ conn'[i].phase = "reset"
               /\ waiting[c] =>
                    \A f \in Asking(conn'[i], handler'[i], frame'[i])
                               \cup Answering(conn'[i], handler'[i], frame'[i]) :
                      f.call = <<c, Len(asked[c])>>
    BY <1>2, <2>1 DEF CallInv, OwnerInv
  <2> QED
    BY <1>1, <2>1 DEF CallInv, OwnerInv
<1>4. OnceInv'
  <2>1. ASSUME NEW i \in Conns, NEW f \in Asking(conn'[i], handler'[i], frame'[i])
        PROVE  /\ Len(served[f.call[1]][f.call[2]]) = 0
               /\ \A j \in Conns \ {i} : \A g \in Asking(conn'[j], handler'[j], frame'[j]) :
                    ~SameCall(g, f)
    <3>1. f \in Asking(conn[i], handler[i], frame[i])
      BY <2>1
    <3> QED
      BY <3>1 DEF CallInv, OnceInv
  <2>2. \A c \in Clients : \A n \in 1 .. MaxCalls[c] : ServedOnce(c, n, asked', served')
    BY <1>1 DEF CallInv, OnceInv
  <2>3. served' = [c \in Clients |-> [n \in 1 .. MaxCalls[c] |-> served'[c][n]]]
    BY <1>1 DEF CallInv, OnceInv
  <2> QED
    BY <1>1, <2>1, <2>2, <2>3 DEF OnceInv
<1>5. AnswerInv'
  <2>1. ASSUME NEW i \in Conns, NEW f \in Answering(conn'[i], handler'[i], frame'[i])
        PROVE  Answered(f, asked', served')
    <3>1. f \in Answering(conn[i], handler[i], frame[i])
      BY <2>1
    <3> QED
      BY <1>1, <3>1 DEF CallInv, AnswerInv
  <2> QED
    BY <2>1 DEF AnswerInv
<1> QED
  BY <1>3, <1>4, <1>5 DEF CallInv

\* Such a step of one connection.
LEMMA LosesOne ==
  ASSUME ServiceInv, ServiceInv', CallInv, UNCHANGED <<clientVars, served, alive>>,
         NEW i \in Conns,
         \A j \in Conns \ {i} : /\ conn'[j] = conn[j] /\ handler'[j] = handler[j]
                                /\ frame'[j] = frame[j],
         Asking(conn'[i], handler'[i], frame'[i]) \subseteq Asking(conn[i], handler[i], frame[i]),
         Answering(conn'[i], handler'[i], frame'[i])
           \subseteq Answering(conn[i], handler[i], frame[i]),
         OneFrame(conn'[i], handler'[i]),
         conn'[i].phase \in {conn[i].phase, "accepted", "reset"},
         conn[i].phase = "reset" => conn'[i].phase = "reset",
         alive /\ conn'[i].phase = "backlog" => conn'[i].serverOpen,
         main' = "spawn" => conn'[inHand'].serverOpen
  PROVE  CallInv'
<1>1. LoadInv'
  BY DEF CallInv, LoadInv
<1>2. ASSUME NEW j \in Conns
      PROVE  /\ Asking(conn'[j], handler'[j], frame'[j])
                  \subseteq Asking(conn[j], handler[j], frame[j])
             /\ Answering(conn'[j], handler'[j], frame'[j])
                  \subseteq Answering(conn[j], handler[j], frame[j])
             /\ conn'[j].phase = "unused" => conn[j].phase = "unused"
             /\ conn[j].phase = "reset" => conn'[j].phase = "reset"
  <2>1. CASE j = i
    BY <2>1
  <2>2. CASE j # i
    BY <2>2
  <2> QED
    BY <2>1, <2>2
<1> QED
  BY <1>1, <1>2, Loses

\* Nothing happens to connections, handlers and frames.
LEMMA LosesNone ==
  ASSUME ServiceInv, ServiceInv', CallInv, UNCHANGED <<clientVars, served, conn, handler, frame>>,
         alive' => alive, main' = "spawn" => main = "spawn" /\ inHand' = inHand
  PROVE  CallInv'
<1>1. LoadInv'
  BY DEF CallInv, LoadInv
<1> QED
  BY <1>1, Loses

\* Equal streams, and nothing new in the handler's hands: nothing new under way.
LEMMA AskingLess ==
  ASSUME NEW c, NEW d, NEW h, NEW k, NEW g, NEW m, d.up = c.up \/ Len(d.up) = 0,
         k = "serve" => h = "serve" /\ m = g
  PROVE  Asking(d, k, m) \subseteq Asking(c, h, g)
<1>1. CASE d.up = c.up
  BY <1>1 DEF Asking
<1>2. CASE Len(d.up) = 0
  BY <1>2 DEF Asking
<1> QED
  BY <1>1, <1>2

\* No answer comes from nowhere.
LEMMA AnsweringLess ==
  ASSUME NEW c, NEW d, NEW h, NEW k, NEW g, NEW m, d.down = c.down \/ Len(d.down) = 0,
         k = "reply" => h = "reply" /\ m = g
  PROVE  Answering(d, k, m) \subseteq Answering(c, h, g)
<1>1. CASE d.down = c.down
  BY <1>1 DEF Answering
<1>2. CASE Len(d.down) = 0
  BY <1>2 DEF Answering
<1> QED
  BY <1>1, <1>2

\* One connection is another value, handlers and frames are as they were.
LEMMA OneConnFacts ==
  ASSUME ServiceInv, NEW i \in Conns, NEW d, conn' = [conn EXCEPT ![i] = d]
  PROVE  conn'[i] = d /\ \A j \in Conns \ {i} : conn'[j] = conn[j]
BY DEF ServiceInv, ConnInv

\* The frames under way on a connection, taken apart.
LEMMA LoadOf ==
  ASSUME ServiceInv, CallInv, NEW i \in Conns
  PROVE  /\ ConnShape(conn[i]) /\ Len(conn[i].up) \in Nat /\ Len(conn[i].down) \in Nat
         /\ conn[i].serverOpen \in BOOLEAN /\ OneFrame(conn[i], handler[i])
         /\ Len(conn[i].up) + Len(conn[i].down) <= 1
         /\ handler[i] \in {"serve", "reply"} => Len(conn[i].up) = 0 /\ Len(conn[i].down) = 0
         /\ ~conn[i].serverOpen => /\ Len(conn[i].up) = 0
                                   /\ handler[i] \notin {"read", "serve", "reply"}
         /\ conn[i].phase = "unused" => Idle(conn[i], handler[i])
<1>1. ConnShape(conn[i]) /\ OneFrame(conn[i], handler[i])
  BY DEF ServiceInv, ConnInv, CallInv, LoadInv
<1>2. IsSeq(conn[i].up) /\ IsSeq(conn[i].down) /\ conn[i].serverOpen \in BOOLEAN
  BY <1>1, StreamsAre
<1>3. Len(conn[i].up) \in Nat /\ Len(conn[i].down) \in Nat
  BY <1>2, SeqFacts
<1> QED
  BY <1>1, <1>2, <1>3 DEF OneFrame

\* How a step leaves one frame at most: it only takes from the streams, it ends
\* the handler, or it has the only frame in its hands.
LEMMA OneFrameKept ==
  ASSUME NEW c, NEW d, NEW h, NEW k, OneFrame(c, h),
         Len(c.up) \in Nat, Len(c.down) \in Nat, Len(d.up) \in Nat, Len(d.down) \in Nat
  PROVE  /\ /\ Len(d.up) <= Len(c.up) /\ Len(d.down) <= Len(c.down)
            /\ k = h /\ (d.serverOpen <=> c.serverOpen)
            /\ d.phase = c.phase \/ d.phase # "unused"
            => OneFrame(d, k)
         /\ /\ Len(d.up) = 0 /\ Len(d.down) <= Len(c.down)
            /\ k \in {"none", "done"} /\ d.phase = c.phase
            => OneFrame(d, k)
         /\ /\ Len(d.up) = 0 /\ d.serverOpen /\ d.phase # "unused" /\ Len(d.down) <= 1
            /\ k \in {"serve", "reply"} => Len(d.down) = 0
            => OneFrame(d, k)
<1> PICK cu \in Nat, cd \in Nat, du \in Nat, dd \in Nat :
      Len(c.up) = cu /\ Len(c.down) = cd /\ Len(d.up) = du /\ Len(d.down) = dd
  OBVIOUS
<1>1. ASSUME Len(d.up) <= Len(c.up) /\ Len(d.down) <= Len(c.down),
             k = h /\ (d.serverOpen <=> c.serverOpen),
             d.phase = c.phase \/ d.phase # "unused"
      PROVE  OneFrame(d, k)
  BY <1>1 DEF OneFrame, Idle
<1>2. ASSUME Len(d.up) = 0 /\ Len(d.down) <= Len(c.down),
             k \in {"none", "done"} /\ d.phase = c.phase
      PROVE  OneFrame(d, k)
  BY <1>2 DEF OneFrame, Idle
<1>3. ASSUME Len(d.up) = 0 /\ d.serverOpen /\ d.phase # "unused" /\ Len(d.down) <= 1,
             k \in {"serve", "reply"} => Len(d.down) = 0
      PROVE  OneFrame(d, k)
  BY <1>3 DEF OneFrame
<1> QED
  BY <1>1, <1>2, <1>3

\* Closing the client loses at most an answer.
LEMMA CloseCalls ==
  ASSUME ServiceInv, ServiceInv', CallInv, NEW c \in Clients, Close(c), UNCHANGED serverVars
  PROVE  CallInv'
<1>1. PICK i \in Conns : i = socket[c]
  BY DEF Close, ServiceInv, ClientInv
<1>2. /\ conn' = [conn EXCEPT ![i] = ClientClosed(conn[i])]
      /\ UNCHANGED <<listener, clientVars>>
  BY <1>1 DEF Close
<1>3. conn'[i] = ClientClosed(conn[i]) /\ \A j \in Conns \ {i} : conn'[j] = conn[j]
  BY <1>2, OneConnFacts
<1>4. /\ conn'[i].up = conn[i].up /\ Len(conn'[i].down) = 0
      /\ conn'[i].phase = conn[i].phase /\ (conn'[i].serverOpen <=> conn[i].serverOpen)
  BY <1>3, LoadOf, ClientClosedFields
<1>5. /\ Len(conn[i].up) \in Nat /\ Len(conn[i].down) \in Nat
      /\ OneFrame(conn[i], handler[i])
  BY LoadOf
<1>6. /\ Asking(conn'[i], handler[i], frame[i]) \subseteq Asking(conn[i], handler[i], frame[i])
      /\ Answering(conn'[i], handler[i], frame[i])
           \subseteq Answering(conn[i], handler[i], frame[i])
  BY <1>4, AskingLess, AnsweringLess
<1>7. OneFrame(conn'[i], handler[i])
  BY <1>4, <1>5, OneFrameKept
<1>8. UNCHANGED <<handler, frame, served, alive, main, inHand>>
  BY DEF serverVars
<1>9. /\ alive /\ conn'[i].phase = "backlog" => conn'[i].serverOpen
      /\ main' = "spawn" => conn'[inHand'].serverOpen
  BY <1>3, <1>4, <1>8 DEF CallInv, LoadInv, ServiceInv, ServerTypeOK
<1> QED
  BY <1>2, <1>3, <1>4, <1>6, <1>7, <1>8, <1>9, LosesOne

\* A broken connection loses at most what was on it.
LEMMA BreakConnCalls ==
  ASSUME ServiceInv, ServiceInv', CallInv, NEW i \in Conns, BreakConn(i),
         UNCHANGED <<clientVars, serverVars>>
  PROVE  CallInv'
<1>1. conn' = [conn EXCEPT ![i] = Reset(conn[i])] /\ conn[i].phase # "unused"
  BY DEF BreakConn
<1>2. conn'[i] = Reset(conn[i]) /\ \A j \in Conns \ {i} : conn'[j] = conn[j]
  BY <1>1, OneConnFacts
<1>3. /\ Len(conn'[i].up) = 0 /\ Len(conn'[i].down) = 0
      /\ conn'[i].phase = "reset" /\ (conn'[i].serverOpen <=> conn[i].serverOpen)
  BY <1>2, LoadOf, ResetFields
<1>4. /\ Asking(conn'[i], handler[i], frame[i]) \subseteq Asking(conn[i], handler[i], frame[i])
      /\ Answering(conn'[i], handler[i], frame[i])
           \subseteq Answering(conn[i], handler[i], frame[i])
  BY <1>3, AskingLess, AnsweringLess
<1>5. OneFrame(conn'[i], handler[i])
  <2>1. /\ Len(conn[i].up) \in Nat /\ Len(conn[i].down) \in Nat
        /\ OneFrame(conn[i], handler[i])
    BY LoadOf
  <2> QED
    BY <1>3, <2>1, OneFrameKept
<1>6. UNCHANGED <<handler, frame, served, alive, main, inHand, clientVars>>
  BY DEF serverVars
<1>7. main' = "spawn" => conn'[inHand'].serverOpen
  BY <1>2, <1>3, <1>6 DEF CallInv, LoadInv, ServiceInv, ServerTypeOK
<1> QED
  BY <1>2, <1>3, <1>4, <1>5, <1>6, <1>7, LosesOne

\* Accepting a connection changes no call.
LEMMA AcceptCalls ==
  ASSUME ServiceInv, ServiceInv', CallInv, NEW i \in Conns, Accept(i), UNCHANGED clientVars
  PROVE  CallInv'
<1>1. /\ alive /\ conn[i].phase = "backlog"
      /\ conn' = [conn EXCEPT ![i] = Accepted(conn[i])]
      /\ inHand' = i /\ main' = "spawn" /\ UNCHANGED <<handler, frame, served, alive>>
  BY DEF Accept
<1>2. conn'[i] = Accepted(conn[i]) /\ \A j \in Conns \ {i} : conn'[j] = conn[j]
  BY <1>1, OneConnFacts
<1>3. /\ conn'[i].up = conn[i].up /\ conn'[i].down = conn[i].down
      /\ conn'[i].phase = "accepted" /\ (conn'[i].serverOpen <=> conn[i].serverOpen)
  BY <1>2, LoadOf, AcceptedFields
<1>4. conn'[i].serverOpen
  BY <1>1, <1>3 DEF CallInv, LoadInv
<1>5. /\ Asking(conn'[i], handler[i], frame[i]) \subseteq Asking(conn[i], handler[i], frame[i])
      /\ Answering(conn'[i], handler[i], frame[i])
           \subseteq Answering(conn[i], handler[i], frame[i])
  BY <1>3, AskingLess, AnsweringLess
<1>6. OneFrame(conn'[i], handler[i])
  BY <1>3 DEF CallInv, LoadInv, OneFrame
<1> QED
  BY <1>1, <1>2, <1>3, <1>4, <1>5, <1>6, LosesOne

\* A new handler has no request yet.
LEMMA SpawnCalls ==
  ASSUME ServiceInv, ServiceInv', CallInv, Spawn, UNCHANGED clientVars
  PROVE  CallInv'
<1>1. PICK i \in Conns : i = inHand
  BY DEF Spawn, ServiceInv, ServerTypeOK
<1>2. /\ main = "spawn" /\ main' = "accept"
      /\ handler' = [handler EXCEPT ![i] = "read"]
      /\ UNCHANGED <<conn, frame, alive, served>>
  BY <1>1 DEF Spawn, connVars
<1>3. /\ handler[i] = "none" /\ conn[i].phase \in {"accepted", "reset"}
      /\ conn[i].serverOpen
  BY <1>1, <1>2 DEF ServiceInv, AcceptInv, CallInv, LoadInv
<1>4. handler'[i] = "read" /\ \A j \in Conns \ {i} : handler'[j] = handler[j]
  BY <1>2 DEF ServiceInv, ServerTypeOK
<1>5. /\ Asking(conn'[i], handler'[i], frame'[i]) \subseteq Asking(conn[i], handler[i], frame[i])
      /\ Answering(conn'[i], handler'[i], frame'[i])
           \subseteq Answering(conn[i], handler[i], frame[i])
  BY <1>2, <1>4, AskingLess, AnsweringLess
<1>6. OneFrame(conn'[i], handler'[i])
  BY <1>2, <1>3, <1>4 DEF CallInv, LoadInv, OneFrame
<1> QED
  BY <1>2, <1>3, <1>4, <1>5, <1>6, LosesOne

\* A handler that ends has closed its end, and its frame is lost.
LEMMA EndHandlerCalls ==
  ASSUME ServiceInv, ServiceInv', CallInv, NEW i \in Conns, i \in Running, EndHandler(i), NEW f,
         frame' = [frame EXCEPT ![i] = f], UNCHANGED clientVars,
         UNCHANGED <<listener, alive, main, inHand, closed, stopper, brokerOpen, served>>
  PROVE  CallInv'
<1>1. /\ conn' = [conn EXCEPT ![i] = ServerClosed(conn[i])]
      /\ handler' = [handler EXCEPT ![i] = "done"]
  BY DEF EndHandler
<1>2. /\ conn'[i] = ServerClosed(conn[i]) /\ \A j \in Conns \ {i} : conn'[j] = conn[j]
  BY <1>1, OneConnFacts
<1>3. /\ handler'[i] = "done" /\ \A j \in Conns \ {i} : handler'[j] = handler[j]
      /\ \A j \in Conns \ {i} : frame'[j] = frame[j]
  BY <1>1 DEF ServiceInv, ServerTypeOK, HandlerInv
<1>4. /\ Len(conn'[i].up) = 0 /\ conn'[i].down = conn[i].down
      /\ conn'[i].phase = conn[i].phase
  BY <1>2, LoadOf, ServerClosedFields, ZenonT(60)
<1>5. /\ Asking(conn'[i], handler'[i], frame'[i]) \subseteq Asking(conn[i], handler[i], frame[i])
      /\ Answering(conn'[i], handler'[i], frame'[i])
           \subseteq Answering(conn[i], handler[i], frame[i])
  BY <1>3, <1>4, AskingLess, AnsweringLess
<1>6. handler[i] # "none" /\ conn[i].phase \in {"accepted", "reset"}
  BY DEF Running, ServiceInv, AcceptInv
<1>7. OneFrame(conn'[i], handler'[i])
  <2>1. /\ Len(conn[i].up) \in Nat /\ Len(conn[i].down) \in Nat
        /\ OneFrame(conn[i], handler[i])
    BY LoadOf
  <2> QED
    BY <1>3, <1>4, <2>1, OneFrameKept
<1>8. main' = "spawn" => conn'[inHand'].serverOpen
  <2>1. main = "spawn" => inHand \in Conns \ {i}
    BY <1>6 DEF ServiceInv, ServerTypeOK, AcceptInv
  <2> QED
    BY <1>2, <2>1 DEF CallInv, LoadInv
<1> QED
  BY <1>2, <1>3, <1>4, <1>5, <1>6, <1>7, <1>8, LosesOne

\* A request moves from the connection to its handler, or is lost with it.
LEMMA ReadFrameCalls ==
  ASSUME ServiceInv, ServiceInv', CallInv, NEW i \in Conns, ReadFrame(i), UNCHANGED clientVars
  PROVE  CallInv'
<1>1. /\ i \in Running /\ handler[i] = "read"
      /\ UNCHANGED <<listener, alive, main, inHand, closed, stopper, brokerOpen, served>>
  BY DEF ReadFrame, Running
<1>2. CASE /\ conn[i].up # <<>>
           /\ frame' = [frame EXCEPT ![i] = Head(conn[i].up)]
           /\ conn' = [conn EXCEPT ![i].up = Tail(@)]
           /\ handler' = [handler EXCEPT ![i] = "serve"]
  <2> DEFINE u == conn[i].up
             d == [conn[i] EXCEPT !.up = Tail(u)]
  <2>1. ConnShape(conn[i]) /\ IsSeq(u) /\ u # <<>> /\ Len(conn[i].down) \in Nat
    BY <1>2, StreamsAre, SeqFacts DEF ServiceInv, ConnInv
  <2>2. Head(u) = u[1] /\ Len(u) >= 1 /\ Len(u) \in Nat /\ Len(Tail(u)) = Len(u) - 1
    BY <2>1, SeqFacts
  <2>3. Len(u) = 1 /\ Len(conn[i].down) = 0 /\ conn[i].serverOpen
    <3>1. /\ Len(u) + Len(conn[i].down) <= 1 /\ Len(conn[i].down) \in Nat
          /\ ~conn[i].serverOpen => handler[i] # "read"
      BY LoadOf
    <3>2. conn[i].serverOpen
      BY <1>1, <3>1
    <3> HIDE DEF u
    <3>3. PICK n \in Nat, m \in Nat : n = Len(u) /\ m = Len(conn[i].down)
      BY <2>2, <3>1
    <3> QED
      BY <2>2, <3>1, <3>2, <3>3
  <2>4. /\ d.up = Tail(u) /\ d.down = conn[i].down
        /\ d.phase = conn[i].phase /\ (d.serverOpen <=> conn[i].serverOpen)
    BY <2>1, StreamFields
  <2>14. Len(d.up) = 0
    <3> HIDE DEF u, d
    <3> QED
      BY <2>2, <2>3, <2>4
  <2>5. conn' = [conn EXCEPT ![i] = d]
    BY <1>2
  <2>6. conn'[i] = d /\ \A j \in Conns \ {i} : conn'[j] = conn[j]
    BY <2>5, OneConnFacts
  <2>7. /\ handler'[i] = "serve" /\ frame'[i] = u[1]
        /\ \A j \in Conns \ {i} : handler'[j] = handler[j] /\ frame'[j] = frame[j]
    BY <1>2, <2>2 DEF ServiceInv, ServerTypeOK, HandlerInv
  <2>8. u[1] \in Asking(conn[i], handler[i], frame[i])
    BY <2>3 DEF Asking
  <2> HIDE DEF u, d
  <2>9. Asking(conn'[i], handler'[i], frame'[i]) \subseteq Asking(conn[i], handler[i], frame[i])
    <3>1. Len(conn'[i].up) = 0
      BY <2>6, <2>14
    <3>2. Asking(conn'[i], handler'[i], frame'[i]) = {u[1]}
      BY <2>7, <3>1 DEF Asking
    <3> QED
      BY <2>8, <3>2
  <2>10. Answering(conn'[i], handler'[i], frame'[i])
           \subseteq Answering(conn[i], handler[i], frame[i])
    BY <2>4, <2>6, <2>7, AskingLess, AnsweringLess
  <2>11. conn[i].phase \in {"accepted", "reset"}
    BY <1>1 DEF ServiceInv, AcceptInv
  <2>12. OneFrame(conn'[i], handler'[i])
    <3>1. /\ Len(conn[i].up) \in Nat /\ Len(conn[i].down) \in Nat
          /\ OneFrame(conn[i], handler[i])
      BY LoadOf
    <3>2. /\ Len(conn'[i].up) = 0 /\ Len(conn'[i].down) = 0
          /\ conn'[i].serverOpen /\ conn'[i].phase # "unused"
      BY <2>3, <2>4, <2>6, <2>11, <2>14
    <3> QED
      BY <3>1, <3>2, OneFrameKept
  <2>13. main' = "spawn" => conn'[inHand'].serverOpen
    BY <1>1, <2>4, <2>6 DEF CallInv, LoadInv, ServiceInv, ServerTypeOK
  <2> QED
    BY <1>1, <2>3, <2>4, <2>6, <2>7, <2>9, <2>10, <2>12, <2>13, LosesOne
<1>3. CASE EndHandler(i) /\ UNCHANGED frame
  <2>1. frame' = [frame EXCEPT ![i] = frame[i]]
    BY <1>3 DEF ServiceInv, HandlerInv
  <2> QED
    BY <1>1, <1>3, <2>1, EndHandlerCalls
<1> QED
  BY <1>2, <1>3 DEF ReadFrame

\* A response moves from the handler to the connection, or is lost with it.
LEMMA WriteFrameCalls ==
  ASSUME ServiceInv, ServiceInv', CallInv, NEW i \in Conns, WriteFrame(i), UNCHANGED clientVars
  PROVE  CallInv'
<1>1. /\ handler[i] = "reply" /\ i \in Running
      /\ frame' = [frame EXCEPT ![i] = NoFrame]
      /\ UNCHANGED <<listener, alive, main, inHand, closed, stopper, brokerOpen, served>>
  BY DEF WriteFrame, Running
<1>2. CASE /\ conn' = [conn EXCEPT ![i] = SentDown(@, frame[i])]
           /\ handler' = [handler EXCEPT ![i] = "read"]
  <2> DEFINE s == conn[i].down
             f == frame[i]
             d == SentDown(conn[i], f)
  <2>1. ConnShape(conn[i]) /\ IsSeq(s) /\ Len(conn[i].up) \in Nat
    BY StreamsAre, SeqFacts DEF ServiceInv, ConnInv
  <2>2. Len(s) = 0 /\ Len(conn[i].up) = 0 /\ conn[i].serverOpen
    BY <1>1 DEF CallInv, LoadInv, OneFrame
  <2>3. /\ d.up = conn[i].up /\ d.phase = conn[i].phase /\ (d.serverOpen <=> conn[i].serverOpen)
        /\ \/ Len(d.down) = 0
           \/ Len(d.down) = 1 /\ d.down[1] = f
    <3>1. CASE conn[i].clientOpen
      <4>1. d = [conn[i] EXCEPT !.down = Append(s, f)]
        BY <3>1 DEF SentDown
      <4>2. Len(Append(s, f)) = 1 /\ Append(s, f)[1] = f
        BY <2>1, <2>2, SeqFacts
      <4> HIDE DEF d
      <4> QED
        BY <2>1, <4>1, <4>2, StreamFields
    <3>2. CASE ~conn[i].clientOpen
      BY <2>2, <3>2 DEF SentDown
    <3> QED
      BY <3>1, <3>2
  <2>4. conn' = [conn EXCEPT ![i] = d]
    BY <1>2
  <2>5. conn'[i] = d /\ \A j \in Conns \ {i} : conn'[j] = conn[j]
    BY <2>4, OneConnFacts
  <2>6. /\ handler'[i] = "read"
        /\ \A j \in Conns \ {i} : handler'[j] = handler[j] /\ frame'[j] = frame[j]
    BY <1>1, <1>2 DEF ServiceInv, ServerTypeOK, HandlerInv
  <2>7. f \in Answering(conn[i], handler[i], frame[i])
    BY <1>1 DEF Answering
  <2> HIDE DEF s, f, d
  <2>8. Answering(conn'[i], handler'[i], frame'[i])
           \subseteq Answering(conn[i], handler[i], frame[i])
    <3>1. Answering(conn'[i], handler'[i], frame'[i]) \subseteq {f}
      BY <2>3, <2>5, <2>6 DEF Answering
    <3> QED
      BY <2>7, <3>1
  <2>9. Asking(conn'[i], handler'[i], frame'[i]) \subseteq Asking(conn[i], handler[i], frame[i])
    BY <2>3, <2>5, <2>6, AskingLess, AnsweringLess
  <2>10. conn[i].phase \in {"accepted", "reset"}
    BY <1>1 DEF ServiceInv, AcceptInv
  <2>11. OneFrame(conn'[i], handler'[i])
    <3>1. /\ Len(conn[i].up) \in Nat /\ Len(conn[i].down) \in Nat
          /\ OneFrame(conn[i], handler[i])
      BY LoadOf
    <3>2. /\ Len(conn'[i].up) = 0 /\ Len(conn'[i].down) \in {0, 1}
          /\ conn'[i].serverOpen /\ conn'[i].phase # "unused"
      BY <2>2, <2>3, <2>5, <2>10 DEF s
    <3>5. PICK n \in Nat, m \in Nat : n = Len(conn'[i].down) /\ m = Len(conn'[i].up) /\ n <= 1
      <4>1. \A k \in {0, 1} : k \in Nat /\ k <= 1
        OBVIOUS
      <4> QED
        BY <3>2, <4>1, Zenon
    <3>3. Len(conn'[i].up) \in Nat /\ Len(conn'[i].down) \in Nat /\ Len(conn'[i].down) <= 1
      BY <3>5
    <3>4. handler'[i] \notin {"serve", "reply"}
      BY <2>6
    <3> QED
      BY <3>1, <3>2, <3>3, <3>4, OneFrameKept
  <2>12. main' = "spawn" => conn'[inHand'].serverOpen
    BY <1>1, <2>3, <2>5 DEF CallInv, LoadInv, ServiceInv, ServerTypeOK
  <2> QED
    BY <1>1, <2>2, <2>3, <2>5, <2>6, <2>8, <2>9, <2>11, <2>12, LosesOne
<1>3. CASE EndHandler(i)
  BY <1>1, <1>3, EndHandlerCalls
<1> QED
  BY <1>2, <1>3 DEF WriteFrame

\* When the process ends, the requests in it are lost.
LEMMA ExitCalls ==
  ASSUME ServiceInv, ServiceInv', CallInv, ExitProcess, UNCHANGED clientVars
  PROVE  CallInv'
<1>1. /\ conn' = Orphaned /\ alive' = FALSE /\ main' = "exited" /\ UNCHANGED served
      /\ handler' = [i \in Conns |-> "none"]
  BY DEF ExitProcess
<1>2. ASSUME NEW i \in Conns
      PROVE  /\ handler'[i] = "none" /\ conn'[i].phase = conn[i].phase
             /\ Len(conn'[i].up) = 0 /\ conn'[i].down = conn[i].down
  <2>1. conn'[i] = ServerClosed(conn[i]) /\ handler'[i] = "none"
    BY <1>1 DEF Orphaned
  <2> QED
    BY <2>1, LoadOf, ServerClosedFields
<1>3. LoadInv'
  <2>1. ASSUME NEW i \in Conns
        PROVE  OneFrame(conn'[i], handler'[i])
    <3>1. /\ Len(conn[i].up) \in Nat /\ Len(conn[i].down) \in Nat
          /\ OneFrame(conn[i], handler[i])
      BY LoadOf
    <3> QED
      BY <1>2, <3>1, OneFrameKept
  <2> QED
    BY <1>1, <2>1 DEF LoadInv
<1>4. ASSUME NEW i \in Conns
      PROVE  /\ Asking(conn'[i], handler'[i], frame'[i])
                  \subseteq Asking(conn[i], handler[i], frame[i])
             /\ Answering(conn'[i], handler'[i], frame'[i])
                  \subseteq Answering(conn[i], handler[i], frame[i])
  BY <1>2, AskingLess, AnsweringLess
<1> QED
  BY <1>1, <1>2, <1>3, <1>4, Loses

\* Closing the listener loses the requests of the backlog.
LEMMA StopListenerCalls ==
  ASSUME ServiceInv, ServiceInv', CallInv, StopListener, UNCHANGED clientVars
  PROVE  CallInv'
<1>1. UNCHANGED <<alive, main, inHand, handler, frame, served>>
  BY DEF StopListener
<1>2. CASE UNCHANGED connVars
  BY <1>1, <1>2, LosesNone DEF connVars
<1>3. CASE conn' = WithoutBacklog
  <2>1. ASSUME NEW i \in Conns
        PROVE  \/ conn'[i] = conn[i]
               \/ /\ conn[i].phase = "backlog" /\ conn'[i].phase = "reset"
                  /\ Len(conn'[i].up) = 0 /\ Len(conn'[i].down) = 0
                  /\ (conn'[i].serverOpen <=> conn[i].serverOpen)
    <3>1. conn'[i] = IF conn[i].phase = "backlog" THEN Reset(conn[i]) ELSE conn[i]
      BY <1>3 DEF WithoutBacklog
    <3>2. CASE conn[i].phase = "backlog"
      BY <3>1, <3>2, LoadOf, ResetFields, ZenonT(60)
    <3> QED
      BY <3>1, <3>2
  <2>2. LoadInv'
    <3>1. ASSUME NEW i \in Conns
          PROVE  /\ OneFrame(conn'[i], handler'[i])
                 /\ alive' /\ conn'[i].phase = "backlog" => conn'[i].serverOpen
                 /\ (conn'[i].serverOpen <=> conn[i].serverOpen)
      <4>1. /\ Len(conn[i].up) \in Nat /\ Len(conn[i].down) \in Nat
            /\ OneFrame(conn[i], handler[i])
        BY LoadOf
      <4>2. CASE conn'[i] = conn[i]
        BY <1>1, <4>1, <4>2 DEF CallInv, LoadInv
      <4>3. CASE conn'[i] # conn[i]
        BY <1>1, <2>1, <4>1, <4>3, OneFrameKept
      <4> QED
        BY <4>2, <4>3
    <3> QED
      BY <1>1, <3>1 DEF CallInv, LoadInv, ServiceInv, ServerTypeOK
  <2>3. ASSUME NEW i \in Conns
        PROVE  /\ Asking(conn'[i], handler'[i], frame'[i])
                    \subseteq Asking(conn[i], handler[i], frame[i])
               /\ Answering(conn'[i], handler'[i], frame'[i])
                    \subseteq Answering(conn[i], handler[i], frame[i])
    <3>1. CASE conn'[i] = conn[i]
      BY <1>1, <3>1
    <3>2. CASE conn'[i] # conn[i]
      BY <1>1, <2>1, <3>2, AskingLess, AnsweringLess
    <3> QED
      BY <3>1, <3>2
  <2> QED
    BY <1>1, <2>1, <2>2, <2>3, Loses
<1> QED
  BY <1>2, <1>3 DEF StopListener

-----------------------------------------------------------------------------
(* Steps of a client that change what it has under way *)

\* A new connection of a client carries nothing.
LEMMA ConnectCalls ==
  ASSUME ServiceInv, ServiceInv', CallInv, NEW c \in Clients, Connect(c), UNCHANGED serverVars
  PROVE  CallInv'
<1> DEFINE unused == {j \in Conns : conn[j].phase = "unused"}
<1>1. PICK i \in unused : i = CHOOSE j \in unused : TRUE
  BY DEF Connect
<1>2. /\ i \in Conns /\ conn[i].phase = "unused" /\ ~waiting[c]
      /\ conn' = [conn EXCEPT ![i] = Dialled(conn[i])]
      /\ socket' = [socket EXCEPT ![c] = i]
      /\ UNCHANGED <<listener, reqID, waiting, asked, outcome>>
      /\ UNCHANGED <<handler, frame, served, alive, main, inHand>>
  BY <1>1 DEF Connect, serverVars
<1> HIDE DEF unused
<1>3. conn'[i] = Dialled(conn[i]) /\ \A j \in Conns \ {i} : conn'[j] = conn[j]
  BY <1>2, OneConnFacts
<1>4. /\ conn'[i].up = conn[i].up /\ conn'[i].down = conn[i].down
      /\ conn'[i].phase = "backlog" /\ conn'[i].serverOpen
  BY <1>2, <1>3, LoadOf, DialledFields
<1>5. Idle(conn[i], handler[i])
  BY <1>2, LoadOf
<1>6. Idle(conn'[i], handler'[i])
  BY <1>2, <1>4, <1>5 DEF Idle
<1>7. LoadInv'
  <2>1. Len(conn'[i].up) = 0 /\ Len(conn'[i].down) = 0 /\ handler'[i] \notin {"serve", "reply"}
    BY <1>6 DEF Idle
  <2>2. OneFrame(conn'[i], handler'[i])
    BY <1>4, <2>1 DEF OneFrame
  <2>3. main' = "spawn" => conn'[inHand'].serverOpen
    BY <1>2, <1>3, <1>4 DEF CallInv, LoadInv, ServiceInv, ServerTypeOK
  <2> QED
    BY <1>2, <1>3, <1>4, <2>2, <2>3 DEF CallInv, LoadInv
<1>8. ASSUME NEW j \in Conns
      PROVE  /\ Asking(conn'[j], handler'[j], frame'[j]) = Asking(conn[j], handler[j], frame[j])
             /\ Answering(conn'[j], handler'[j], frame'[j])
                  = Answering(conn[j], handler[j], frame[j])
  <2>1. conn'[j].up = conn[j].up /\ conn'[j].down = conn[j].down
    BY <1>3, <1>4
  <2> QED
    BY <1>2, <2>1 DEF Asking, Answering
<1>9. OwnerInv'
  <2>1. /\ socket'[c] = i /\ \A d \in Clients \ {c} : socket'[d] = socket[d]
        /\ \A d \in Clients \ {c} : socket[d] # i
    BY <1>2 DEF ServiceInv, ClientInv, CallInv, OwnerInv
  <2>2. \A d, e \in Clients : socket'[d] = socket'[e] /\ socket'[d] \in Conns => d = e
    BY <2>1 DEF CallInv, OwnerInv
  <2>3. ASSUME NEW d \in Clients, NEW k \in Conns, k = socket'[d]
        PROVE  /\ conn'[k].phase # "unused"
               /\ ~waiting'[d] => Idle(conn'[k], handler'[k]) \/ conn'[k].phase = "reset"
               /\ waiting'[d] =>
                    \A f \in Asking(conn'[k], handler'[k], frame'[k])
                               \cup Answering(conn'[k], handler'[k], frame'[k]) :
                      f.call = <<d, Len(asked'[d])>>
    <3>1. CASE d = c
      BY <1>2, <1>4, <1>6, <2>1, <2>3, <3>1
    <3>2. CASE d # c
      <4>1. k = socket[d] /\ k # i /\ conn'[k] = conn[k]
        BY <1>3, <2>1, <2>3, <3>2
      <4> QED
        BY <1>2, <1>8, <4>1 DEF CallInv, OwnerInv
    <3> QED
      BY <3>1, <3>2
  <2>4. \A d \in Clients : waiting'[d] <=> outcome'[d] = Pending
    BY <1>2 DEF CallInv, OwnerInv
  <2> QED
    BY <2>2, <2>3, <2>4 DEF OwnerInv
<1>10. OnceInv'
  <2>1. ASSUME NEW j \in Conns, NEW f \in Asking(conn'[j], handler'[j], frame'[j])
        PROVE  /\ Len(served[f.call[1]][f.call[2]]) = 0
               /\ \A k \in Conns \ {j} : \A g \in Asking(conn'[k], handler'[k], frame'[k]) :
                    ~SameCall(g, f)
    BY <1>8, <2>1 DEF CallInv, OnceInv
  <2>2. /\ \A d \in Clients : \A n \in 1 .. MaxCalls[d] : ServedOnce(d, n, asked', served')
        /\ served' = [d \in Clients |-> [n \in 1 .. MaxCalls[d] |-> served'[d][n]]]
    BY <1>2 DEF CallInv, OnceInv
  <2> QED
    BY <1>2, <2>1, <2>2 DEF OnceInv
<1>11. AnswerInv'
  BY <1>2, <1>8 DEF CallInv, AnswerInv
<1> QED
  BY <1>7, <1>9, <1>10, <1>11 DEF CallInv

\* What was done for a call, and its answer, stay when more calls are made.
LEMMA ServedStays ==
  ASSUME NEW a, NEW b, Extends(a, b), NEW s, NEW c \in Clients, NEW n \in 1 .. MaxCalls[c],
         ServedOnce(c, n, a, s)
  PROVE  ServedOnce(c, n, b, s)
<1>1. n \in Nat /\ n >= 1
  BY ConnectionConstantsOK
<1>2. CASE Len(s[c][n]) = 1
  <2>1. n <= Len(a[c]) /\ Executed(a[c][n], s[c][n][1])
    BY <1>2 DEF ServedOnce
  <2>2. b[c][n] = a[c][n] /\ n <= Len(b[c])
    BY <1>1, <2>1 DEF Extends
  <2> QED
    BY <2>1, <2>2 DEF ServedOnce
<1>3. CASE Len(s[c][n]) # 1
  BY <1>3, SMTT(30) DEF ServedOnce
<1> QED
  BY <1>2, <1>3

\* A later call does not change what an earlier one was answered.
LEMMA AnsweredStays ==
  ASSUME NEW a, NEW b, Extends(a, b), NEW s, NEW f, IsFrame(f), Answered(f, a, s),
         ServedOnce(f.call[1], f.call[2], a, s)
  PROVE  Answered(f, b, s)
<1> DEFINE c == f.call[1]
           n == f.call[2]
<1>1. c \in Clients /\ n \in 1 .. MaxCalls[c] /\ n \in Nat /\ n >= 1
  BY CallOf, SMTT(30) DEF IsFrame
<1>2. n <= Len(a[c])
  BY DEF Answered, ServedOnce
<1>3. b[c][n] = a[c][n]
  BY <1>1, <1>2 DEF Extends
<1> QED
  BY <1>3 DEF Answered

\* A call is written, or fails at once.
LEMMA ExecuteCalls ==
  ASSUME ServiceInv, ServiceInv', CallInv, NEW c \in Clients, NEW r \in Calls[c],
         Execute(c, r), UNCHANGED serverVars
  PROVE  CallInv'
<1>1. PICK i \in Conns : i = socket[c]
  BY DEF Execute, ServiceInv, ClientInv
<1>2. /\ ~waiting[c] /\ Len(asked[c]) < MaxCalls[c]
      /\ asked' = [asked EXCEPT ![c] = Append(@, r)]
      /\ UNCHANGED <<listener, socket>>
      /\ UNCHANGED <<handler, frame, served, alive, main, inHand>>
  BY DEF Execute, serverVars
<1>3. Extends(asked, asked')
  BY <1>2, RequestFrameIs DEF ServiceInv
<1>4. \A d \in Clients \ {c} : asked'[d] = asked[d]
  BY <1>2 DEF ServiceInv, ClientInv
<1>5. asked[c] \in Seq(Calls[c]) /\ Len(asked[c]) \in Nat /\ Len(asked'[c]) = Len(asked[c]) + 1
  <2>1. asked[c] \in Seq(Calls[c]) /\ asked'[c] = Append(asked[c], r)
    BY <1>2 DEF ServiceInv, ClientInv
  <2>2. PICK s \in Seq(Calls[c]) : s = asked[c]
    BY <2>1
  <2>3. Len(s) \in Nat /\ Len(Append(s, r)) = Len(s) + 1
    BY AppendProperties
  <2> QED
    BY <2>1, <2>2, <2>3
<1>6. /\ \A d \in Clients : \A n \in 1 .. MaxCalls[d] : ServedOnce(d, n, asked', served')
      /\ served' = [d \in Clients |-> [n \in 1 .. MaxCalls[d] |-> served'[d][n]]]
  BY <1>2, <1>3, ServedStays DEF CallInv, OnceInv
<1>7. ASSUME NEW j \in Conns, NEW f \in Answering(conn[j], handler[j], frame[j])
      PROVE  Answered(f, asked', served')
  <2>1. IsFrame(f) /\ Answered(f, asked, served)
    BY <1>7, UnderWay DEF CallInv, AnswerInv
  <2>2. ServedOnce(f.call[1], f.call[2], asked, served)
    BY <2>1, CallOf DEF CallInv, OnceInv
  <2> QED
    BY <1>2, <1>3, <2>1, <2>2, AnsweredStays
<1>8. \A d \in Clients \ {c} : socket[d] # i
  BY <1>1 DEF CallInv, OwnerInv
<1>9. CASE /\ ~ClientGone(i)
           /\ conn' = [conn EXCEPT ![i] = SentUp(conn[i], RequestFrame(c, r))]
           /\ waiting' = [waiting EXCEPT ![c] = TRUE]
           /\ outcome' = [outcome EXCEPT ![c] = Pending]
  <2> DEFINE F == RequestFrame(c, r)
             m == Len(asked[c]) + 1
             d == SentUp(conn[i], F)
  <2>1. F.call = <<c, m>> /\ F.call[1] = c /\ F.call[2] = m
    BY DEF RequestFrame
  <2>2. conn[i].phase # "reset" /\ Idle(conn[i], handler[i]) /\ conn[i].phase # "unused"
    BY <1>1, <1>2, <1>9 DEF ClientGone, CallInv, OwnerInv
  <2>3. /\ Len(conn[i].up) = 0 /\ Len(conn[i].down) = 0 /\ handler[i] \notin {"serve", "reply"}
        /\ ConnShape(conn[i]) /\ IsSeq(conn[i].up) /\ OneFrame(conn[i], handler[i])
    BY <2>2, LoadOf, StreamsAre DEF Idle
  <2>4. \/ d = conn[i]
        \/ /\ conn[i].serverOpen /\ Len(d.up) = 1 /\ d.up[1] = F /\ d.down = conn[i].down
           /\ d.phase = conn[i].phase /\ d.serverOpen
    <3>1. CASE conn[i].serverOpen
      <4>1. d = [conn[i] EXCEPT !.up = Append(conn[i].up, F)]
        BY <3>1 DEF SentUp
      <4>2. Len(Append(conn[i].up, F)) = 1 /\ Append(conn[i].up, F)[1] = F
        BY <2>3, SeqFacts
      <4> HIDE DEF d, F
      <4> QED
        BY <2>3, <3>1, <4>1, <4>2, StreamFields
    <3>2. CASE ~conn[i].serverOpen
      BY <3>2 DEF SentUp
    <3> QED
      BY <3>1, <3>2
  <2>5. conn' = [conn EXCEPT ![i] = d]
    BY <1>9
  <2> HIDE DEF F, d
  <2>6. conn'[i] = d /\ \A j \in Conns \ {i} : conn'[j] = conn[j]
    BY <2>5, OneConnFacts
  <2>7. OneFrame(d, handler[i])
    <3>1. CASE d = conn[i]
      BY <2>3, <3>1
    <3>2. CASE /\ Len(d.up) = 1 /\ d.down = conn[i].down
               /\ d.phase = conn[i].phase /\ d.serverOpen
      <4>1. Len(d.down) = 0
        BY <2>3, <3>2
      <4> QED
        BY <2>2, <2>3, <3>2, <4>1 DEF OneFrame
    <3> QED
      BY <2>4, <3>1, <3>2
  <2>8. d.phase = conn[i].phase /\ (conn[i].serverOpen => d.serverOpen)
    BY <2>4
  <2>9. LoadInv'
    BY <1>2, <2>6, <2>7, <2>8 DEF CallInv, LoadInv, ServiceInv, ServerTypeOK
  <2>10. /\ Asking(conn'[i], handler'[i], frame'[i]) \subseteq {F}
         /\ Answering(conn'[i], handler'[i], frame'[i]) = {}
    <3>1. CASE d = conn[i]
      BY <1>2, <2>3, <2>6, <3>1 DEF Asking, Answering
    <3>2. CASE Len(d.up) = 1 /\ d.up[1] = F /\ d.down = conn[i].down
      <4>1. Len(d.down) = 0
        BY <2>3, <3>2
      <4> QED
        BY <1>2, <2>3, <2>6, <3>2, <4>1 DEF Asking, Answering
    <3> QED
      BY <2>4, <3>1, <3>2
  <2>11. ASSUME NEW j \in Conns \ {i}
         PROVE  /\ Asking(conn'[j], handler'[j], frame'[j])
                     = Asking(conn[j], handler[j], frame[j])
                /\ Answering(conn'[j], handler'[j], frame'[j])
                     = Answering(conn[j], handler[j], frame[j])
    BY <1>2, <2>6
  <2>12. ASSUME NEW j \in Conns, NEW g \in Asking(conn[j], handler[j], frame[j])
         PROVE  ~SameCall(g, F)
    <3>1. g.call[2] <= Len(asked[g.call[1]])
      BY <2>12, UnderWay DEF Requested
    <3> QED
      BY <1>5, <2>1, <3>1 DEF SameCall
  <2>13. Len(served[c][m]) = 0
    <3>1. m \in 1 .. MaxCalls[c]
      BY <1>2, <1>5, ConnectionConstantsOK
    <3>2. ServedOnce(c, m, asked, served)
      BY <3>1 DEF CallInv, OnceInv
    <3>3. Len(served[c][m]) \in Nat /\ Len(served[c][m]) <= 1 /\ Len(served[c][m]) # 1
      BY <1>5, <3>2, SeqFacts DEF ServedOnce
    <3>4. PICK l \in Nat : l = Len(served[c][m]) /\ l <= 1 /\ l # 1
      BY <3>3, Zenon
    <3>5. l = 0
      <4>1. \A k \in Nat : k <= 1 /\ k # 1 => k = 0
        OBVIOUS
      <4> QED
        BY <3>4, <4>1, Zenon
    <3> QED
      BY <3>4, <3>5
  <2>14. OwnerInv'
    <3>1. /\ waiting'[c] = TRUE /\ \A e \in Clients \ {c} : waiting'[e] = waiting[e]
          /\ outcome'[c] = Pending /\ \A e \in Clients \ {c} : outcome'[e] = outcome[e]
      BY <1>9 DEF ServiceInv, ClientInv
    <3>2. \A e \in Clients : waiting'[e] <=> outcome'[e] = Pending
      BY <3>1 DEF CallInv, OwnerInv
    <3>3. ASSUME NEW e \in Clients, NEW k \in Conns, k = socket[e]
          PROVE  /\ conn'[k].phase # "unused"
                 /\ ~waiting'[e] => Idle(conn'[k], handler'[k]) \/ conn'[k].phase = "reset"
                 /\ waiting'[e] =>
                      \A f \in Asking(conn'[k], handler'[k], frame'[k])
                                 \cup Answering(conn'[k], handler'[k], frame'[k]) :
                        f.call = <<e, Len(asked'[e])>>
      <4>1. CASE e = c
        <5>1. k = i /\ waiting'[e]
          BY <1>1, <3>1, <3>3, <4>1
        <5>2. conn'[k].phase # "unused"
          BY <2>2, <2>6, <2>8, <5>1
        <5>3. \A f \in Asking(conn'[k], handler'[k], frame'[k])
                         \cup Answering(conn'[k], handler'[k], frame'[k]) : f = F
          BY <2>10, <5>1
        <5>4. F.call = <<e, Len(asked'[e])>>
          BY <1>5, <2>1, <4>1
        <5> QED
          BY <5>1, <5>2, <5>3, <5>4
      <4>2. CASE e # c
        <5>1. k # i /\ waiting'[e] = waiting[e] /\ asked'[e] = asked[e] /\ conn'[k] = conn[k]
          BY <1>4, <1>8, <2>6, <3>1, <3>3, <4>2
        <5> QED
          BY <1>2, <2>11, <3>3, <5>1 DEF CallInv, OwnerInv
      <4> QED
        BY <4>1, <4>2
    <3> QED
      BY <1>2, <3>2, <3>3 DEF CallInv, OwnerInv
  <2>15. OnceInv'
    <3>1. ASSUME NEW j \in Conns, NEW f \in Asking(conn'[j], handler'[j], frame'[j])
          PROVE  /\ Len(served'[f.call[1]][f.call[2]]) = 0
                 /\ \A k \in Conns \ {j} : \A g \in Asking(conn'[k], handler'[k], frame'[k]) :
                      ~SameCall(g, f)
      <4>1. CASE j = i
        <5>1. f = F
          BY <2>10, <3>1, <4>1
        <5>2. Len(served'[f.call[1]][f.call[2]]) = 0
          BY <1>2, <2>1, <2>13, <5>1
        <5>3. \A k \in Conns \ {j} : \A g \in Asking(conn'[k], handler'[k], frame'[k]) :
                ~SameCall(g, f)
          BY <2>11, <2>12, <4>1, <5>1
        <5> QED
          BY <5>2, <5>3
      <4>2. CASE j # i
        <5>1. f \in Asking(conn[j], handler[j], frame[j])
          BY <2>11, <3>1, <4>2
        <5>2. Len(served'[f.call[1]][f.call[2]]) = 0
          BY <1>2, <5>1 DEF CallInv, OnceInv
        <5>3. ASSUME NEW k \in Conns \ {j}, NEW g \in Asking(conn'[k], handler'[k], frame'[k])
              PROVE  ~SameCall(g, f)
          <6>1. CASE k = i
            <7>1. g = F
              BY <2>10, <5>3, <6>1
            <7> QED
              BY <2>12, <5>1, <7>1 DEF SameCall
          <6>2. CASE k # i
            <7>1. g \in Asking(conn[k], handler[k], frame[k])
              BY <2>11, <5>3, <6>2
            <7> QED
              BY <5>1, <7>1 DEF CallInv, OnceInv
          <6> QED
            BY <6>1, <6>2
        <5> QED
          BY <5>2, <5>3
      <4> QED
        BY <4>1, <4>2
    <3> QED
      BY <1>6, <3>1 DEF OnceInv
  <2>16. AnswerInv'
    <3>1. ASSUME NEW j \in Conns, NEW f \in Answering(conn'[j], handler'[j], frame'[j])
          PROVE  Answered(f, asked', served')
      <4>1. j # i
        BY <2>10, <3>1
      <4>2. f \in Answering(conn[j], handler[j], frame[j])
        BY <2>11, <3>1, <4>1
      <4> QED
        BY <1>7, <4>2
    <3> QED
      BY <3>1 DEF AnswerInv
  <2> QED
    BY <2>9, <2>14, <2>15, <2>16 DEF CallInv
<1>10. CASE outcome' = [outcome EXCEPT ![c] = Unknown] /\ UNCHANGED <<conn, waiting>>
  <2>1. LoadInv'
    BY <1>2, <1>10 DEF CallInv, LoadInv
  <2>2. OwnerInv'
    <3>1. outcome'[c] = Unknown /\ \A e \in Clients \ {c} : outcome'[e] = outcome[e]
      BY <1>10 DEF ServiceInv, ClientInv
    <3>2. Unknown # Pending
      BY DEF Unknown, Pending
    <3>3. \A e \in Clients : waiting'[e] <=> outcome'[e] = Pending
      BY <1>2, <1>10, <3>1, <3>2 DEF CallInv, OwnerInv
    <3>4. \A e \in Clients : waiting'[e] => e # c /\ asked'[e] = asked[e]
      BY <1>2, <1>4, <1>10
    <3> QED
      BY <1>2, <1>10, <3>3, <3>4 DEF CallInv, OwnerInv
  <2>3. OnceInv'
    <3>1. ASSUME NEW j \in Conns, NEW f \in Asking(conn'[j], handler'[j], frame'[j])
          PROVE  /\ Len(served'[f.call[1]][f.call[2]]) = 0
                 /\ \A k \in Conns \ {j} : \A g \in Asking(conn'[k], handler'[k], frame'[k]) :
                      ~SameCall(g, f)
      BY <1>2, <1>10, <3>1 DEF CallInv, OnceInv
    <3> QED
      BY <1>6, <3>1 DEF OnceInv
  <2>4. AnswerInv'
    BY <1>2, <1>7, <1>10 DEF AnswerInv
  <2> QED
    BY <2>1, <2>2, <2>3, <2>4 DEF CallInv
<1> QED
  BY <1>1, <1>9, <1>10 DEF Execute

\* A call returns: what it waited for is read, or will never come.
LEMMA ReceiveCalls ==
  ASSUME ServiceInv, ServiceInv', CallInv, NEW c \in Clients, Receive(c), UNCHANGED serverVars
  PROVE  CallInv'
<1>1. PICK i \in Conns : i = socket[c]
  BY DEF Receive, ServiceInv, ClientInv
<1>2. /\ waiting[c] /\ waiting' = [waiting EXCEPT ![c] = FALSE]
      /\ UNCHANGED <<listener, socket, asked>>
      /\ UNCHANGED <<handler, frame, served, alive, main, inHand>>
  BY DEF Receive, serverVars
<1>3. PICK o : o.kind \in {"unknown", "answer"} /\ outcome' = [outcome EXCEPT ![c] = o]
  <2>1. Unknown.kind = "unknown"
    BY DEF Unknown
  <2> QED
    BY <2>1, InterpretKind DEF Receive
<1>4. \A d \in Clients : waiting'[d] <=> outcome'[d] = Pending
  <2>1. o # Pending
    BY <1>3 DEF Pending
  <2>2. /\ ~waiting'[c] /\ \A d \in Clients \ {c} : waiting'[d] = waiting[d]
        /\ outcome'[c] = o /\ \A d \in Clients \ {c} : outcome'[d] = outcome[d]
    BY <1>2, <1>3 DEF ServiceInv, ClientInv
  <2> QED
    BY <2>1, <2>2 DEF CallInv, OwnerInv
<1>5. /\ \A j \in Conns \ {i} : conn'[j] = conn[j]
      /\ conn'[i].up = conn[i].up /\ conn'[i].phase = conn[i].phase
      /\ conn'[i].serverOpen <=> conn[i].serverOpen
      /\ Len(conn'[i].down) = 0
      /\ Idle(conn'[i], handler[i]) \/ conn'[i].phase = "reset"
  <2>1. CASE conn[i].down # <<>> /\ conn' = [conn EXCEPT ![i].down = Tail(@)]
    <3> DEFINE s == conn[i].down
               d == [conn[i] EXCEPT !.down = Tail(s)]
    <3>1. ConnShape(conn[i]) /\ IsSeq(s) /\ s # <<>>
      BY <2>1, LoadOf, StreamsAre
    <3>2. Len(s) >= 1 /\ Len(s) \in Nat /\ Len(Tail(s)) = Len(s) - 1
      BY <3>1, SeqFacts
    <3>3. /\ Len(conn[i].up) \in Nat /\ Len(conn[i].up) + Len(s) <= 1
          /\ handler[i] \in {"serve", "reply"} => Len(s) = 0
      BY LoadOf
    <3>4. /\ d.up = conn[i].up /\ d.down = Tail(s) /\ d.phase = conn[i].phase
          /\ d.serverOpen <=> conn[i].serverOpen
      BY <3>1, StreamFields
    <3>5. conn' = [conn EXCEPT ![i] = d]
      BY <2>1
    <3> HIDE DEF s, d
    <3>6. conn'[i] = d /\ \A j \in Conns \ {i} : conn'[j] = conn[j]
      BY <3>5, OneConnFacts
    <3>7. PICK l \in Nat, m \in Nat : l = Len(s) /\ m = Len(conn[i].up) /\ l >= 1 /\ m + l <= 1
      BY <3>2, <3>3
    <3>8. l = 1 /\ m = 0
      BY <3>7
    <3>9. Len(Tail(s)) = 0 /\ Len(conn[i].up) = 0 /\ handler[i] \notin {"serve", "reply"}
      BY <3>2, <3>3, <3>7, <3>8
    <3>10. Idle(d, handler[i])
      BY <3>4, <3>9 DEF Idle
    <3> QED
      BY <3>4, <3>6, <3>9, <3>10
  <2>2. CASE conn[i].down = <<>> /\ ServerGone(i) /\ UNCHANGED conn
    <3>1. Len(conn[i].down) = 0
      BY <2>2, EmptyIsSeq
    <3>2. /\ ~conn[i].serverOpen => /\ Len(conn[i].up) = 0
                                    /\ handler[i] \notin {"read", "serve", "reply"}
      BY LoadOf
    <3>3. Idle(conn[i], handler[i]) \/ conn[i].phase = "reset"
      BY <2>2, <3>1, <3>2 DEF ServerGone, Idle
    <3> QED
      BY <2>2, <3>1, <3>3
  <2> QED
    BY <1>1, <2>1, <2>2 DEF Receive
<1>6. LoadInv'
  <2>1. OneFrame(conn'[i], handler'[i])
    <3>1. /\ Len(conn[i].up) \in Nat /\ Len(conn[i].down) \in Nat
          /\ OneFrame(conn[i], handler[i])
      BY LoadOf
    <3>2. Len(conn'[i].up) = Len(conn[i].up) /\ Len(conn'[i].down) = 0
      BY <1>5
    <3> QED
      BY <1>2, <1>5, <3>1, <3>2, OneFrameKept
  <2>2. main' = "spawn" => conn'[inHand'].serverOpen
    BY <1>2, <1>5 DEF CallInv, LoadInv, ServiceInv, ServerTypeOK
  <2>3. \A j \in Conns : alive' /\ conn'[j].phase = "backlog" => conn'[j].serverOpen
    BY <1>2, <1>5 DEF CallInv, LoadInv
  <2> QED
    BY <1>2, <1>5, <2>1, <2>2, <2>3 DEF CallInv, LoadInv
<1>7. ASSUME NEW j \in Conns
      PROVE  /\ Asking(conn'[j], handler'[j], frame'[j])
                  \subseteq Asking(conn[j], handler[j], frame[j])
             /\ Answering(conn'[j], handler'[j], frame'[j])
                  \subseteq Answering(conn[j], handler[j], frame[j])
  <2>1. CASE j = i
    BY <1>2, <1>5, <2>1, AskingLess, AnsweringLess
  <2>2. CASE j # i
    BY <1>2, <1>5, <2>2
  <2> QED
    BY <2>1, <2>2
<1>8. OwnerInv'
  <2>1. \A d \in Clients \ {c} : socket[d] # i
    BY <1>1 DEF CallInv, OwnerInv
  <2>2. ~waiting'[c] /\ \A d \in Clients \ {c} : waiting'[d] = waiting[d]
    BY <1>2 DEF ServiceInv, ClientInv
  <2>3. ASSUME NEW e \in Clients, NEW k \in Conns, k = socket[e]
        PROVE  /\ conn'[k].phase # "unused"
               /\ ~waiting'[e] => Idle(conn'[k], handler'[k]) \/ conn'[k].phase = "reset"
               /\ waiting'[e] =>
                    \A f \in Asking(conn'[k], handler'[k], frame'[k])
                               \cup Answering(conn'[k], handler'[k], frame'[k]) :
                      f.call = <<e, Len(asked'[e])>>
    <3>1. CASE e = c
      <4>1. k = i /\ conn[i].phase # "unused"
        BY <1>1, <2>3, <3>1 DEF CallInv, OwnerInv
      <4> QED
        BY <1>2, <1>5, <2>2, <3>1, <4>1
    <3>2. CASE e # c
      <4>1. k # i /\ waiting'[e] = waiting[e] /\ conn'[k] = conn[k]
        BY <1>5, <2>1, <2>2, <2>3, <3>2
      <4> QED
        BY <1>2, <2>3, <4>1 DEF CallInv, OwnerInv
    <3> QED
      BY <3>1, <3>2
  <2> QED
    BY <1>2, <1>4, <2>3 DEF CallInv, OwnerInv
<1>9. OnceInv'
  <2>1. ASSUME NEW j \in Conns, NEW f \in Asking(conn'[j], handler'[j], frame'[j])
        PROVE  /\ Len(served'[f.call[1]][f.call[2]]) = 0
               /\ \A k \in Conns \ {j} : \A g \in Asking(conn'[k], handler'[k], frame'[k]) :
                    ~SameCall(g, f)
    <3>1. f \in Asking(conn[j], handler[j], frame[j])
      BY <1>7, <2>1
    <3> QED
      BY <1>2, <1>7, <3>1 DEF CallInv, OnceInv
  <2>2. /\ \A d \in Clients : \A n \in 1 .. MaxCalls[d] : ServedOnce(d, n, asked', served')
        /\ served' = [d \in Clients |-> [n \in 1 .. MaxCalls[d] |-> served'[d][n]]]
    BY <1>2 DEF CallInv, OnceInv
  <2> QED
    BY <2>1, <2>2 DEF OnceInv
<1>10. AnswerInv'
  BY <1>2, <1>7, SMTT(30) DEF CallInv, AnswerInv
<1> QED
  BY <1>6, <1>8, <1>9, <1>10 DEF CallInv

-----------------------------------------------------------------------------
(* A request is executed *)

\* A request is executed for a call that was made and not executed before.
LEMMA ProcessFrameCalls ==
  ASSUME ServiceInv, ServiceInv', CallInv, NEW i \in Conns, ProcessFrame(i), UNCHANGED clientVars
  PROVE  /\ CallInv'
         /\ \E c \in Clients : \E n \in 1 .. MaxCalls[c] : \E e :
              /\ n <= Len(asked[c]) /\ served[c][n] = <<>>
              /\ served' = [served EXCEPT ![c][n] = <<e>>]
<1> DEFINE f == frame[i]
           c == f.call[1]
           n == f.call[2]
           r == asked[c][n]
<1>1. /\ handler[i] = "serve"
      /\ UNCHANGED <<conn, alive, main, inHand>>
  BY DEF ProcessFrame, connVars
<1>2. f \in Asking(conn[i], handler[i], frame[i])
  BY <1>1, SMTT(30) DEF Asking
<1>3. /\ Requested(f, asked) /\ IsFrame(f) /\ c \in Clients /\ n \in 1 .. MaxCalls[c]
      /\ n <= Len(asked[c])
      /\ f.type = r.type /\ f.body = Marshal(RequestFields[r.type], r.args)
  BY <1>2, UnderWay, CallOf DEF Requested
<1>4. Len(served[c][n]) = 0 /\ served[c][n] = <<>>
  <2>1. IsSeq(served[c][n]) /\ Len(served[c][n]) = 0
    BY <1>2, <1>3 DEF CallInv, OnceInv, ServedOnce
  <2>2. PICK S : served[c][n] \in Seq(S)
    BY <2>1 DEF IsSeq
  <2> QED
    BY <2>1, <2>2, EmptySeq
<1>5. PICK q, s : /\ Answers(i, f, q, s)
                  /\ Executed(r, [req |-> q, res |-> s])
  <2> DEFINE reading == Unmarshal(RequestFields[f.type], f.body, 0)
  <2>1. reading = Reading(r)
    BY <1>3 DEF Reading
  <2>2. CASE \E q \in reading : \E s \in Results(f.type, Cardinality(Executions)) :
               Answers(i, f, [type |-> f.type, args |-> q.val], s)
    <3>1. PICK q \in reading, s \in Results(f.type, Cardinality(Executions)) :
            Answers(i, f, [type |-> f.type, args |-> q.val], s)
      BY <2>2, SMTT(30)
    <3>2. Executions \in SUBSET AllCalls
      BY DEF Executions, AllCalls
    <3>3. s \in Possible(r.type)
      BY <1>3, <3>1, <3>2 DEF Possible
    <3>4. PICK p : p = [type |-> f.type, args |-> q.val]
      BY ZenonT(60)
    <3>5. \E z \in Reading(r) : p = [type |-> r.type, args |-> z.val]
      BY <1>3, <2>1, <3>1, <3>4, ZenonT(60)
    <3>6. Executed(r, [req |-> p, res |-> s])
      BY <3>3, <3>5 DEF Executed
    <3> QED
      BY <3>1, <3>4, <3>6
  <2>3. CASE reading = {} /\ Answers(i, f, Nothing, Result(InvalidPayload, <<>>))
    <3>1. PICK p, s : p = Nothing /\ s = Result(InvalidPayload, <<>>)
      OBVIOUS
    <3>2. s \in Possible(r.type)
      BY <3>1, SMTT(30) DEF Possible
    <3>3. Executed(r, [req |-> p, res |-> s])
      BY <2>1, <2>3, <3>1, <3>2, ZenonT(60) DEF Executed
    <3> QED
      BY <2>3, <3>1, <3>3
  <2> QED
    BY <2>2, <2>3 DEF ProcessFrame
<1> DEFINE e == [req |-> q, res |-> s]
           R == ResponseFrame(f, s)
<1>6. /\ served' = [served EXCEPT ![c][n] = Append(@, e)]
      /\ frame' = [frame EXCEPT ![i] = R]
      /\ handler' = [handler EXCEPT ![i] = "reply"]
  BY <1>5 DEF Answers
<1>7. /\ handler'[i] = "reply" /\ frame'[i] = R
      /\ \A j \in Conns \ {i} : handler'[j] = handler[j] /\ frame'[j] = frame[j]
  BY <1>6, SMTT(30) DEF ServiceInv, ServerTypeOK, HandlerInv
<1>8. R.call = f.call
  BY <1>3, ResponseFrameIs, SMTT(30)
<1>9. /\ R.type = IF s.code = 0 THEN r.type ELSE "Error"
      /\ R.body = IF s.code = 0 THEN ResponseBody(r.type, s.val)
                  ELSE Marshal(ErrorResponse, <<s.code, <<0>>>>)
  BY <1>3 DEF ResponseFrame
<1>10. Append(<<>>, e) = <<e>> /\ Len(<<e>>) = 1 /\ <<e>>[1] = e /\ e.res = s
  OBVIOUS
<1>11. Executed(r, e)
  BY <1>5
<1>12. asked' = asked
  BY DEF clientVars
<1> HIDE DEF e, R
<1>13. served' = [served EXCEPT ![c][n] = <<e>>]
  BY <1>4, <1>6, <1>10, SMTT(30)
<1>14. /\ served' = [d \in Clients |-> [k \in 1 .. MaxCalls[d] |-> served'[d][k]]]
       /\ served'[c][n] = <<e>>
       /\ \A d \in Clients : \A k \in 1 .. MaxCalls[d] :
            d # c \/ k # n => served'[d][k] = served[d][k]
  <2>1. /\ served = [d \in Clients |-> served[d]]
        /\ \A d \in Clients : served[d] = [k \in 1 .. MaxCalls[d] |-> served[d][k]]
    BY DEF CallInv, OnceInv
  <2>2. PICK v : v = [served[c] EXCEPT ![n] = <<e>>]
    OBVIOUS
  <2>3. served' = [served EXCEPT ![c] = v]
    BY <1>13, <2>2
  <2>4. v = [k \in 1 .. MaxCalls[c] |-> v[k]] /\ v[n] = <<e>>
        /\ \A k \in 1 .. MaxCalls[c] : k # n => v[k] = served[c][k]
    BY <1>3, <2>1, <2>2, ZenonT(60)
  <2>5. served'[c] = v /\ (\A d \in Clients : d # c => served'[d] = served[d])
        /\ served' = [d \in Clients |-> served'[d]]
    BY <1>3, <2>1, <2>3, ZenonT(60)
  <2>6. \A d \in Clients : served'[d] = [k \in 1 .. MaxCalls[d] |-> served'[d][k]]
    BY <2>1, <2>4, <2>5
  <2>7. served' = [d \in Clients |-> [k \in 1 .. MaxCalls[d] |-> served'[d][k]]]
    BY <2>5, <2>6
  <2> QED
    BY <2>4, <2>5, <2>7
<1>15. /\ Len(conn[i].up) = 0 /\ Len(conn[i].down) = 0 /\ conn[i].serverOpen
       /\ conn[i].phase # "unused"
  BY <1>1, LoadOf DEF Idle
<1>16. /\ Asking(conn'[i], handler'[i], frame'[i]) = {}
       /\ Answering(conn'[i], handler'[i], frame'[i]) = {R}
  BY <1>1, <1>7, <1>15 DEF Asking, Answering
<1>17. ASSUME NEW j \in Conns \ {i}
       PROVE  /\ Asking(conn'[j], handler'[j], frame'[j]) = Asking(conn[j], handler[j], frame[j])
              /\ Answering(conn'[j], handler'[j], frame'[j])
                   = Answering(conn[j], handler[j], frame[j])
  BY <1>1, <1>7
<1>18. LoadInv'
  <2>1. OneFrame(conn'[i], handler'[i])
    BY <1>1, <1>7, <1>15 DEF OneFrame
  <2> QED
    BY <1>1, <1>7, <2>1 DEF CallInv, LoadInv
<1>19. OwnerInv'
  <2>1. UNCHANGED <<socket, waiting, asked, outcome>>
    BY DEF clientVars
  <2>2. ASSUME NEW d \in Clients, NEW k \in Conns, k = socket[d]
        PROVE  /\ conn'[k].phase # "unused"
               /\ ~waiting[d] => Idle(conn'[k], handler'[k]) \/ conn'[k].phase = "reset"
               /\ waiting[d] =>
                    \A g \in Asking(conn'[k], handler'[k], frame'[k])
                               \cup Answering(conn'[k], handler'[k], frame'[k]) :
                      g.call = <<d, Len(asked[d])>>
    <3>1. CASE k = i
      <4>1. ~Idle(conn[i], handler[i])
        BY <1>1 DEF Idle
      <4>2. waiting[d] => f.call = <<d, Len(asked[d])>>
        BY <1>2, <2>2, <3>1 DEF CallInv, OwnerInv
      <4>3. ~waiting[d] => conn[i].phase = "reset"
        BY <2>2, <3>1, <4>1 DEF CallInv, OwnerInv
      <4>4. \A g \in Asking(conn'[k], handler'[k], frame'[k])
                       \cup Answering(conn'[k], handler'[k], frame'[k]) : g.call = f.call
        BY <1>8, <1>16, <3>1
      <4> QED
        BY <1>1, <1>15, <3>1, <4>2, <4>3, <4>4
    <3>2. CASE k # i
      BY <1>1, <1>7, <2>2, <3>2 DEF CallInv, OwnerInv
    <3> QED
      BY <3>1, <3>2
  <2> QED
    BY <2>1, <2>2 DEF CallInv, OwnerInv
<1>20. OnceInv'
  <2>1. ASSUME NEW d \in Clients, NEW k \in 1 .. MaxCalls[d]
        PROVE  ServedOnce(d, k, asked', served')
    <3>1. CASE d = c /\ k = n
      <4>1. /\ IsSeq(<<e>>)
        <5>1. <<e>> \in Seq({e})
          OBVIOUS
        <5> QED
          BY <5>1, ZenonT(60) DEF IsSeq
      <4>2. PICK x : x = <<e>> /\ IsSeq(x) /\ Len(x) = 1 /\ x[1] = e
        BY <1>10, <4>1, SMTT(30)
      <4>3. served'[d][k] = x /\ n <= Len(asked'[d]) /\ asked'[d][k] = r
        BY <1>3, <1>12, <1>14, <3>1, <4>2, ZenonT(60)
      <4>4. /\ IsSeq(served'[d][k]) /\ Len(served'[d][k]) = 1 /\ served'[d][k][1] = e
            /\ k <= Len(asked'[d])
        BY <3>1, <4>2, <4>3
      <4>5. Executed(asked'[d][k], served'[d][k][1])
        BY <1>11, <4>3, <4>4
      <4> QED
        BY <4>4, <4>5 DEF ServedOnce
    <3>2. CASE d # c \/ k # n
      <4>1. served'[d][k] = served[d][k] /\ ServedOnce(d, k, asked, served)
        BY <1>14, <3>2 DEF CallInv, OnceInv
      <4> QED
        BY <1>12, <4>1 DEF ServedOnce
    <3> QED
      BY <3>1, <3>2
  <2>2. ASSUME NEW j \in Conns, NEW g \in Asking(conn'[j], handler'[j], frame'[j])
        PROVE  /\ Len(served'[g.call[1]][g.call[2]]) = 0
               /\ \A k \in Conns \ {j} : \A h \in Asking(conn'[k], handler'[k], frame'[k]) :
                    ~SameCall(h, g)
    <3>1. j # i /\ g \in Asking(conn[j], handler[j], frame[j])
      BY <1>16, <1>17, <2>2
    <3>2. ~SameCall(g, f)
      BY <1>2, <3>1 DEF CallInv, OnceInv
    <3>3. Len(served[g.call[1]][g.call[2]]) = 0
      BY <3>1 DEF CallInv, OnceInv
    <3>4. IsFrame(g) /\ g.call[1] \in Clients /\ g.call[2] \in 1 .. MaxCalls[g.call[1]]
      BY <3>1, UnderWay, CallOf
    <3>5. served'[g.call[1]][g.call[2]] = served[g.call[1]][g.call[2]]
      BY <1>14, <3>2, <3>4 DEF SameCall
    <3>6. ASSUME NEW k \in Conns \ {j}, NEW h \in Asking(conn'[k], handler'[k], frame'[k])
          PROVE  ~SameCall(h, g)
      <4>1. h \in Asking(conn[k], handler[k], frame[k])
        BY <1>16, <1>17, <3>6
      <4> QED
        BY <3>1, <4>1 DEF CallInv, OnceInv
    <3> QED
      BY <3>3, <3>5, <3>6
  <2> QED
    BY <1>14, <2>1, <2>2 DEF OnceInv
<1>21. AnswerInv'
  <2>1. ASSUME NEW j \in Conns, NEW g \in Answering(conn'[j], handler'[j], frame'[j])
        PROVE  Answered(g, asked', served')
    <3>1. CASE j = i
      <4>1. g = R /\ g.call[1] = c /\ g.call[2] = n
        BY <1>8, <1>16, <2>1, <3>1
      <4>2. PICK x : x = <<e>> /\ Len(x) = 1 /\ x[1] = e
        BY <1>10
      <4>3. served'[c][n] = x /\ asked'[c][n] = r /\ e.res = s
        BY <1>10, <1>12, <1>14, <4>2
      <4>4. Len(served'[c][n]) = 1 /\ served'[c][n][1].res = s
        BY <4>2, <4>3, SMTT(30)
      <4> HIDE DEF c, n, r, f
      <4> QED
        BY <1>9, <4>1, <4>3, <4>4 DEF Answered
    <3>2. CASE j # i
      <4>1. IsFrame(g) /\ Answered(g, asked, served)
        BY <1>17, <2>1, <3>2, UnderWay, SMTT(30) DEF CallInv, AnswerInv
      <4>2. Len(served[g.call[1]][g.call[2]]) = 1
        BY <4>1 DEF Answered
      <4>3. g.call[1] \in Clients /\ g.call[2] \in 1 .. MaxCalls[g.call[1]]
        BY <4>1, CallOf
      <4>4. g.call[1] # c \/ g.call[2] # n
        <5> SUFFICES ASSUME g.call[1] = c, g.call[2] = n
                     PROVE  FALSE
          OBVIOUS
        <5>1. Len(served[c][n]) = 1
          BY <4>2
        <5>2. Len(served[c][n]) = 0
          BY <1>4
        <5>3. 0 # 1
          OBVIOUS
        <5> QED
          BY <5>1, <5>2, <5>3, Zenon
      <4>5. served'[g.call[1]][g.call[2]] = served[g.call[1]][g.call[2]]
        BY <1>14, <4>3, <4>4
      <4> QED
        BY <1>12, <4>1, <4>5 DEF Answered
    <3> QED
      BY <3>1, <3>2
  <2> QED
    BY <2>1 DEF AnswerInv
<1> QED
  BY <1>3, <1>4, <1>13, <1>18, <1>19, <1>20, <1>21 DEF CallInv

-----------------------------------------------------------------------------
(* The second invariant, and what follows from both *)

\* At the start no call is under way.
LEMMA CallInitially == Init => CallInv
<1> SUFFICES ASSUME Init
             PROVE  CallInv
  OBVIOUS
<1> USE DEF Init
<1>1. PICK e : e = <<>> /\ Len(e) = 0 /\ IsSeq(e)
  BY EmptyIsSeq
<1>2. ASSUME NEW i \in Conns
      PROVE  /\ Len(conn[i].up) = 0 /\ Len(conn[i].down) = 0 /\ handler[i] = "none"
             /\ conn[i].phase = "unused"
  BY <1>1, <1>2 DEF ConnInit, NewConn, ServerInit
<1>3. ASSUME NEW i \in Conns
      PROVE  /\ Asking(conn[i], handler[i], frame[i]) = {}
             /\ Answering(conn[i], handler[i], frame[i]) = {}
             /\ OneFrame(conn[i], handler[i])
  <2> PICK u, d, h : u = Len(conn[i].up) /\ d = Len(conn[i].down) /\ h = handler[i]
                     /\ u = 0 /\ d = 0 /\ h = "none"
    BY <1>2
  <2>1. Asking(conn[i], h, frame[i]) = {} /\ Answering(conn[i], h, frame[i]) = {}
    BY DEF Asking, Answering
  <2>2. OneFrame(conn[i], h)
    BY DEF OneFrame, Idle
  <2> QED
    BY <2>1, <2>2
<1>4. LoadInv
  BY <1>2, <1>3 DEF LoadInv, ServerInit
<1>5. OwnerInv
  <2>1. Unknown # Pending
    BY DEF Unknown, Pending
  <2>2. \A c \in Clients : socket[c] \notin Conns /\ ~waiting[c] /\ outcome[c] # Pending
    BY <2>1, ConnectionConstantsOK DEF ClientInit
  <2> QED
    BY <2>2 DEF OwnerInv
<1>6. OnceInv
  <2>1. \A c \in Clients : \A n \in 1 .. MaxCalls[c] : served[c][n] = e
    BY <1>1 DEF ServerInit
  <2>2. \A c \in Clients : \A n \in 1 .. MaxCalls[c] : ServedOnce(c, n, asked, served)
    BY <1>1, <2>1 DEF ServedOnce
  <2>3. served = [c \in Clients |-> [n \in 1 .. MaxCalls[c] |-> served[c][n]]]
    BY DEF ServerInit
  <2> QED
    BY <1>3, <2>2, <2>3 DEF OnceInv
<1>7. AnswerInv
  BY <1>3 DEF AnswerInv
<1> QED
  BY <1>4, <1>5, <1>6, <1>7 DEF CallInv

\* CallInv is inductive too, where ServiceInv holds: one frame at most is under
\* way on a connection, and no call is under way twice or after its execution.
THEOREM CallInductive == ServiceInv /\ CallInv /\ [Next]_vars => CallInv'
<1> SUFFICES ASSUME ServiceInv, CallInv, [Next]_vars
             PROVE  CallInv'
  OBVIOUS
<1> ServiceInv'
  BY ServiceInductive
<1>1. ASSUME NEW c \in Clients, ClientNext(c), UNCHANGED serverVars
      PROVE  CallInv'
  BY <1>1, ConnectCalls, CloseCalls, ExecuteCalls, ReceiveCalls DEF ClientNext
<1>2. ASSUME ServerNext, UNCHANGED clientVars
      PROVE  CallInv'
  <2>1. CASE Listen
    <3>1. CASE ExitProcess
      BY <1>2, <3>1, ExitCalls
    <3>2. CASE main' = "accept" /\ UNCHANGED <<conn, alive, handler, frame, served>>
      BY <1>2, <3>2, LosesNone
    <3> QED
      BY <2>1, <3>1, <3>2 DEF Listen
  <2>2. CASE \E i \in Conns : Accept(i)
    BY <1>2, <2>2, AcceptCalls
  <2>3. CASE Spawn
    BY <1>2, <2>3, SpawnCalls
  <2>4. CASE AcceptFails \/ Exit
    BY <1>2, <2>4, ExitCalls DEF AcceptFails, Exit
  <2>5. ASSUME NEW i \in Conns, HandlerStep(i)
        PROVE  CallInv'
    BY <1>2, <2>5, ReadFrameCalls, ProcessFrameCalls, WriteFrameCalls DEF HandlerStep
  <2>6. CASE Signal \/ StopWait \/ CloseBroker
    <3>1. UNCHANGED <<conn, alive, main, inHand, handler, frame, served>>
      BY <2>6 DEF Signal, StopWait, CloseBroker, connVars
    <3> QED
      BY <1>2, <3>1, LosesNone
  <2>7. CASE StopListener
    BY <1>2, <2>7, StopListenerCalls
  <2> QED
    BY <1>2, <2>1, <2>2, <2>3, <2>4, <2>5, <2>6, <2>7 DEF ServerNext, StartStep, StopStep
<1>3. ASSUME NEW i \in Conns, BreakConn(i), UNCHANGED <<clientVars, serverVars>>
      PROVE  CallInv'
  BY <1>3, BreakConnCalls
<1>4. CASE UNCHANGED vars
  <2>1. /\ UNCHANGED clientVars
        /\ UNCHANGED <<conn, alive, main, inHand, handler, frame, served>>
    BY <1>4 DEF vars, connVars, serverVars
  <2> QED
    BY <2>1, LosesNone
<1> QED
  BY <1>1, <1>2, <1>3, <1>4 DEF Next

\* Both hold in every state of every behaviour.
LEMMA CallsAlways == Spec => [](ServiceInv /\ CallInv)
<1> QED
  BY ServiceInitially, ServiceInductive, CallInitially, CallInductive, PTL DEF Spec

\* Every request that fits the wire format is executed as it was made, whatever
\* is under way on other connections: the frame a handler serves is the request
\* of its call, for all clients, connections, calls and their arguments.
THEOREM ExecutedAsSentAlways == Spec => []ExecutedAsSent
<1>1. ServiceInv /\ CallInv => ExecutedAsSent
  <2> SUFFICES ASSUME ServiceInv, CallInv, NEW c \in Clients, NEW n \in 1 .. MaxCalls[c],
                      NEW j \in DOMAIN served[c][n]
               PROVE  /\ n <= Len(asked[c])
                      /\ Fits(asked[c][n]) => served[c][n][j].req = asked[c][n]
    BY DEF ExecutedAsSent
  <2> DEFINE s == served[c][n]
             r == asked[c][n]
  <2>1. IsSeq(s) /\ Len(s) <= 1 /\ (Len(s) = 1 => n <= Len(asked[c]) /\ Executed(r, s[1]))
    BY DEF CallInv, OnceInv, ServedOnce
  <2>2. Len(s) \in Nat /\ DOMAIN s = 1 .. Len(s)
    BY <2>1, SeqFacts
  <2> HIDE DEF s, r
  <2>3. j = 1 /\ Len(s) = 1
    <3>1. PICK l \in Nat : l = Len(s) /\ l <= 1 /\ j \in 1 .. l
      BY <2>1, <2>2 DEF s
    <3>2. j = 1 /\ l = 1
      BY <3>1
    <3> QED
      BY <3>1, <3>2
  <2>4. n <= Len(asked[c]) /\ Executed(r, s[1])
    BY <2>1, <2>3
  <2>5. r \in Calls[c]
    <3>1. asked[c] \in Seq(Calls[c]) /\ n \in 1 .. Len(asked[c])
      BY <2>4, ConnectionConstantsOK DEF ServiceInv, ClientInv
    <3> QED
      BY <3>1 DEF r
  <2>6. ASSUME Fits(r)
        PROVE  s[1].req = r
    <3>1. {m.val : m \in Reading(r)} = {r.args}
      BY <2>5, <2>6, RequestReadBack
    <3>2. Reading(r) # {} /\ \A m \in Reading(r) : m.val = r.args
      BY <3>1
    <3>3. PICK q \in Reading(r) : s[1].req = [type |-> r.type, args |-> q.val]
      BY <2>4, <3>2 DEF Executed
    <3>4. r = [type |-> r.type, args |-> r.args]
      BY <2>5, CallsOK
    <3> QED
      BY <3>2, <3>3, <3>4
  <2> QED
    BY <2>3, <2>4, <2>6 DEF s, r
<1> QED
  BY <1>1, CallsAlways, PTL

-----------------------------------------------------------------------------
(* The refinement mapping *)

Count(a) == [c \in Clients |-> Len(a[c])]

Res(s) == [j \in DOMAIN s |-> s[j].res]

Done(s) == [c \in Clients |-> [n \in 1 .. MaxCalls[c] |-> Res(s[c][n])]]

\* What was done for one call.
LEMMA ResOf ==
  ASSUME NEW s, IsSeq(s)
  PROVE  /\ Len(s) = 0 => Res(s) = <<>>
         /\ Len(s) = 1 => Res(s) = <<s[1].res>>
<1>1. PICK S : s \in Seq(S)
  BY DEF IsSeq
<1>2. ASSUME Len(s) = 0
      PROVE  Res(s) = <<>>
  <2>1. s = <<>>
    BY <1>1, <1>2
  <2> QED
    BY <2>1 DEF Res
<1>3. ASSUME Len(s) = 1
      PROVE  Res(s) = <<s[1].res>>
  BY <1>1, <1>3 DEF Res
<1> QED
  BY <1>2, <1>3

\* The abstract state in terms of these operators.
LEMMA MapIs ==
  /\ [c \in Clients |-> Len(asked[c])] = Count(asked)
  /\ [c \in Clients |-> [n \in 1 .. MaxCalls[c] |->
        [j \in DOMAIN served[c][n] |-> served[c][n][j].res]]] = Done(served)
BY DEF Count, Done, Res

-----------------------------------------------------------------------------
(* Each step is one of RemoteCall, or none *)

\* A step that touches none of the history is not seen by the caller.
LEMMA RemoteStutter ==
  ASSUME UNCHANGED <<asked, served, outcome>>
  PROVE  UNCHANGED Promise!vars
BY DEF Promise!vars

\* Client.Execute is the call of the promise.
LEMMA ExecuteRefines ==
  ASSUME ServiceInv, CallInv, NEW c \in Clients, NEW r \in Calls[c], Execute(c, r),
         UNCHANGED serverVars
  PROVE  Promise!Call(c)
<1>1. /\ ~waiting[c] /\ Len(asked[c]) < MaxCalls[c]
      /\ asked' = [asked EXCEPT ![c] = Append(@, r)]
      /\ outcome' \in {[outcome EXCEPT ![c] = o] : o \in {Pending, Unknown}}
      /\ UNCHANGED served
  BY DEF Execute, serverVars
<1>2. outcome[c] # Promise!Pending
  BY <1>1 DEF CallInv, OwnerInv, Promise!Pending, Pending
<1>3. Count(asked') = [Count(asked) EXCEPT ![c] = @ + 1]
  <2>1. asked[c] \in Seq(Calls[c]) /\ asked = [d \in Clients |-> asked[d]]
    BY DEF ServiceInv, ClientInv
  <2>2. PICK s \in Seq(Calls[c]) : s = asked[c]
    BY <2>1
  <2>3. Len(Append(s, r)) = Len(s) + 1
    BY AppendProperties
  <2>4. asked'[c] = Append(s, r) /\ \A d \in Clients \ {c} : asked'[d] = asked[d]
    BY <1>1, <2>1, <2>2
  <2>5. Len(asked'[c]) = Len(asked[c]) + 1 /\ \A d \in Clients \ {c} : Len(asked'[d]) = Len(asked[d])
    BY <2>2, <2>3, <2>4
  <2> QED
    BY <2>5 DEF Count
<1>4. outcome' \in {[outcome EXCEPT ![c] = o] : o \in {Promise!Pending, Promise!Unknown}}
  BY <1>1 DEF Promise!Pending, Promise!Unknown, Pending, Unknown
<1> QED
  BY <1>1, <1>2, <1>3, <1>4 DEF Promise!Call, Count

\* processFrame performs one call that was made and not performed yet.
LEMMA ProcessRefines ==
  ASSUME ServiceInv, ServiceInv', CallInv, NEW i \in Conns, ProcessFrame(i), UNCHANGED clientVars
  PROVE  \E c \in Clients : \E n \in 1 .. MaxCalls[c] : Promise!Perform(c, n)
<1>a. PICK c \in Clients : \E n \in 1 .. MaxCalls[c] : \E e :
        /\ n <= Len(asked[c]) /\ served[c][n] = <<>>
        /\ served' = [served EXCEPT ![c][n] = <<e>>]
  BY ProcessFrameCalls
<1>b. PICK n \in 1 .. MaxCalls[c] : \E e :
        /\ n <= Len(asked[c]) /\ served[c][n] = <<>>
        /\ served' = [served EXCEPT ![c][n] = <<e>>]
  BY <1>a
<1>1. PICK e : /\ n <= Len(asked[c]) /\ served[c][n] = <<>>
               /\ served' = [served EXCEPT ![c][n] = <<e>>]
  BY <1>b
<1>2. UNCHANGED <<asked, outcome>>
  BY DEF clientVars
<1> DEFINE D == Done(served)
           E == Done(served')
<1>3. /\ served = [d \in Clients |-> served[d]]
      /\ \A d \in Clients : served[d] = [k \in 1 .. MaxCalls[d] |-> served[d][k]]
  BY DEF CallInv, OnceInv
<1>4. PICK v : v = [served[c] EXCEPT ![n] = <<e>>]
  OBVIOUS
<1>5. served' = [served EXCEPT ![c] = v]
  BY <1>1, <1>4
<1>6. v[n] = <<e>> /\ \A k \in 1 .. MaxCalls[c] : k # n => v[k] = served[c][k]
  BY <1>3, <1>4
<1>7. served'[c] = v /\ \A d \in Clients : d # c => served'[d] = served[d]
  BY <1>3, <1>5
<1>8. Res(<<>>) = <<>> /\ Res(<<e>>) = <<e.res>> /\ Len(<<e.res>>) = 1
  BY DEF Res
<1>9. D[c][n] = <<>> /\ E[c][n] = <<e.res>>
  BY <1>1, <1>6, <1>7, <1>8 DEF Done
<1>10. E = [D EXCEPT ![c][n] = <<e.res>>]
  <2>1. PICK w : w = [D[c] EXCEPT ![n] = <<e.res>>]
    OBVIOUS
  <2>2. \A k \in 1 .. MaxCalls[c] : E[c][k] = w[k]
    BY <1>6, <1>7, <1>9, <2>1 DEF Done
  <2>3. w = [k \in 1 .. MaxCalls[c] |-> w[k]] /\ E[c] = [k \in 1 .. MaxCalls[c] |-> E[c][k]]
    BY <2>1 DEF Done
  <2>4. E[c] = w
    BY <2>2, <2>3
  <2>5. \A d \in Clients : d # c => E[d] = D[d]
    BY <1>7 DEF Done
  <2>6. E = [d \in Clients |-> E[d]] /\ D = [d \in Clients |-> D[d]]
    BY DEF Done
  <2> HIDE DEF D, E
  <2>7. E = [D EXCEPT ![c] = w]
    BY <2>4, <2>5, <2>6
  <2> QED
    BY <2>1, <2>7
<1>11. Count(asked') = Count(asked) /\ n <= Count(asked)[c]
  BY <1>1, <1>2, SMTT(30) DEF Count
<1>12. Promise!Perform(c, n)
  BY <1>2, <1>8, <1>9, <1>10, <1>11 DEF Promise!Perform, Count, Done, Res
<1> QED
  BY <1>12

\* An answer to a call, read by the client, is what the broker gave.
LEMMA AnswerRead ==
  ASSUME ServiceInv, CallInv, NEW f, IsFrame(f), Answered(f, asked, served)
  PROVE  LET c == f.call[1]
             n == f.call[2]
         IN  /\ Len(served[c][n]) = 1 /\ IsSeq(served[c][n])
             /\ Interpret(asked[c][n].type, f)
                  = Answer(served[c][n][1].res.code, served[c][n][1].res.val)
<1> DEFINE c == f.call[1]
           n == f.call[2]
           r == asked[c][n]
           s == served[c][n][1].res
<1>1. c \in Clients /\ n \in 1 .. MaxCalls[c]
  BY CallOf, SMTT(30)
<1>2. /\ Len(served[c][n]) = 1 /\ IsSeq(served[c][n])
      /\ n <= Len(asked[c]) /\ Executed(r, served[c][n][1])
  BY <1>1, ZenonT(60) DEF Answered, CallInv, OnceInv, ServedOnce
<1>3. s \in Possible(r.type)
  BY <1>2 DEF Executed
<1>4. r.type \in DOMAIN RequestFields
  <2>1. asked[c] \in Seq(Calls[c]) /\ n \in 1 .. Len(asked[c])
    BY <1>1, <1>2, ConnectionConstantsOK DEF ServiceInv, ClientInv
  <2>2. r \in Calls[c]
    BY <2>1, SMTT(30)
  <2> QED
    BY <1>1, <2>2, CallsOK, SMTT(30)
<1>5. /\ f.type = IF s.code = 0 THEN r.type ELSE "Error"
      /\ f.body = IF s.code = 0 THEN ResponseBody(r.type, s.val)
                  ELSE Marshal(ErrorResponse, <<s.code, <<0>>>>)
  BY DEF Answered
<1> HIDE DEF r, s
<1>6. Interpret(r.type, f) = Answer(s.code, s.val)
  BY <1>3, <1>4, <1>5, ResponseReadBack, SMTT(30)
<1> QED
  BY <1>2, <1>6 DEF r, s

\* Reading the response ends the call, with the answer it was given or without one.
LEMMA ReceiveRefines ==
  ASSUME ServiceInv, CallInv, NEW c \in Clients, Receive(c),
         UNCHANGED serverVars
  PROVE  Promise!Return(c)
<1>1. PICK i \in Conns : i = socket[c]
  BY DEF Receive, ServiceInv, ClientInv
<1>2. waiting[c] /\ UNCHANGED <<asked, served>>
  BY DEF Receive, serverVars
<1>3. outcome[c] = Promise!Pending
  BY <1>2 DEF CallInv, OwnerInv, Pending, Promise!Pending
<1> DEFINE n == Len(asked[c])
           d == Done(served)[c][Count(asked)[c]]
<1>4. Count(asked') = Count(asked) /\ Done(served') = Done(served)
  BY <1>2
<1>5. \/ /\ d # <<>>
         /\ outcome' = [outcome EXCEPT ![c] =
                          [kind |-> "answer", code |-> d[1].code, val |-> d[1].val]]
      \/ outcome' = [outcome EXCEPT ![c] = Promise!Unknown]
  <2>1. CASE /\ conn[i].down # <<>>
             /\ outcome' = [outcome EXCEPT ![c] = Interpret(asked[c][n].type, Head(conn[i].down))]
    <3> DEFINE f == Head(conn[i].down)
               s == served[c][n]
    <3>1. f \in Answering(conn[i], handler[i], frame[i])
      <4>1. IsSeq(conn[i].down)
        BY LoadOf, StreamsAre
      <4>2. f = conn[i].down[1] /\ Len(conn[i].down) >= 1 /\ Len(conn[i].down) \in Nat
        BY <2>1, <4>1, SeqFacts
      <4> HIDE DEF f
      <4> QED
        BY <4>2 DEF Answering
    <3>2. IsFrame(f) /\ Answered(f, asked, served)
      BY <3>1, UnderWay DEF CallInv, AnswerInv
    <3>3. f.call = <<c, n>>
      BY <1>1, <1>2, <3>1 DEF CallInv, OwnerInv
    <3> HIDE DEF f
    <3>4. f.call[1] = c /\ f.call[2] = n
      BY <3>3
    <3>5. n \in 1 .. MaxCalls[c]
      BY <3>2, <3>4, CallOf, SMTT(30)
    <3>6. /\ Len(s) = 1 /\ IsSeq(s)
          /\ Interpret(asked[c][n].type, f) = Answer(s[1].res.code, s[1].res.val)
      BY <3>2, <3>4, AnswerRead
    <3>7. d = Res(s)
      BY <3>5 DEF Count, Done
    <3>8. PICK z : z = s[1].res /\ d = <<z>>
      BY <3>6, <3>7, ResOf
    <3>9. d # <<>> /\ d[1] = z
      BY <3>8
    <3> HIDE DEF d, s
    <3>10. Interpret(asked[c][n].type, f) = [kind |-> "answer", code |-> d[1].code, val |-> d[1].val]
      BY <3>6, <3>8, <3>9 DEF Answer
    <3> QED
      BY <2>1, <3>9, <3>10 DEF f
  <2>2. CASE outcome' = [outcome EXCEPT ![c] = Unknown]
    BY <2>2 DEF Unknown, Promise!Unknown
  <2> QED
    BY <1>1, <2>1, <2>2 DEF Receive
<1> QED
  BY <1>3, <1>4, <1>5 DEF Promise!Return, Count, Done, Res

\* Nothing was asked and nothing done at the start.
LEMMA RemoteInitially == Init => Promise!Init
<1> SUFFICES ASSUME Init
             PROVE  Promise!Init
  OBVIOUS
<1>1. PICK e : e = <<>> /\ Len(e) = 0
  OBVIOUS
<1>2. \A c \in Clients : asked[c] = e /\ \A n \in 1 .. MaxCalls[c] : served[c][n] = e
  BY <1>1 DEF Init, ClientInit, ServerInit
<1>3. Count(asked) = [c \in Clients |-> 0]
  BY <1>1, <1>2 DEF Count
<1>4. Res(e) = <<>>
  BY <1>1 DEF Res
<1>5. \A c \in Clients : \A n \in DOMAIN Done(served)[c] : Done(served)[c][n] = <<>>
  BY <1>2, <1>4 DEF Done
<1>6. outcome = [c \in Clients |-> Promise!Unknown]
  BY DEF Init, ClientInit, Unknown, Promise!Unknown
<1> QED
  BY <1>3, <1>5, <1>6 DEF Promise!Init, Count, Done, Res

\* Every step of the clients, the daemon or the network is a step of RemoteCall
\* or leaves its state alone.
LEMMA RemoteStep ==
  ASSUME ServiceInv, CallInv, [Next]_vars
  PROVE  [Promise!Next]_Promise!vars
<1> ServiceInv'
  BY ServiceInductive
<1>1. ASSUME NEW c \in Clients, ClientNext(c), UNCHANGED serverVars
      PROVE  [Promise!Next]_Promise!vars
  <2>1. CASE Connect(c) \/ Close(c)
    <3>1. UNCHANGED <<asked, served, outcome>>
      BY <1>1, <2>1 DEF Connect, Close, clientVars, serverVars
    <3> QED
      BY <3>1, RemoteStutter
  <2>2. CASE \E r \in Calls[c] : Execute(c, r)
    BY <1>1, <2>2, ExecuteRefines DEF Promise!Next
  <2>3. CASE Receive(c)
    BY <1>1, <2>3, ReceiveRefines DEF Promise!Next
  <2> QED
    BY <1>1, <2>1, <2>2, <2>3 DEF ClientNext
<1>2. ASSUME NEW i \in Conns, ProcessFrame(i), UNCHANGED clientVars
      PROVE  [Promise!Next]_Promise!vars
  <2>1. PICK c \in Clients : \E n \in 1 .. MaxCalls[c] : Promise!Perform(c, n)
    BY <1>2, ProcessRefines
  <2>2. DOMAIN [k \in 1 .. MaxCalls[c] |-> [j \in DOMAIN served[c][k] |-> served[c][k][j].res]]
          = 1 .. MaxCalls[c]
    OBVIOUS
  <2> QED
    BY <2>1, <2>2 DEF Promise!Next
<1>3. ASSUME ServerNext, UNCHANGED clientVars, ~\E i \in Conns : ProcessFrame(i)
      PROVE  UNCHANGED Promise!vars
  <2>1. UNCHANGED served
    BY <1>3 DEF ServerNext, StartStep, StopStep, HandlerStep, Listen, Accept, Spawn,
                AcceptFails, ExitProcess, ReadFrame, WriteFrame, Signal, StopListener,
                StopWait, CloseBroker, Exit
  <2> QED
    BY <1>3, <2>1, RemoteStutter DEF clientVars
<1>4. ASSUME NEW i \in Conns, BreakConn(i), UNCHANGED <<clientVars, serverVars>>
      PROVE  UNCHANGED Promise!vars
  BY <1>4, RemoteStutter DEF clientVars, serverVars
<1>5. CASE UNCHANGED vars
  BY <1>5, RemoteStutter DEF vars, clientVars, serverVars
<1> QED
  BY <1>1, <1>2, <1>3, <1>4, <1>5 DEF Next

\* pkg/client and pkg/server keep the promise of RemoteCall for any number of
\* clients, connections and calls: at most one execution of a call, and an
\* answer that is its own, read from its bytes as the broker gave it.
THEOREM RemoteCallImplemented == Spec => ImplementsRemoteCall
<1>1. ServiceInv /\ CallInv /\ [Next]_vars => [Promise!Next]_Promise!vars
  BY RemoteStep
<1> QED
  BY <1>1, CallsAlways, RemoteInitially, PTL DEF Spec, ImplementsRemoteCall, Promise!Spec
=============================================================================
