----------------------------- MODULE WireProofs -----------------------------
(***************************************************************************)
(* Marshal and Unmarshal are inverse, for every message and every size of  *)
(* a byte: a body is read back as it was written, and one that is cut off  *)
(* is not read at all.                                                     *)
(***************************************************************************)
EXTENDS Wire, WellFoundedInduction, TLAPS

-----------------------------------------------------------------------------
(* Induction and recursion over numbers *)

\* A set that has 0 and with each number the next one has all.
LEMMA EveryNumber ==
  ASSUME NEW T, 0 \in T, \A n \in Nat : n \in T => n + 1 \in T
  PROVE  Nat \subseteq T
<1> SUFFICES ASSUME Nat \ T # {}
             PROVE  FALSE
  OBVIOUS
<1> DEFINE R == OpToRel(<, Nat)
<1>1. \A m, n \in Nat : <<n, m>> \notin R => m <= n
  BY DEF OpToRel
<1>2. IsWellFoundedOn(R, Nat)
  BY NatLessThanWellFounded
<1> HIDE DEF R
<1>3. PICK m \in Nat \ T : \A n \in Nat \ T : <<n, m>> \notin R
  BY <1>2, WFMin
<1>4. \A n \in Nat \ T : m <= n
  BY <1>1, <1>3
<1>5. m # 0 /\ m - 1 \in Nat
  BY <1>3
<1>6. m - 1 \in T
  BY <1>4, <1>5
<1> QED
  BY <1>3, <1>5, <1>6

\* The same for the numbers up to n.
LEMMA UpTo ==
  ASSUME NEW n \in Nat, NEW T, 0 \in T, \A i \in 1 .. n : i - 1 \in T => i \in T
  PROVE  0 .. n \subseteq T
<1> DEFINE U == {k \in Nat : k <= n => k \in T}
<1>1. ASSUME NEW k \in Nat, k \in U
      PROVE  k + 1 \in U
  <2> SUFFICES ASSUME k + 1 <= n PROVE k + 1 \in T
    OBVIOUS
  <2>1. k + 1 \in 1 .. n /\ (k + 1) - 1 = k /\ k \in T
    BY <1>1
  <2> QED
    BY <2>1
<1>2. 0 \in U
  OBVIOUS
<1> HIDE DEF U
<1>3. Nat \subseteq U
  BY <1>1, <1>2, EveryNumber
<1> QED
  BY <1>3 DEF U

\* f starts with a, and F[i] is its i-th step.
Solves(f, n, S, a, F) ==
  f \in [0 .. n -> S] /\ f[0] = a /\ \A i \in 1 .. n : f[i] = F[i][f[i - 1]]

\* A recursion from 0 to n has a solution.
LEMMA Recursion ==
  ASSUME NEW n \in Nat, NEW S, NEW a \in S, NEW F,
         \A i \in 1 .. n : \A s \in S : F[i][s] \in S
  PROVE  \E f : Solves(f, n, S, a, F)
<1> DEFINE T == {k \in Nat : k <= n => \E f : Solves(f, k, S, a, F)}
<1>1. 0 \in T
  <2> DEFINE f == [i \in 0 .. 0 |-> a]
  <2>1. Solves(f, 0, S, a, F)
    BY DEF Solves
  <2> QED
    BY <2>1
<1>2. ASSUME NEW k \in Nat, k \in T
      PROVE  k + 1 \in T
  <2> SUFFICES ASSUME k + 1 <= n
               PROVE  \E g : Solves(g, k + 1, S, a, F)
    OBVIOUS
  <2>1. PICK f : Solves(f, k, S, a, F)
    BY <1>2
  <2>2. f[k] \in S /\ F[k + 1][f[k]] \in S
    BY <2>1 DEF Solves
  <2> DEFINE g == [i \in 0 .. k + 1 |-> IF i = k + 1 THEN F[k + 1][f[k]] ELSE f[i]]
  <2>3. g \in [0 .. k + 1 -> S] /\ g[0] = a
    BY <2>1, <2>2 DEF Solves
  <2>4. ASSUME NEW i \in 1 .. k + 1
        PROVE  g[i] = F[i][g[i - 1]]
    <3>1. CASE i = k + 1
      BY <3>1
    <3>2. CASE i # k + 1
      <4>1. i \in 1 .. k /\ i - 1 \in 0 .. k + 1 /\ i - 1 # k + 1 /\ i \in 0 .. k + 1
        BY <3>2
      <4>2. g[i] = f[i] /\ g[i - 1] = f[i - 1]
        BY <3>2, <4>1
      <4> QED
        BY <2>1, <4>1, <4>2 DEF Solves
    <3> QED
      BY <3>1, <3>2
  <2> HIDE DEF g
  <2>5. Solves(g, k + 1, S, a, F)
    BY <2>3, <2>4 DEF Solves
  <2> QED
    BY <2>5
<1> HIDE DEF T
<1>3. n \in T
  BY <1>1, <1>2, EveryNumber
<1> QED
  BY <1>3 DEF T

-----------------------------------------------------------------------------
(* Numbers *)

Bytes == 0 .. Byte - 1

\* A number is its last byte and the rest.
LEMMA LastByte ==
  ASSUME NEW x \in Nat
  PROVE  x \div Byte \in Nat /\ x % Byte \in Bytes /\ (x \div Byte) * Byte + (x % Byte) = x
BY ByteOK DEF Bytes

\* A number below m * Byte, shifted by a byte, is below m.
LEMMA ShiftBelow ==
  ASSUME NEW x \in Nat, NEW m \in Nat, x < m * Byte
  PROVE  x \div Byte < m
<1> PICK q \in Nat : q = x \div Byte
  BY LastByte
<1>1. q * Byte <= x
  <2>1. PICK d \in Nat : d = x % Byte
    BY LastByte DEF Bytes
  <2>2. q * Byte + d = x
    BY <2>1, LastByte
  <2>3. q * Byte \in Nat
    BY ByteOK
  <2> QED
    BY <2>1, <2>2, <2>3
<1> SUFFICES ASSUME q >= m PROVE FALSE
  OBVIOUS
<1>2. q * Byte >= m * Byte
  BY ByteOK
<1> QED
  BY <1>1, <1>2, ByteOK

\* The recursion of PutUint.
IsShifts(v, w, f) == f = [i \in 0 .. w |-> IF i = 0 THEN v ELSE f[i - 1] \div Byte]

\* PutUint writes the last byte of v and of each v shifted to the right.
LEMMA PutUintIs ==
  ASSUME NEW v \in Nat, NEW w \in Nat
  PROVE  \E q \in [0 .. w -> Nat] :
           /\ q[0] = v /\ \A i \in 1 .. w : q[i] = q[i - 1] \div Byte
           /\ PutUint(v, w) = [i \in 1 .. w |-> q[w - i] % Byte]
<1> DEFINE F == [i \in 1 .. w |-> [s \in Nat |-> s \div Byte]]
           q == CHOOSE f : IsShifts(v, w, f)
<1>1. \A i \in 1 .. w : \A s \in Nat : F[i][s] = s \div Byte
  OBVIOUS
<1>0. \A i \in 1 .. w : \A s \in Nat : F[i][s] \in Nat
  BY LastByte
<1> HIDE DEF F
<1>2. PICK f : Solves(f, w, Nat, v, F)
  BY <1>0, Recursion
<1>3. IsShifts(v, w, f)
  <2>1. \A i \in 1 .. w : i - 1 \in 0 .. w /\ f[i] = f[i - 1] \div Byte
    BY <1>1, <1>2 DEF Solves
  <2> QED
    BY <1>2, <2>1 DEF IsShifts, Solves
<1>4. IsShifts(v, w, q)
  BY <1>3
<1> HIDE DEF q
<1>5. ASSUME NEW i \in 1 .. w
      PROVE  q[i] = q[i - 1] \div Byte
  BY <1>4 DEF IsShifts
<1>6. q[0] = v
  BY <1>4 DEF IsShifts
<1>7. q \in [0 .. w -> Nat]
  <2> DEFINE T == {k \in 0 .. w : q[k] \in Nat}
  <2>1. ASSUME NEW i \in 1 .. w, i - 1 \in T
        PROVE  i \in T
    <3>1. q[i - 1] \in Nat /\ i \in 0 .. w
      BY <2>1
    <3>2. q[i - 1] \div Byte \in Nat
      BY <3>1, LastByte
    <3> QED
      BY <1>5, <3>1, <3>2
  <2>2. 0 \in T
    BY <1>6
  <2> HIDE DEF T
  <2>3. 0 .. w \subseteq T
    BY <2>1, <2>2, UpTo
  <2> QED
    BY <1>4, <2>3 DEF IsShifts, T
<1>8. PutUint(v, w) = [i \in 1 .. w |-> q[w - i] % Byte]
  BY DEF PutUint, IsShifts, q
<1> QED
  BY <1>5, <1>6, <1>7, <1>8

\* The recursion of Uint.
IsRead(b, f) == f = [i \in 0 .. Len(b) |-> IF i = 0 THEN 0 ELSE f[i - 1] * Byte + b[i]]

\* Uint reads byte by byte.
LEMMA UintIs ==
  ASSUME NEW b \in Seq(Bytes)
  PROVE  \E f \in [0 .. Len(b) -> Nat] :
           /\ f[0] = 0 /\ \A i \in 1 .. Len(b) : f[i] = f[i - 1] * Byte + b[i]
           /\ Uint(b) = f[Len(b)]
<1> PICK w \in Nat : w = Len(b)
  OBVIOUS
<1> DEFINE F == [i \in 1 .. w |-> [s \in Nat |-> s * Byte + b[i]]]
           q == CHOOSE f : IsRead(b, f)
<1>0. \A i \in 1 .. w : b[i] \in Nat
  BY ByteOK DEF Bytes
<1>1. \A i \in 1 .. w : \A s \in Nat : F[i][s] = s * Byte + b[i]
  OBVIOUS
<1>2. \A i \in 1 .. w : \A s \in Nat : F[i][s] \in Nat
  BY <1>0, <1>1, ByteOK
<1> HIDE DEF F
<1>3. PICK f : Solves(f, w, Nat, 0, F)
  BY <1>2, Recursion
<1>4. IsRead(b, f)
  <2>1. \A i \in 1 .. w : i - 1 \in 0 .. w /\ f[i] = f[i - 1] * Byte + b[i]
    BY <1>1, <1>3 DEF Solves
  <2> QED
    BY <1>3, <2>1 DEF IsRead, Solves
<1>5. IsRead(b, q)
  BY <1>4
<1> HIDE DEF q
<1>6. ASSUME NEW i \in 1 .. w
      PROVE  q[i] = q[i - 1] * Byte + b[i]
  BY <1>5 DEF IsRead
<1>7. q[0] = 0
  BY <1>5 DEF IsRead
<1>8. q \in [0 .. w -> Nat]
  <2> DEFINE T == {k \in 0 .. w : q[k] \in Nat}
  <2>1. ASSUME NEW i \in 1 .. w, i - 1 \in T
        PROVE  i \in T
    <3>1. q[i - 1] \in Nat /\ i \in 0 .. w
      BY <2>1
    <3>2. q[i - 1] * Byte + b[i] \in Nat
      BY <1>0, <3>1, ByteOK
    <3> QED
      BY <1>6, <3>1, <3>2
  <2>2. 0 \in T
    BY <1>7
  <2> HIDE DEF T
  <2>3. 0 .. w \subseteq T
    BY <2>1, <2>2, UpTo
  <2> QED
    BY <1>5, <2>3 DEF IsRead, T
<1>9. Uint(b) = q[w]
  BY DEF Uint, IsRead, q
<1> QED
  BY <1>6, <1>7, <1>8, <1>9

\* A number that w shifts use up is read back from w bytes.
LEMMA UintOfPutUint ==
  ASSUME NEW v \in Nat, NEW w \in Nat, NEW q \in [0 .. w -> Nat],
         q[0] = v, \A i \in 1 .. w : q[i] = q[i - 1] \div Byte, q[w] = 0,
         PutUint(v, w) = [i \in 1 .. w |-> q[w - i] % Byte]
  PROVE  PutUint(v, w) \in Seq(Bytes) /\ Len(PutUint(v, w)) = w /\ Uint(PutUint(v, w)) = v
<1> DEFINE b == PutUint(v, w)
<1>1. \A i \in 1 .. w : b[i] = q[w - i] % Byte /\ b[i] \in Bytes
  <2> SUFFICES ASSUME NEW i \in 1 .. w
               PROVE  b[i] = q[w - i] % Byte /\ b[i] \in Bytes
    OBVIOUS
  <2>1. w - i \in 0 .. w
    OBVIOUS
  <2>2. q[w - i] \in Nat
    BY <2>1
  <2> QED
    BY <2>2, LastByte
<1>2. b \in Seq(Bytes) /\ Len(b) = w
  BY <1>1
<1> HIDE DEF b
<1>3. PICK f \in [0 .. w -> Nat] :
        /\ f[0] = 0 /\ \A i \in 1 .. w : f[i] = f[i - 1] * Byte + b[i]
        /\ Uint(b) = f[w]
  BY <1>2, UintIs
<1> DEFINE T == {i \in 0 .. w : f[i] = q[w - i]}
<1>4. ASSUME NEW i \in 1 .. w, i - 1 \in T
      PROVE  i \in T
  <2>1. w - i \in 0 .. w /\ w - (i - 1) \in 1 .. w /\ (w - (i - 1)) - 1 = w - i
    OBVIOUS
  <2>2. f[i - 1] = q[w - i] \div Byte
    BY <1>4, <2>1
  <2>3. f[i] = (q[w - i] \div Byte) * Byte + (q[w - i] % Byte)
    BY <1>1, <1>3, <2>2
  <2>4. q[w - i] \in Nat
    BY <2>1
  <2>5. f[i] = q[w - i]
    BY <2>3, <2>4, LastByte, Zenon
  <2> QED
    BY <2>5
<1>5. 0 \in T
  BY <1>3
<1> HIDE DEF T
<1>6. 0 .. w \subseteq T
  BY <1>4, <1>5, UpTo
<1>7. w \in T
  BY <1>6
<1> QED
  BY <1>2, <1>3, <1>7 DEF T, b

\* A number below m * Max16, shifted twice, is below m.
LEMMA TwoShifts ==
  ASSUME NEW x \in Nat, NEW m \in Nat, x < m * Max16
  PROVE  (x \div Byte) \div Byte < m
<1> PICK k \in Nat : k = m * Byte
  BY ByteOK
<1>1. m * (Byte * Byte) = (m * Byte) * Byte
  BY ByteOK
<1>2. x \div Byte < m * Byte /\ x \div Byte \in Nat
  BY <1>1, ShiftBelow, LastByte DEF Max16
<1> QED
  BY <1>2, ShiftBelow

\* How many numbers a field holds depends on its width.
LEMMA LimitOf ==
  ASSUME NEW kind \in Kinds
  PROVE  /\ Width[kind] \in {2, 4, 8}
         /\ Width[kind] = 2 => Limit[kind] = Max16
         /\ Width[kind] = 4 => Limit[kind] = Max32
         /\ Width[kind] = 8 => Limit[kind] = Max32 * Max32
<1>1. kind \in {"u16", "u32", "u64", "name", "bytes"}
  BY DEF Kinds, Width
<1>2. Width["u16"] = 2 /\ Width["u32"] = 4 /\ Width["u64"] = 8 /\ Width["name"] = 2 /\ Width["bytes"] = 4
  BY DEF Width
<1>3. /\ Limit["u16"] = Max16 /\ Limit["u32"] = Max32 /\ Limit["u64"] = Max32 * Max32
      /\ Limit["name"] = Max16 /\ Limit["bytes"] = Max32
  BY DEF Limit
<1> QED
  BY <1>1, <1>2, <1>3

\* A number that fits a field is used up by as many shifts as the field has bytes.
LEMMA ShiftedAway ==
  ASSUME NEW kind \in Kinds, NEW v \in Nat, v < Limit[kind],
         NEW q \in [0 .. Width[kind] -> Nat],
         q[0] = v, \A i \in 1 .. Width[kind] : q[i] = q[i - 1] \div Byte
  PROVE  q[Width[kind]] = 0
<1> PICK w \in {2, 4, 8} : w = Width[kind]
  BY LimitOf
<1>1. Max16 \in Nat /\ Max32 \in Nat
  BY ByteOK DEF Max16, Max32
<1>2. ASSUME NEW i \in 0 .. w, i + 2 <= w, NEW m \in Nat, q[i] < m * Max16
      PROVE  q[i + 2] < m
  <2>1. i + 1 \in 1 .. w /\ (i + 1) - 1 = i /\ i + 2 \in 1 .. w /\ (i + 2) - 1 = i + 1
    BY <1>2
  <2>2. q[i + 2] = (q[i] \div Byte) \div Byte /\ q[i] \in Nat
    BY <2>1
  <2> QED
    BY <1>2, <2>2, TwoShifts
<1>3. ASSUME NEW i \in 0 .. w, i + 4 <= w, NEW m \in Nat, q[i] < m * Max32
      PROVE  q[i + 4] < m
  <2>1. m * Max16 \in Nat /\ m * Max32 = (m * Max16) * Max16
    BY <1>1 DEF Max32
  <2>2. q[i + 2] < m * Max16
    BY <1>2, <1>3, <2>1
  <2>3. q[(i + 2) + 2] < m
    BY <1>2, <1>3, <2>2
  <2> QED
    BY <2>3
<1>4. CASE w = 2
  <2>0. Limit[kind] = Max16
    BY <1>4, LimitOf
  <2>1. v < 1 * Max16
    BY <1>1, <2>0
  <2>2. q[0 + 2] < 1
    BY <1>2, <1>4, <2>1
  <2> QED
    BY <1>4, <2>2
<1>5. CASE w = 4
  <2>0. Limit[kind] = Max32
    BY <1>5, LimitOf
  <2>1. v < 1 * Max32
    BY <1>1, <2>0
  <2>2. q[0 + 4] < 1
    BY <1>3, <1>5, <2>1
  <2> QED
    BY <1>5, <2>2
<1>6. CASE w = 8
  <2>1. v < Max32 * Max32
    BY <1>6, LimitOf
  <2>2. q[0 + 4] < Max32
    BY <1>1, <1>3, <1>6, <2>1
  <2>3. q[4] < 1 * Max32
    BY <1>1, <2>2
  <2>4. q[4 + 4] < 1
    BY <1>3, <1>6, <2>3
  <2> QED
    BY <1>6, <2>4
<1> QED
  BY <1>4, <1>5, <1>6

\* So every field reads back the number, or the length, that it was given.
LEMMA NumberReadBack ==
  ASSUME NEW kind \in Kinds, NEW v \in Nat, v < Limit[kind]
  PROVE  /\ PutUint(v, Width[kind]) \in Seq(Bytes)
         /\ Len(PutUint(v, Width[kind])) = Width[kind] /\ Width[kind] \in Nat
         /\ Uint(PutUint(v, Width[kind])) = v
<1>1. Width[kind] \in Nat
  BY DEF Width, Kinds
<1>2. PICK q \in [0 .. Width[kind] -> Nat] :
        /\ q[0] = v /\ \A i \in 1 .. Width[kind] : q[i] = q[i - 1] \div Byte
        /\ PutUint(v, Width[kind]) = [i \in 1 .. Width[kind] |-> q[Width[kind] - i] % Byte]
  BY <1>1, PutUintIs
<1>3. q[Width[kind]] = 0
  BY <1>2, ShiftedAway
<1> QED
  BY <1>1, <1>2, <1>3, UintOfPutUint

-----------------------------------------------------------------------------
(* One field *)

\* From position p on, body goes on as m does, as far as it goes.
Agrees(body, p, m) == \A j \in 1 .. Len(m) : p + j <= Len(body) => body[p + j] = m[j]

\* What agrees with a sequence agrees with its parts.
LEMMA AgreesParts ==
  ASSUME NEW body \in Seq(Bytes), NEW p \in Nat, NEW a \in Seq(Bytes), NEW b \in Seq(Bytes),
         Agrees(body, p, a \o b)
  PROVE  Agrees(body, p, a) /\ Agrees(body, p + Len(a), b) /\ p + Len(a) \in Nat
<1>1. Len(a \o b) = Len(a) + Len(b)
  OBVIOUS
<1>2. ASSUME NEW j \in 1 .. Len(a), p + j <= Len(body)
      PROVE  body[p + j] = a[j]
  <2>1. j \in 1 .. Len(a \o b) /\ (a \o b)[j] = a[j]
    BY <1>1
  <2> QED
    BY <1>2, <2>1 DEF Agrees
<1>3. ASSUME NEW j \in 1 .. Len(b), (p + Len(a)) + j <= Len(body)
      PROVE  body[(p + Len(a)) + j] = b[j]
  <2>1. Len(a) + j \in 1 .. Len(a \o b) /\ (a \o b)[Len(a) + j] = b[j]
    BY <1>1
  <2>2. p + (Len(a) + j) = (p + Len(a)) + j
    OBVIOUS
  <2> QED
    BY <1>3, <2>1, <2>2 DEF Agrees
<1> QED
  BY <1>2, <1>3 DEF Agrees

\* What agrees with m and is long enough holds m.
LEMMA AgreesRead ==
  ASSUME NEW body \in Seq(Bytes), NEW p \in Nat, NEW m \in Seq(Bytes),
         Agrees(body, p, m), p + Len(m) <= Len(body)
  PROVE  SubSeq(body, p + 1, p + Len(m)) = m
<1> DEFINE s == SubSeq(body, p + 1, p + Len(m))
<1>1. Len(s) = Len(m) /\ s \in Seq(Bytes)
  OBVIOUS
<1>2. ASSUME NEW j \in 1 .. Len(m)
      PROVE  s[j] = m[j]
  <2>1. s[j] = body[p + j]
    OBVIOUS
  <2> QED
    BY <2>1 DEF Agrees
<1> HIDE DEF s
<1>3. s = m
  BY <1>1, <1>2
<1> QED
  BY <1>3 DEF s

\* A field is written as its number and, if it is counted, its bytes.
LEMMA PutIs ==
  ASSUME NEW kind \in Kinds, NEW v, IsValue(kind, v), FieldFits(kind, v)
  PROVE  /\ Put(kind, v) \in Seq(Bytes) /\ Len(Put(kind, v)) \in Nat
         /\ kind \in Counted => v \in Seq(Bytes) /\ Len(v) \in Nat /\ Len(v) < Limit[kind]
         /\ kind \notin Counted => v \in Nat /\ v < Limit[kind]
<1>1. CASE kind \in Counted
  <2>1. v \in Seq(Bytes) /\ Len(v) \in Nat /\ Len(v) < Limit[kind]
    BY <1>1 DEF IsValue, FieldFits, Bytes
  <2>2. PutUint(Len(v), Width[kind]) \in Seq(Bytes)
    BY <2>1, NumberReadBack
  <2>3. Put(kind, v) = PutUint(Len(v), Width[kind]) \o v
    BY <1>1 DEF Put
  <2> QED
    BY <1>1, <2>1, <2>2, <2>3
<1>2. CASE kind \notin Counted
  <2>1. v \in Nat /\ v < Limit[kind]
    BY <1>2 DEF IsValue, FieldFits
  <2>2. PutUint(v, Width[kind]) \in Seq(Bytes)
    BY <2>1, NumberReadBack
  <2>3. Put(kind, v) = PutUint(v, Width[kind])
    BY <1>2 DEF Put
  <2> QED
    BY <1>2, <2>1, <2>2, <2>3
<1> QED
  BY <1>1, <1>2

\* The reading after r of a part m of value v: none if a body of length l ends
\* before the part does.
After(r, m, v, l) ==
  IF r.pos + Len(m) <= l
  THEN {[pos |-> r.pos + Len(m), val |-> Append(r.val, v)]}
  ELSE {}

\* Where the body goes on with a field, Get reads that field, or nothing if the
\* body ends before the field does.
LEMMA GetAgrees ==
  ASSUME NEW kind \in Kinds, NEW v, IsValue(kind, v), FieldFits(kind, v),
         NEW body \in Seq(Bytes), NEW r, r.pos \in Nat, Agrees(body, r.pos, Put(kind, v))
  PROVE  Get(kind, body, r) = After(r, Put(kind, v), v, Len(body))
<1> SUFFICES Get(kind, body, r) =
               IF r.pos + Len(Put(kind, v)) <= Len(body)
               THEN {[pos |-> r.pos + Len(Put(kind, v)), val |-> Append(r.val, v)]}
               ELSE {}
  BY DEF After
<1> PICK p \in Nat : p = r.pos
  OBVIOUS
<1> PICK x \in Nat : x = IF kind \in Counted THEN Len(v) ELSE v
  BY PutIs
<1> DEFINE m == PutUint(x, Width[kind])
<1> PICK w \in Nat : w = Width[kind]
  BY LimitOf
<1>1. x < Limit[kind]
  BY PutIs
<1>2. m \in Seq(Bytes) /\ Len(m) = w /\ Uint(m) = x
  BY <1>1, NumberReadBack
<1> HIDE DEF m
<1>3. kind \in Counted => Put(kind, v) = m \o v /\ v \in Seq(Bytes) /\ x = Len(v)
  BY PutIs DEF Put, m
<1>4. kind \notin Counted => Put(kind, v) = m /\ x = v
  BY PutIs DEF Put, m
<1>5. Agrees(body, p, m)
  BY <1>2, <1>3, <1>4, AgreesParts, ZenonT(60)
<1>6. Len(Put(kind, v)) = w + IF kind \in Counted THEN x ELSE 0
  BY <1>2, <1>3, <1>4
<1>7. CASE p + w > Len(body)
  <2>1. Get(kind, body, r) = {}
    BY <1>7 DEF Get
  <2>2. p + Len(Put(kind, v)) >= p + w
    BY <1>6
  <2> QED
    BY <1>6, <1>7, <2>1, <2>2
<1>8. CASE p + w <= Len(body)
  <2>1. SubSeq(body, p + 1, p + w) = m
    BY <1>2, <1>5, <1>8, AgreesRead
  <2> DEFINE end == p + w + IF kind \in Counted THEN x ELSE 0
             u == IF kind \in Counted THEN SubSeq(body, p + w + 1, end) ELSE x
  <2>2. Get(kind, body, r) =
          IF p + w > Len(body) \/ end > Len(body) THEN {}
          ELSE {[pos |-> end, val |-> Append(r.val, u)]}
    BY <1>2, <2>1 DEF Get
  <2>3. end = p + Len(Put(kind, v)) /\ end \in Nat
    BY <1>6, SMTT(30)
  <2>4. ASSUME end <= Len(body)
        PROVE  u = v
    <3>1. CASE kind \in Counted
      <4>1. Agrees(body, p, m \o v) /\ v \in Seq(Bytes)
        BY <1>3, <3>1
      <4> HIDE DEF u
      <4>4. Agrees(body, p + w, v) /\ p + w \in Nat
        BY <1>2, <4>1, AgreesParts
      <4>2. end = (p + w) + Len(v)
        BY <1>3, <3>1
      <4>3. SubSeq(body, p + w + 1, (p + w) + Len(v)) = v
        BY <2>3, <2>4, <4>1, <4>2, <4>4, AgreesRead, ZenonT(60)
      <4> QED
        BY <3>1, <4>2, <4>3 DEF u
    <3>2. CASE kind \notin Counted
      BY <1>4, <3>2
    <3> QED
      BY <3>1, <3>2
  <2> HIDE DEF end, u
  <2>5. CASE end <= Len(body)
    BY <1>8, <2>2, <2>3, <2>4, <2>5
  <2>6. CASE ~(end <= Len(body))
    BY <2>2, <2>3, <2>6
  <2> QED
    BY <2>5, <2>6
<1> QED
  BY <1>7, <1>8, SMTT(30)

-----------------------------------------------------------------------------
(* Parts written one after the other *)

\* f[i] is a with the first i parts after it.
Writes(f, n, a, part) ==
  /\ f \in [0 .. n -> Seq(Bytes)] /\ part \in [1 .. n -> Seq(Bytes)]
  /\ f[0] = a /\ \A i \in 1 .. n : f[i] = f[i - 1] \o part[i]

\* The recursion of Marshal and MarshalList.
IsWritten(f, n, a, part) == f = [i \in 0 .. n |-> IF i = 0 THEN a ELSE f[i - 1] \o part[i]]

\* It has a solution, and whatever solves it is a writing.
LEMMA Written ==
  ASSUME NEW n \in Nat, NEW a \in Seq(Bytes), NEW part \in [1 .. n -> Seq(Bytes)]
  PROVE  /\ \E f : IsWritten(f, n, a, part)
         /\ \A f : IsWritten(f, n, a, part) => Writes(f, n, a, part)
<1> DEFINE F == [i \in 1 .. n |-> [s \in Seq(Bytes) |-> s \o part[i]]]
<1>1. \A i \in 1 .. n : \A s \in Seq(Bytes) : F[i][s] = s \o part[i]
  OBVIOUS
<1>2. \A i \in 1 .. n : \A s \in Seq(Bytes) : F[i][s] \in Seq(Bytes)
  BY <1>1
<1> HIDE DEF F
<1>3. PICK f : Solves(f, n, Seq(Bytes), a, F)
  BY <1>2, Recursion
<1>4. IsWritten(f, n, a, part)
  <2>1. ASSUME NEW i \in 1 .. n
        PROVE  f[i] = f[i - 1] \o part[i]
    <3>1. i - 1 \in 0 .. n
      OBVIOUS
    <3>2. f[i - 1] \in Seq(Bytes) /\ f[i] = F[i][f[i - 1]]
      BY <1>3, <3>1 DEF Solves
    <3>3. F[i][f[i - 1]] = f[i - 1] \o part[i]
      BY <1>1, <3>2, Zenon
    <3> QED
      BY <3>2, <3>3, Zenon
  <2>2. \A i \in 0 .. n : i # 0 => i \in 1 .. n
    OBVIOUS
  <2>3. f \in [0 .. n -> Seq(Bytes)] /\ f[0] = a
    BY <1>3 DEF Solves
  <2>4. \A i \in 0 .. n : f[i] = IF i = 0 THEN a ELSE f[i - 1] \o part[i]
    BY <2>1, <2>2, <2>3, Zenon
  <2> QED
    BY <2>3, <2>4, Zenon DEF IsWritten
<1>5. ASSUME NEW q, IsWritten(q, n, a, part)
      PROVE  Writes(q, n, a, part)
  <2>6. 0 \in 0 .. n /\ \A i \in 1 .. n : i \in 0 .. n /\ i # 0
    OBVIOUS
  <2>7. \A i \in 0 .. n : q[i] = IF i = 0 THEN a ELSE q[i - 1] \o part[i]
    BY <1>5, Zenon DEF IsWritten
  <2>1. q[0] = a /\ \A i \in 1 .. n : q[i] = q[i - 1] \o part[i]
    BY <2>6, <2>7, Zenon
  <2> DEFINE T == {k \in 0 .. n : q[k] \in Seq(Bytes)}
  <2>2. ASSUME NEW i \in 1 .. n, i - 1 \in T
        PROVE  i \in T
    <3>1. q[i - 1] \in Seq(Bytes) /\ i \in 0 .. n
      BY <2>2
    <3>2. q[i - 1] \o part[i] \in Seq(Bytes)
      BY <3>1
    <3> QED
      BY <2>1, <3>1, <3>2
  <2>3. 0 \in T
    BY <2>1
  <2> HIDE DEF T
  <2>4. 0 .. n \subseteq T
    BY <2>2, <2>3, UpTo
  <2>5. q \in [0 .. n -> Seq(Bytes)]
    BY <1>5, <2>4 DEF IsWritten, T
  <2> QED
    BY <2>1, <2>5 DEF Writes
<1> QED
  BY <1>4, <1>5

\* b is longer than a by the length of m.
Longer(a, m, b) ==
  /\ a \in Seq(Bytes) /\ m \in Seq(Bytes)
  /\ Len(a) \in Nat /\ Len(m) \in Nat /\ Len(b) = Len(a) + Len(m)

\* Each part makes the writing longer by its length.
LEMMA WritesPart ==
  ASSUME NEW n \in Nat, NEW a, NEW part, NEW f, Writes(f, n, a, part), NEW i \in 1 .. n
  PROVE  Longer(f[i - 1], part[i], f[i])
<1>1. i - 1 \in 0 .. n
  OBVIOUS
<1>2. f[i - 1] \in Seq(Bytes) /\ part[i] \in Seq(Bytes)
  BY <1>1 DEF Writes
<1>3. f[i] = f[i - 1] \o part[i]
  BY Zenon DEF Writes
<1>4. \A x, m \in Seq(Bytes) : Longer(x, m, x \o m)
  BY DEF Longer
<1> QED
  BY <1>2, <1>3, <1>4, Zenon

\* What agrees with a writing y agrees with its start x.
Starts(body, p, x, y) == Agrees(body, p, x) /\ Len(x) <= Len(y)

\* A writing starts with what was written after fewer parts.
LEMMA WritingStarts ==
  ASSUME NEW n \in Nat, NEW a, NEW part, NEW f, Writes(f, n, a, part),
         NEW body \in Seq(Bytes), NEW p \in Nat, Agrees(body, p, f[n])
  PROVE  \A i \in 0 .. n : Starts(body, p, f[i], f[n])
<1> DEFINE T == {k \in 0 .. n : Starts(body, p, f[n - k], f[n])}
<1>1. f[n] \in Seq(Bytes)
  BY DEF Writes
<1>2. PICK l \in Nat : l = Len(f[n])
  BY <1>1
<1>3. ASSUME NEW i \in 1 .. n, Starts(body, p, f[i], f[n])
      PROVE  Starts(body, p, f[i - 1], f[n])
  <2>1. Longer(f[i - 1], part[i], f[i]) /\ f[i] = f[i - 1] \o part[i]
    BY WritesPart DEF Writes
  <2>2. f[i - 1] \in Seq(Bytes) /\ part[i] \in Seq(Bytes)
    BY <2>1 DEF Longer
  <2>3. Agrees(body, p, f[i - 1] \o part[i])
    BY <1>3, <2>1, Zenon DEF Starts
  <2>4. Agrees(body, p, f[i - 1])
    BY <2>2, <2>3, AgreesParts
  <2>5. PICK x \in Nat : x = Len(f[i - 1])
    BY <2>1, Zenon DEF Longer
  <2>6. PICK y \in Nat : y = Len(part[i])
    BY <2>1, Zenon DEF Longer
  <2>7. x + y <= l
    BY <1>2, <1>3, <2>1, <2>5, <2>6, Zenon DEF Longer, Starts
  <2>8. x <= l
    BY <2>7
  <2> QED
    BY <1>2, <2>4, <2>5, <2>8, Zenon DEF Starts
<1>4. ASSUME NEW k \in 1 .. n, k - 1 \in T
      PROVE  k \in T
  <2>1. n - (k - 1) \in 1 .. n /\ (n - (k - 1)) - 1 = n - k
    OBVIOUS
  <2>2. Starts(body, p, f[n - (k - 1)], f[n])
    BY <1>4
  <2>3. Starts(body, p, f[n - k], f[n])
    BY <1>3, <2>1, <2>2
  <2> QED
    BY <2>3
<1>5. 0 \in T
  <2>1. Starts(body, p, f[n], f[n])
    BY <1>2 DEF Starts
  <2> QED
    BY <2>1
<1> HIDE DEF T
<1>6. 0 .. n \subseteq T
  BY <1>4, <1>5, UpTo
<1> SUFFICES ASSUME NEW i \in 0 .. n PROVE Starts(body, p, f[i], f[n])
  OBVIOUS
<1>7. n - i \in 0 .. n /\ n - (n - i) = i
  OBVIOUS
<1>8. n - i \in T
  BY <1>6, <1>7
<1> QED
  BY <1>7, <1>8 DEF T

\* What agrees with a writing agrees with each part, from where it starts.
LEMMA AgreesWriting ==
  ASSUME NEW n \in Nat, NEW a, NEW part, NEW f, Writes(f, n, a, part),
         NEW body \in Seq(Bytes), NEW p \in Nat, Agrees(body, p, f[n])
  PROVE  \A i \in 1 .. n : Agrees(body, p + Len(f[i - 1]), part[i])
<1> SUFFICES ASSUME NEW i \in 1 .. n PROVE Agrees(body, p + Len(f[i - 1]), part[i])
  OBVIOUS
<1>1. f[i] = f[i - 1] \o part[i] /\ f[i - 1] \in Seq(Bytes) /\ part[i] \in Seq(Bytes)
  <2>1. Longer(f[i - 1], part[i], f[i])
    BY WritesPart
  <2> QED
    BY <2>1, Zenon DEF Writes, Longer
<1>2. Starts(body, p, f[i], f[n])
  BY WritingStarts
<1>3. Agrees(body, p, f[i - 1] \o part[i])
  BY <1>1, <1>2, Zenon DEF Starts
<1> QED
  BY <1>1, <1>3, AgreesParts

\* The first i values.
First(vals, i) == [j \in 1 .. i |-> vals[j]]

\* The reading after i parts of a writing f, if the body has that many.
Readings(body, p, n, f, vals) ==
  [i \in 0 .. n |-> IF p + Len(f[i]) <= Len(body)
                    THEN {[pos |-> p + Len(f[i]), val |-> First(vals, i)]}
                    ELSE {}]

\* One value more.
LEMMA FirstNext ==
  ASSUME NEW vals, NEW i \in Nat \ {0}
  PROVE  Append(First(vals, i - 1), vals[i]) = First(vals, i)
<1> DEFINE V == {vals[j] : j \in 1 .. i}
<1>1. PICK a \in Seq(V) : a = First(vals, i - 1) /\ Len(a) = i - 1
  <2>1. i - 1 \in Nat /\ \A j \in 1 .. i - 1 : vals[j] \in V
    OBVIOUS
  <2> HIDE DEF V
  <2>2. First(vals, i - 1) \in Seq(V) /\ Len(First(vals, i - 1)) = i - 1
    BY <2>1 DEF First
  <2> QED
    BY <2>2
<1>2. PICK v \in V : v = vals[i]
  OBVIOUS
<1>3. First(vals, i) \in Seq(V) /\ Len(First(vals, i)) = i
  BY DEF First
<1> HIDE DEF V
<1>4. Append(a, v) \in Seq(V) /\ Len(Append(a, v)) = i
  BY <1>1
<1>5. ASSUME NEW j \in 1 .. i
      PROVE  Append(a, v)[j] = First(vals, i)[j]
  <2>1. CASE j = i
    BY <1>1, <1>2, <2>1 DEF First
  <2>2. CASE j # i
    <3>1. j \in 1 .. i - 1
      BY <2>2
    <3>2. Append(a, v)[j] = a[j]
      BY <1>1, <3>1
    <3> QED
      BY <1>1, <3>1, <3>2 DEF First
  <2> QED
    BY <2>1, <2>2
<1>6. Append(a, v) = First(vals, i)
  BY <1>3, <1>4, <1>5
<1> QED
  BY <1>1, <1>2, <1>6

\* The reading after old: nothing is left to read, or r is followed by a part m
\* of value v, in a body of length l.
Follows(old, r, m, v, l, new) ==
  \/ old = {} /\ new = {}
  \/ old = {r} /\ r.pos <= l /\ new = After(r, m, v, l)

\* One part more: nothing is left to read, or the reading r before this part
\* becomes the one after it, if the body has all of the part.
LEMMA ReadingsNext ==
  ASSUME NEW n \in Nat, NEW a, NEW part, NEW f, Writes(f, n, a, part),
         NEW body \in Seq(Bytes), NEW p \in Nat, NEW vals, NEW i \in 1 .. n
  PROVE  Follows(Readings(body, p, n, f, vals)[i - 1],
                 [pos |-> p + Len(f[i - 1]), val |-> First(vals, i - 1)],
                 part[i], vals[i], Len(body), Readings(body, p, n, f, vals)[i])
<1> DEFINE g == Readings(body, p, n, f, vals)
<1>1. PICK k \in Nat : k = i - 1 /\ k \in 0 .. n /\ i \in 0 .. n /\ i \in Nat \ {0}
  OBVIOUS
<1>2. /\ Len(f[k]) \in Nat /\ Len(part[i]) \in Nat
      /\ Len(f[i]) = Len(f[k]) + Len(part[i])
  <2>1. Longer(f[i - 1], part[i], f[i])
    BY WritesPart
  <2> QED
    BY <1>1, <2>1, Zenon DEF Longer
<1>3. PICK x \in Nat : x = p + Len(f[k])
  BY <1>2
<1>4. PICK y \in Nat : y = Len(part[i])
  BY <1>2
<1>5. p + Len(f[i]) = x + y
  <2>1. PICK z \in Nat : z = Len(f[k])
    BY <1>2
  <2>2. Len(f[i]) = z + y
    BY <1>2, <1>4, <2>1, Zenon
  <2>3. p + Len(f[i]) = p + (z + y) /\ x = p + z
    BY <1>3, <2>1, <2>2, Zenon
  <2>4. p + (z + y) = (p + z) + y
    OBVIOUS
  <2> QED
    BY <2>3, <2>4, Zenon
<1>6. PICK l \in Nat : l = Len(body)
  OBVIOUS
<1> DEFINE r == [pos |-> x, val |-> First(vals, k)]
           s == [pos |-> x + y, val |-> First(vals, i)]
<1>7. g[k] = IF x <= l THEN {r} ELSE {}
  BY <1>1, <1>3, <1>6, Zenon DEF Readings
<1>8. g[i] = IF x + y <= l THEN {s} ELSE {}
  BY <1>1, <1>5, <1>6, Zenon DEF Readings
<1>9. r.pos = x /\ s = [pos |-> r.pos + y, val |-> Append(r.val, vals[i])]
  <2>1. r.pos = x /\ r.val = First(vals, k)
    OBVIOUS
  <2>2. Append(First(vals, i - 1), vals[i]) = First(vals, i)
    BY <1>1, FirstNext
  <2>3. Append(r.val, vals[i]) = First(vals, i)
    BY <1>1, <2>1, <2>2, Zenon
  <2> HIDE DEF r
  <2> QED
    BY <2>1, <2>3, Zenon
<1> HIDE DEF g, s
<1> SUFFICES Follows(g[k], r, part[i], vals[i], l, g[i])
  BY <1>1, <1>3, <1>6, Zenon DEF g
<1> HIDE DEF r
<1>10. CASE x <= l
  <2>1. g[k] = {r} /\ g[i] = IF x + y <= l THEN {s} ELSE {}
    BY <1>7, <1>8, <1>10
  <2> QED
    BY <1>4, <1>9, <1>10, <2>1, Zenon DEF Follows, After
<1>11. CASE ~(x <= l)
  <2>1. ~(x + y <= l)
    BY <1>11
  <2>2. g[k] = {} /\ g[i] = {}
    BY <1>7, <1>8, <1>11, <2>1
  <2> QED
    BY <2>2, Zenon DEF Follows
<1> QED
  BY <1>10, <1>11

-----------------------------------------------------------------------------
(* A sequence of fields *)

\* Each field as it is written.
Fields(fields, vals) == [i \in 1 .. Len(fields) |-> Put(fields[i], vals[i])]

\* Marshal writes the fields one after the other.
LEMMA MarshalIs ==
  ASSUME NEW fields, NEW vals, Sendable(fields, vals)
  PROVE  \E f : /\ Writes(f, Len(fields), <<>>, Fields(fields, vals))
                /\ Marshal(fields, vals) = f[Len(fields)]
<1> PICK n \in Nat : n = Len(fields)
  BY DEF Sendable
<1> DEFINE part == Fields(fields, vals)
           IsMarshal(f) ==
             f = [i \in 0 .. n |-> IF i = 0 THEN <<>> ELSE f[i - 1] \o Put(fields[i], vals[i])]
           q == CHOOSE f : IsMarshal(f)
<1>1. \A i \in 1 .. n : part[i] = Put(fields[i], vals[i])
  BY DEF Fields
<1>2. part \in [1 .. n -> Seq(Bytes)]
  <2>1. ASSUME NEW i \in 1 .. n
        PROVE  Put(fields[i], vals[i]) \in Seq(Bytes)
    <3>1. fields[i] \in Kinds /\ IsValue(fields[i], vals[i]) /\ FieldFits(fields[i], vals[i])
      BY DEF Sendable, AreValues, AllFit
    <3> QED
      BY <3>1, PutIs
  <2> QED
    BY <2>1 DEF Fields
<1> HIDE DEF part
<1>3. \A i \in 0 .. n : i # 0 => i \in 1 .. n
  OBVIOUS
<1>4. ASSUME NEW f
      PROVE  IsMarshal(f) <=> IsWritten(f, n, <<>>, part)
  <2>1. [i \in 0 .. n |-> IF i = 0 THEN <<>> ELSE f[i - 1] \o Put(fields[i], vals[i])]
          = [i \in 0 .. n |-> IF i = 0 THEN <<>> ELSE f[i - 1] \o part[i]]
    BY <1>1, <1>3, Zenon
  <2> QED
    BY <2>1, Zenon DEF IsWritten
<1>5. Marshal(fields, vals) = q[n]
  BY DEF Marshal
<1> HIDE DEF IsMarshal
<1>6. <<>> \in Seq(Bytes)
  OBVIOUS
<1>7. IsMarshal(q)
  BY <1>2, <1>4, <1>6, Written
<1> HIDE DEF q
<1>8. Writes(q, n, <<>>, part)
  BY <1>2, <1>4, <1>6, <1>7, Written
<1> QED
  BY <1>5, <1>8 DEF part

\* Where the body goes on with a message, Unmarshal reads that message, or
\* nothing if the body ends before the message does.
LEMMA UnmarshalAgrees ==
  ASSUME NEW fields, NEW vals, Sendable(fields, vals),
         NEW body \in Seq(Bytes), NEW p \in Nat, p <= Len(body),
         Agrees(body, p, Marshal(fields, vals))
  PROVE  /\ Marshal(fields, vals) \in Seq(Bytes)
         /\ Unmarshal(fields, body, p) =
              IF p + Len(Marshal(fields, vals)) <= Len(body)
              THEN {[pos |-> p + Len(Marshal(fields, vals)), val |-> vals]}
              ELSE {}
<1> PICK n \in Nat : n = Len(fields)
  BY DEF Sendable
<1> PICK part : part = Fields(fields, vals)
  OBVIOUS
<1>1. PICK f : Writes(f, n, <<>>, part) /\ Marshal(fields, vals) = f[n]
  BY MarshalIs
<1> DEFINE g == Readings(body, p, n, f, vals)
           Step(r) == [i \in 0 .. n |-> IF i = 0 THEN From(p)
                                        ELSE UNION {Get(fields[i], body, m) : m \in r[i - 1]}]
           IsUnmarshal(r) == r = Step(r)
           q == CHOOSE r : IsUnmarshal(r)
<1>2. \A i \in 1 .. n : Agrees(body, p + Len(f[i - 1]), part[i])
  BY <1>1, AgreesWriting
<1>3. ASSUME NEW i \in 0 .. n
      PROVE  g[i] = IF p + Len(f[i]) <= Len(body)
                    THEN {[pos |-> p + Len(f[i]), val |-> First(vals, i)]} ELSE {}
  BY DEF Readings
<1>4. ASSUME NEW i \in 1 .. n
      PROVE  g[i] = UNION {Get(fields[i], body, m) : m \in g[i - 1]}
  <2>1. /\ fields[i] \in Kinds /\ IsValue(fields[i], vals[i]) /\ FieldFits(fields[i], vals[i])
        /\ part[i] = Put(fields[i], vals[i])
    BY <1>1 DEF Sendable, AreValues, AllFit, Fields
  <2> DEFINE r == [pos |-> p + Len(f[i - 1]), val |-> First(vals, i - 1)]
  <2>2. Follows(g[i - 1], r, part[i], vals[i], Len(body), g[i])
    BY <1>1, ReadingsNext, Zenon
  <2>3. Agrees(body, r.pos, Put(fields[i], vals[i])) /\ r.pos \in Nat
    <3>1. Longer(f[i - 1], part[i], f[i])
      BY <1>1, WritesPart
    <3> QED
      BY <1>2, <2>1, <3>1 DEF Longer
  <2> HIDE DEF g, r
  <2>4. Get(fields[i], body, r) = After(r, part[i], vals[i], Len(body))
    BY <2>1, <2>3, GetAgrees
  <2>5. \/ g[i - 1] = {} /\ g[i] = {}
        \/ g[i - 1] = {r} /\ g[i] = Get(fields[i], body, r)
    BY <2>2, <2>4, Zenon DEF Follows
  <2> QED
    BY <2>5
<1>5. f[0] = <<>> /\ f[n] \in Seq(Bytes)
  BY <1>1 DEF Writes
<1>6. g[0] = From(p)
  <2>1. First(vals, 0) = <<>> /\ p + Len(f[0]) = p /\ 0 \in 0 .. n
    BY <1>5 DEF First
  <2> HIDE DEF g
  <2> QED
    BY <1>3, <2>1 DEF From
<1>7. g = [i \in 0 .. n |-> g[i]]
  BY DEF Readings
<1> HIDE DEF g
<1>8. \A i \in 0 .. n : i # 0 => i \in 1 .. n
  OBVIOUS
<1>9. IsUnmarshal(g)
  BY <1>4, <1>6, <1>7, <1>8, Zenon
<1>10. Unmarshal(fields, body, p) = q[n]
  BY DEF Unmarshal
<1>11. IsUnmarshal(q)
  BY <1>9
<1> HIDE DEF q
<1> DEFINE T == {k \in 0 .. n : q[k] = g[k]}
<1>12. 0 \in T
  BY <1>6, <1>11
<1>13. ASSUME NEW i \in 1 .. n, i - 1 \in T
       PROVE  i \in T
  <2>1. i \in 0 .. n /\ i # 0
    OBVIOUS
  <2>2. q[i] = UNION {Get(fields[i], body, m) : m \in q[i - 1]}
    BY <1>11, <2>1, Zenon
  <2>3. q[i - 1] = g[i - 1]
    BY <1>13
  <2> QED
    BY <1>4, <2>1, <2>2, <2>3, Zenon
<1> HIDE DEF T
<1>14. 0 .. n \subseteq T
  BY <1>12, <1>13, UpTo
<1>15. q[n] = g[n] /\ n \in 0 .. n
  BY <1>14 DEF T
<1>16. First(vals, n) = vals
  BY DEF First, Sendable, AreValues
<1> QED
  BY <1>1, <1>3, <1>5, <1>10, <1>15, <1>16

-----------------------------------------------------------------------------
(* A list of such sequences *)

\* Each item as it is written.
Items(fields, items) == [i \in 1 .. Len(items) |-> Marshal(fields, items[i])]

\* What Marshal writes is bytes.
LEMMA MarshalBytes ==
  ASSUME NEW fields, NEW vals, Sendable(fields, vals)
  PROVE  Marshal(fields, vals) \in Seq(Bytes)
<1> PICK n \in Nat : n = Len(fields)
  BY DEF Sendable
<1>1. PICK f : /\ Writes(f, n, <<>>, Fields(fields, vals))
               /\ Marshal(fields, vals) = f[n]
  BY MarshalIs
<1>2. f \in [0 .. n -> Seq(Bytes)] /\ n \in 0 .. n
  BY <1>1 DEF Writes
<1> QED
  BY <1>1, <1>2

\* The count of a list is four bytes, and is read as it was written.
LEMMA CountIs ==
  ASSUME NEW n \in Nat, n < Max32
  PROVE  /\ PutUint(n, 4) \in Seq(Bytes) /\ Len(PutUint(n, 4)) = 4
         /\ Sendable(<<"u32">>, <<n>>) /\ Marshal(<<"u32">>, <<n>>) = PutUint(n, 4)
<1>1. "u32" \in Kinds /\ Width["u32"] = 4 /\ "u32" \notin Counted
  BY DEF Kinds, Width, Counted
<1>2. Limit["u32"] = Max32
  BY DEF Limit
<1>3. PutUint(n, 4) \in Seq(Bytes) /\ Len(PutUint(n, 4)) = 4
  BY <1>1, <1>2, NumberReadBack
<1>4. IsValue("u32", n) /\ FieldFits("u32", n) /\ Put("u32", n) = PutUint(n, 4)
  BY <1>1, <1>2 DEF IsValue, FieldFits, Put
<1> DEFINE k == <<"u32">>
           v == <<n>>
<1>5. k \in Seq(Kinds) /\ Len(k) = 1 /\ k[1] = "u32"
  BY <1>1
<1>6. v[1] = n /\ v = [i \in 1 .. 1 |-> v[i]]
  OBVIOUS
<1> HIDE DEF k, v
<1>7. Sendable(k, v)
  BY <1>4, <1>5, <1>6 DEF Sendable, AreValues, AllFit
<1>8. PICK f : Writes(f, 1, <<>>, Fields(k, v)) /\ Marshal(k, v) = f[1]
  BY <1>5, <1>7, MarshalIs
<1>9. Fields(k, v)[1] = PutUint(n, 4)
  BY <1>4, <1>5, <1>6 DEF Fields
<1>10. f[0] = <<>> /\ f[1] = f[0] \o Fields(k, v)[1]
  BY <1>8 DEF Writes
<1>11. <<>> \o PutUint(n, 4) = PutUint(n, 4)
  BY <1>3
<1>12. Marshal(k, v) = PutUint(n, 4)
  BY <1>8, <1>9, <1>10, <1>11, Zenon
<1> QED
  BY <1>3, <1>7, <1>12 DEF k, v

\* MarshalList writes the items after their number.
LEMMA MarshalListIs ==
  ASSUME NEW fields, NEW items, SendableList(fields, items)
  PROVE  \E f : /\ Writes(f, Len(items), PutUint(Len(items), 4), Items(fields, items))
                /\ MarshalList(fields, items) = f[Len(items)]
<1> PICK n \in Nat : n = Len(items) /\ n < Max32
  BY DEF SendableList
<1> DEFINE part == Items(fields, items)
           a == PutUint(n, 4)
           IsMarshal(f) ==
             f = [i \in 0 .. n |-> IF i = 0 THEN PutUint(n, 4)
                                   ELSE f[i - 1] \o Marshal(fields, items[i])]
           q == CHOOSE f : IsMarshal(f)
<1>1. \A i \in 1 .. n : part[i] = Marshal(fields, items[i])
  BY DEF Items
<1>2. part \in [1 .. n -> Seq(Bytes)]
  <2>1. \A i \in 1 .. n : Marshal(fields, items[i]) \in Seq(Bytes)
    BY MarshalBytes DEF SendableList
  <2> QED
    BY <2>1 DEF Items
<1> HIDE DEF part
<1>3. \A i \in 0 .. n : i # 0 => i \in 1 .. n
  OBVIOUS
<1>4. ASSUME NEW f
      PROVE  IsMarshal(f) <=> IsWritten(f, n, a, part)
  <2>1. [i \in 0 .. n |-> IF i = 0 THEN a ELSE f[i - 1] \o Marshal(fields, items[i])]
          = [i \in 0 .. n |-> IF i = 0 THEN a ELSE f[i - 1] \o part[i]]
    BY <1>1, <1>3, Zenon
  <2> QED
    BY <2>1, Zenon DEF IsWritten
<1>5. MarshalList(fields, items) = q[n]
  BY DEF MarshalList
<1>6. a \in Seq(Bytes)
  BY CountIs
<1> HIDE DEF IsMarshal, a
<1>7. IsMarshal(q)
  BY <1>2, <1>4, <1>6, Written
<1> HIDE DEF q
<1>8. Writes(q, n, a, part)
  BY <1>2, <1>4, <1>6, <1>7, Written
<1> QED
  BY <1>5, <1>8 DEF part, a

\* GetItem reads the item a body goes on with.
LEMMA GetItemAgrees ==
  ASSUME NEW fields, NEW v, Sendable(fields, v), NEW body \in Seq(Bytes),
         NEW r, r.pos \in Nat, r.pos <= Len(body), Agrees(body, r.pos, Marshal(fields, v))
  PROVE  GetItem(fields, body, r) = After(r, Marshal(fields, v), v, Len(body))
<1> PICK p \in Nat : p = r.pos
  OBVIOUS
<1> PICK end : end = p + Len(Marshal(fields, v))
  OBVIOUS
<1> DEFINE m == [pos |-> end, val |-> v]
<1>1. Unmarshal(fields, body, p) = IF end <= Len(body) THEN {m} ELSE {}
  BY UnmarshalAgrees
<1>2. m.pos = end /\ m.val = v
  OBVIOUS
<1> HIDE DEF m
<1> QED
  BY <1>1, <1>2 DEF GetItem, After

\* Where the body goes on with items, UnmarshalItems reads so many.
LEMMA UnmarshalItemsAgrees ==
  ASSUME NEW fields, NEW items, SendableList(fields, items), NEW f, NEW a, NEW n,
         n = Len(items), Writes(f, n, a, Items(fields, items)), Len(a) \in Nat,
         NEW body \in Seq(Bytes), Len(a) <= Len(body), Agrees(body, 0, f[n])
  PROVE  UnmarshalItems(fields, body, Len(a), n)
           = IF Len(f[n]) <= Len(body) THEN {[pos |-> Len(f[n]), val |-> items]} ELSE {}
<1> n \in Nat
  BY DEF SendableList
<1> PICK p \in Nat : p = 0
  OBVIOUS
<1> PICK part : part = Items(fields, items)
  OBVIOUS
<1> PICK start \in Nat : start = Len(a)
  OBVIOUS
<1>1. Writes(f, n, a, part)
  OBVIOUS
<1> DEFINE g == Readings(body, p, n, f, items)
           Step(r) == [i \in 0 .. n |-> IF i = 0 THEN From(start)
                                        ELSE UNION {GetItem(fields, body, m) : m \in r[i - 1]}]
           IsUnmarshal(r) == r = Step(r)
           q == CHOOSE r : IsUnmarshal(r)
<1>2. \A i \in 1 .. n : Agrees(body, p + Len(f[i - 1]), part[i])
  BY <1>1, AgreesWriting
<1>3. ASSUME NEW i \in 0 .. n
      PROVE  g[i] = IF p + Len(f[i]) <= Len(body)
                    THEN {[pos |-> p + Len(f[i]), val |-> First(items, i)]} ELSE {}
  BY DEF Readings
<1>4. ASSUME NEW i \in 1 .. n
      PROVE  g[i] = UNION {GetItem(fields, body, m) : m \in g[i - 1]}
  <2>1. Sendable(fields, items[i]) /\ part[i] = Marshal(fields, items[i])
    BY DEF SendableList, Items
  <2> DEFINE r == [pos |-> p + Len(f[i - 1]), val |-> First(items, i - 1)]
  <2>2. Follows(g[i - 1], r, part[i], items[i], Len(body), g[i])
    BY <1>1, ReadingsNext, Zenon
  <2>3. Agrees(body, r.pos, Marshal(fields, items[i])) /\ r.pos \in Nat
    <3>1. Longer(f[i - 1], part[i], f[i])
      BY <1>1, WritesPart
    <3> QED
      BY <1>2, <2>1, <3>1 DEF Longer
  <2> HIDE DEF g, r
  <2>4. r.pos <= Len(body) => GetItem(fields, body, r) = After(r, part[i], items[i], Len(body))
    BY <2>1, <2>3, GetItemAgrees
  <2>5. \/ g[i - 1] = {} /\ g[i] = {}
        \/ g[i - 1] = {r} /\ g[i] = GetItem(fields, body, r)
    BY <2>2, <2>4, Zenon DEF Follows
  <2> QED
    BY <2>5
<1>5. f[0] = a /\ f[n] \in Seq(Bytes)
  BY <1>1 DEF Writes
<1>6. g[0] = From(start)
  <2>1. First(items, 0) = <<>> /\ p + start = start /\ 0 \in 0 .. n
    BY DEF First
  <2>2. p + Len(f[0]) = start
    BY <1>5, <2>1, Zenon
  <2> HIDE DEF g
  <2> QED
    BY <1>3, <2>1, <2>2 DEF From
<1>7. g = [i \in 0 .. n |-> g[i]]
  BY DEF Readings
<1> HIDE DEF g
<1>8. \A i \in 0 .. n : i # 0 => i \in 1 .. n
  OBVIOUS
<1>9. IsUnmarshal(g)
  BY <1>4, <1>6, <1>7, <1>8, Zenon
<1>10. UnmarshalItems(fields, body, start, n) = q[n]
  BY DEF UnmarshalItems
<1>11. IsUnmarshal(q)
  BY <1>9
<1> HIDE DEF q
<1> DEFINE T == {k \in 0 .. n : q[k] = g[k]}
<1>12. 0 \in T
  BY <1>6, <1>11
<1>13. ASSUME NEW i \in 1 .. n, i - 1 \in T
       PROVE  i \in T
  <2>1. i \in 0 .. n /\ i # 0
    OBVIOUS
  <2>2. q[i] = UNION {GetItem(fields, body, m) : m \in q[i - 1]}
    BY <1>11, <2>1, Zenon
  <2>3. q[i - 1] = g[i - 1]
    BY <1>13
  <2> QED
    BY <1>4, <2>1, <2>2, <2>3, Zenon
<1> HIDE DEF T
<1>14. 0 .. n \subseteq T
  BY <1>12, <1>13, UpTo
<1>15. q[n] = g[n] /\ n \in 0 .. n
  BY <1>14 DEF T
<1>16. First(items, n) = items
  BY DEF First, SendableList
<1>17. p + Len(f[n]) = Len(f[n])
  BY <1>5
<1> QED
  BY <1>3, <1>10, <1>15, <1>16, <1>17

\* Where the body is the start of a list, UnmarshalList reads that list, or
\* nothing if the body ends before the list does.
LEMMA UnmarshalListAgrees ==
  ASSUME NEW fields, NEW items, SendableList(fields, items),
         NEW body \in Seq(Bytes), Agrees(body, 0, MarshalList(fields, items))
  PROVE  /\ MarshalList(fields, items) \in Seq(Bytes)
         /\ UnmarshalList(fields, body) =
              IF Len(MarshalList(fields, items)) <= Len(body)
              THEN {[pos |-> Len(MarshalList(fields, items)), val |-> items]}
              ELSE {}
<1>0. PICK n \in Nat : n = Len(items) /\ n < Max32
  BY DEF SendableList
<1> DEFINE a == PutUint(n, 4)
<1>1. PICK f : Writes(f, n, a, Items(fields, items)) /\ MarshalList(fields, items) = f[n]
  BY <1>0, MarshalListIs
<1>2. /\ a \in Seq(Bytes) /\ Len(a) = 4
      /\ Sendable(<<"u32">>, <<n>>) /\ Marshal(<<"u32">>, <<n>>) = a
  BY <1>0, CountIs
<1> HIDE DEF a
<1>3. f[0] = a /\ f[n] \in Seq(Bytes) /\ 0 \in 0 .. n
  BY <1>1 DEF Writes
<1>4. PICK l \in Nat : l = Len(body)
  OBVIOUS
<1>5. PICK e \in Nat : e = Len(f[n])
  BY <1>3
<1>6. Starts(body, 0, a, f[n])
  <2>1. Agrees(body, 0, f[n])
    BY <1>1
  <2>2. Starts(body, 0, f[0], f[n])
    BY <1>1, <1>3, <2>1, WritingStarts
  <2> QED
    BY <1>3, <2>2
<1>7. Agrees(body, 0, Marshal(<<"u32">>, <<n>>)) /\ 4 <= e
  BY <1>2, <1>5, <1>6, Zenon DEF Starts
<1> DEFINE c == [pos |-> 4, val |-> <<n>>]
<1>8. Unmarshal(<<"u32">>, body, 0) = IF 4 <= l THEN {c} ELSE {}
  <2>1. PICK k, v : k = <<"u32">> /\ v = <<n>>
    OBVIOUS
  <2>2. PICK z \in Nat : z = 0 /\ z <= Len(body)
    BY <1>4
  <2>3. Sendable(k, v) /\ Agrees(body, z, Marshal(k, v)) /\ Marshal(k, v) = a
    BY <1>2, <1>7, <2>1, <2>2, Zenon
  <2>4. Unmarshal(k, body, z) =
          IF z + Len(Marshal(k, v)) <= Len(body)
          THEN {[pos |-> z + Len(Marshal(k, v)), val |-> v]} ELSE {}
    BY <2>2, <2>3, UnmarshalAgrees
  <2>5. z + Len(Marshal(k, v)) = 4
    BY <1>2, <2>2, <2>3
  <2>6. Unmarshal(k, body, z) = IF 4 <= l THEN {[pos |-> 4, val |-> v]} ELSE {}
    BY <1>4, <2>4, <2>5, Zenon
  <2> QED
    BY <2>1, <2>2, <2>6, Zenon
<1>9. c.pos = 4 /\ c.val[1] = n
  OBVIOUS
<1> HIDE DEF c
<1>10. CASE 4 <= l
  <2>1. UnmarshalList(fields, body) = UnmarshalItems(fields, body, 4, n)
    BY <1>8, <1>9, <1>10 DEF UnmarshalList
  <2>2. Len(a) \in Nat /\ Len(a) <= Len(body) /\ Agrees(body, 0, f[n])
    BY <1>1, <1>2, <1>4, <1>10
  <2>3. UnmarshalItems(fields, body, Len(a), n)
          = IF Len(f[n]) <= Len(body) THEN {[pos |-> Len(f[n]), val |-> items]} ELSE {}
    BY <1>0, <1>1, <2>2, UnmarshalItemsAgrees
  <2> QED
    BY <1>1, <1>2, <1>3, <2>1, <2>3, Zenon
<1>11. CASE ~(4 <= l)
  <2>1. UnmarshalList(fields, body) = {}
    BY <1>8, <1>11 DEF UnmarshalList
  <2>2. ~(e <= l)
    BY <1>7, <1>11
  <2> QED
    BY <1>1, <1>3, <1>4, <1>5, <2>1, <2>2, Zenon
<1> QED
  BY <1>10, <1>11

-----------------------------------------------------------------------------
(* What is sent is what is received *)

\* The values of a single reading.
LEMMA OneRead ==
  ASSUME NEW p, NEW v, NEW R, R = {[pos |-> p, val |-> v]}
  PROVE  {m.val : m \in R} = {v}
OBVIOUS

\* All of a sequence, and the part it starts with, agree with it.
LEMMA PartAgrees ==
  ASSUME NEW b \in Seq(Bytes)
  PROVE  /\ Agrees(b, 0, b)
         /\ \A k \in 0 .. Len(b) - 1 :
              LET s == SubSeq(b, 1, k) IN
              s \in Seq(Bytes) /\ Len(s) = k /\ k < Len(b) /\ Agrees(s, 0, b)
BY DEF Agrees

\* For every message whose lengths and numbers fit, and every size of a byte:
\* Unmarshal reads back the values that Marshal wrote and ends where they end,
\* and a body that is cut off anywhere is rejected.
THEOREM MarshalReadBack ==
  ASSUME NEW fields, NEW vals, Sendable(fields, vals)
  PROVE  LET b == Marshal(fields, vals) IN
         /\ b \in Seq(Bytes)
         /\ Unmarshal(fields, b, 0) = {[pos |-> Len(b), val |-> vals]}
         /\ \A k \in 0 .. Len(b) - 1 : Unmarshal(fields, SubSeq(b, 1, k), 0) = {}
<1>1. PICK b \in Seq(Bytes) : b = Marshal(fields, vals)
  BY MarshalBytes
<1>2. PICK p \in Nat : p = 0
  OBVIOUS
<1>3. ASSUME NEW s \in Seq(Bytes), Agrees(s, 0, b)
      PROVE  Unmarshal(fields, s, p) =
               IF p + Len(b) <= Len(s) THEN {[pos |-> p + Len(b), val |-> vals]} ELSE {}
  <2>1. p <= Len(s) /\ Agrees(s, p, Marshal(fields, vals))
    BY <1>1, <1>2, <1>3
  <2> QED
    BY <1>1, <2>1, UnmarshalAgrees
<1>4. PICK l \in Nat : l = Len(b) /\ p + l = l
  BY <1>2
<1>5. Unmarshal(fields, b, p) = {[pos |-> l, val |-> vals]}
  <2>1. Agrees(b, 0, b)
    BY PartAgrees
  <2> QED
    BY <1>3, <1>4, <2>1
<1>6. ASSUME NEW k \in 0 .. l - 1
      PROVE  Unmarshal(fields, SubSeq(b, 1, k), p) = {}
  <2>1. PICK s : s = SubSeq(b, 1, k)
    OBVIOUS
  <2>2. s \in Seq(Bytes) /\ Len(s) = k /\ Agrees(s, 0, b)
    BY <1>4, <2>1, PartAgrees
  <2>3. ~(l <= k)
    OBVIOUS
  <2> QED
    BY <1>3, <1>4, <2>1, <2>2, <2>3, Zenon
<1> QED
  BY <1>1, <1>2, <1>4, <1>5, <1>6

\* The same for the list of the messages of a FetchResponse and the list of the
\* names of a ListTopicsResponse, of any length that their count can say.
THEOREM MarshalListReadBack ==
  ASSUME NEW fields, NEW items, SendableList(fields, items)
  PROVE  LET b == MarshalList(fields, items) IN
         /\ b \in Seq(Bytes)
         /\ UnmarshalList(fields, b) = {[pos |-> Len(b), val |-> items]}
         /\ \A k \in 0 .. Len(b) - 1 : UnmarshalList(fields, SubSeq(b, 1, k)) = {}
<1>1. PICK b \in Seq(Bytes) : b = MarshalList(fields, items)
  <2>1. <<>> \in Seq(Bytes) /\ Len(<<>>) = 0
    OBVIOUS
  <2>2. PICK n \in Nat : n = Len(items)
    BY DEF SendableList
  <2>3. PICK f : Writes(f, n, PutUint(n, 4), Items(fields, items)) /\ MarshalList(fields, items) = f[n]
    BY <2>2, MarshalListIs
  <2> QED
    BY <2>3 DEF Writes
<1>2. ASSUME NEW s \in Seq(Bytes), Agrees(s, 0, b)
      PROVE  UnmarshalList(fields, s) =
               IF Len(b) <= Len(s) THEN {[pos |-> Len(b), val |-> items]} ELSE {}
  BY <1>1, <1>2, UnmarshalListAgrees
<1>3. PICK l \in Nat : l = Len(b)
  OBVIOUS
<1>4. UnmarshalList(fields, b) = {[pos |-> l, val |-> items]}
  <2>1. Agrees(b, 0, b)
    BY PartAgrees
  <2> QED
    BY <1>2, <1>3, <2>1
<1>5. ASSUME NEW k \in 0 .. l - 1
      PROVE  UnmarshalList(fields, SubSeq(b, 1, k)) = {}
  <2>1. PICK s : s = SubSeq(b, 1, k)
    OBVIOUS
  <2>2. s \in Seq(Bytes) /\ Len(s) = k /\ Agrees(s, 0, b)
    BY <1>3, <2>1, PartAgrees
  <2>3. ~(l <= k)
    OBVIOUS
  <2> QED
    BY <1>2, <1>3, <2>1, <2>2, <2>3, Zenon
<1> QED
  BY <1>1, <1>3, <1>4, <1>5
=============================================================================
