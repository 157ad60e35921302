----------------------------- MODULE WALProofs -----------------------------
(***************************************************************************)
(* The files and segments of a write-ahead log, for every instance of WAL  *)
(* in which no record is torn.                                             *)
(***************************************************************************)
EXTENDS WAL, FiniteSetTheorems, WellFoundedInduction, SequenceTheorems, TLAPS

-----------------------------------------------------------------------------
(* The inductive invariant *)

\* The record of offset o with value v stands at position p.
RecordAt(file, p, o, v) ==
  /\ p + Size(v) <= Len(file)
  /\ file[p + 1] = Magic
  /\ \A i \in 1 .. Size(v) - 1 : file[p + 1 + i] = [piece |-> i, off |-> o, val |-> v]

\* The records of b, b + 1, ... with values w stand end to end at the beginning of
\* the file: s has where each of them begins, and where the last one ends.
Laid(file, b, w, s) ==
  /\ w \in Seq(Values) /\ s \in Seq(Nat) /\ Len(s) = Len(w) + 1
  /\ s[1] = 0 /\ s[Len(w) + 1] <= Len(file)
  /\ \A k \in 1 .. Len(w) :
       RecordAt(file, s[k], b + k - 1, w[k]) /\ s[k + 1] = s[k] + Size(w[k])

\* The file of a segment at b: records, and what recovery takes for none.
IsLog(file, b) ==
  \E w, s : Laid(file, b, w, s) /\ ~StartsAt(file, s[Len(w) + 1])

\* Whatever is left of a segment at b, it is a log.
FileOK(b, f) ==
  /\ f \in [log: Seq(Cell), disk: SUBSET Seq(Cell), idx: Seq(Nat)]
  /\ f.log \in f.disk
  /\ \A c \in f.disk : IsLog(c, b)

\* The segment g has the records of values w at s, and so has its index f.idx.
Indexed(g, f, w, s) ==
  /\ Laid(f.log, g.base, w, s)
  /\ f.idx \in Seq(Nat) /\ Len(f.idx) = Len(w)
  /\ g.idxSize = Len(w) /\ g.size = s[Len(w) + 1]
  /\ \A k \in 1 .. Len(w) : f.idx[k] = s[k]

SegOK(g, f) == \E w, s : Indexed(g, f, w, s)

\* Two files begin with the same e cells.
Agree(c, d, e) == e <= Len(c) /\ e <= Len(d) /\ \A i \in 1 .. e : c[i] = d[i]

\* A segment that is not written any more: a power loss takes none of its records,
\* and brings none back.
Settled(g, f) ==
  /\ g.idxSize > 0
  /\ \A c \in f.disk : Agree(c, f.log, g.size) /\ ~StartsAt(c, g.size)

\* The segments segs, in the files fs, hold the offsets below next.
Good(segs, fs, next) ==
  /\ segs \in Seq([base: Nat, size: Nat, idxSize: Nat])
  /\ Len(segs) > 0 /\ segs[1].base = 0
  /\ \A i \in 1 .. Len(segs) : segs[i].base \in DOMAIN fs
  /\ \A b \in DOMAIN fs : b \in Nat /\ FileOK(b, fs[b])
  /\ fs = [b \in DOMAIN fs |-> fs[b]]
  /\ \A i \in 1 .. Len(segs) : SegOK(segs[i], fs[segs[i].base])
  /\ \A i \in 1 .. Len(segs) - 1 : Settled(segs[i], fs[segs[i].base])
  /\ \A i \in 1 .. Len(segs) :
       segs[i].base + segs[i].idxSize
         = IF i = Len(segs) THEN next ELSE segs[i + 1].base
  /\ \A i, j \in 1 .. Len(segs) : i < j => segs[i].base < segs[j].base

NoMagic(file, p) == \A i \in p + 1 .. Len(file) : file[i] # Magic

\* A whole record of offset o, left behind p by an Append that failed.
Leftover(file, p, o) ==
  \E t \in Values : RecordAt(file, p, o, t) /\ NoMagic(file, p + Size(t))

\* What follows the last record of the active segment.
TailOK(g, file, next) ==
  \/ NoMagic(file, g.size)
  \/ Len(file) < g.size + Header
  \/ g.size < MaxSegment /\ Leftover(file, g.size, next)

\* The segment that a failed roll left without entering it.
Extra == Segment(nextOffset, NoFile)

\* Every file is a segment's, or the one a failed roll made.
OrphanOK ==
  \/ DOMAIN files = Bases
  \/ /\ DOMAIN files = Bases \cup {nextOffset} /\ Active.size >= MaxSegment
     /\ Good(Append(segments, Extra), files, nextOffset)
     /\ files[nextOffset] = NoFile

\* Where the n-th record of the segment g ends.
EndIn(g, f, n) == IF n < g.idxSize THEN f.idx[n + 1] ELSE g.size

\* No power loss takes an acknowledged record.
AckedOK ==
  LET f == files[Active.base] IN
  /\ acked \in Nat /\ acked <= nextOffset
  /\ acked > Active.base =>
       \A c \in f.disk : Agree(c, f.log, EndIn(Active, f, acked - Active.base))

ControlOK ==
  /\ nextOffset \in Nat /\ sync \in BOOLEAN /\ closed \in BOOLEAN
  /\ appends \in 0 .. MaxAppends /\ restarts \in 0 .. MaxRestarts
  /\ pc \in {"ready", "write", "sync"}
  /\ IF pc = "write" THEN value \in Values /\ Active.size < MaxSegment ELSE value = None

WALInv ==
  /\ Good(segments, files, nextOffset)
  /\ TailOK(Active, files[Active.base].log, nextOffset)
  /\ OrphanOK /\ AckedOK /\ ControlOK


-----------------------------------------------------------------------------
(* Induction *)

\* A set of numbers that is not empty has a least one.
LEMMA LeastNumber ==
  ASSUME NEW T, T \subseteq Nat, T # {}
  PROVE  \E m \in T : \A n \in T : m <= n
<1> DEFINE R == OpToRel(<, Nat)
<1>1. \A m, n \in Nat : <<n, m>> \notin R => m <= n
  BY DEF OpToRel
<1>2. IsWellFoundedOn(R, Nat)
  BY NatLessThanWellFounded
<1> HIDE DEF R
<1>3. \E m \in T : \A n \in T : <<n, m>> \notin R
  BY <1>2, WFMin
<1> QED
  BY <1>1, <1>3

\* A set that has 0 and with each number the next one has all.
LEMMA AllNumbers ==
  ASSUME NEW S, 0 \in S, \A n \in Nat : n \in S => n + 1 \in S
  PROVE  Nat \subseteq S
<1> SUFFICES ASSUME Nat \ S # {}
             PROVE  FALSE
  OBVIOUS
<1>1. PICK m \in Nat \ S : \A n \in Nat \ S : m <= n
  BY LeastNumber
<1>2. m # 0 /\ m - 1 \in Nat
  BY <1>1
<1>3. m - 1 \in S
  BY <1>1, <1>2
<1> QED
  BY <1>1, <1>2, <1>3

\* A set of numbers with a bound has a greatest one.
LEMMA GreatestNumber ==
  ASSUME NEW T, T \subseteq Nat, T # {}, NEW b \in Nat, \A n \in T : n <= b
  PROVE  \E m \in T : \A n \in T : n <= m
<1> DEFINE D == {d \in Nat : \E n \in T : d = b - n}
<1>1. D # {}
  <2>1. PICK n \in T : TRUE
    OBVIOUS
  <2>2. b - n \in D
    BY <2>1
  <2> QED
    BY <2>2
<1>2. PICK d \in D : \A c \in D : d <= c
  BY <1>1, LeastNumber
<1>3. PICK m \in T : d = b - m
  BY <1>2
<1>4. ASSUME NEW n \in T
      PROVE  n <= m
  <2>1. b - n \in D
    BY <1>4
  <2>2. d <= b - n
    BY <2>1, <1>2
  <2> QED
    BY <2>2, <1>3
<1> QED
  BY <1>4

-----------------------------------------------------------------------------
(* The scan of verifyOrRebuildIndex *)

\* The right-hand side of the scan's recursion.
ScanStep(file, f, p) ==
  IF ~StartsAt(file, p) THEN <<>>
  ELSE IF EndOf(file, p) > Len(file) THEN <<p>> ELSE <<p>> \o f[EndOf(file, p)]

IsScan(file, f) == f = [p \in 0 .. Len(file) |-> ScanStep(file, f, p)]


\* A record takes at least four cells.
LEMMA SizeType ==
  ASSUME NEW v \in Values
  PROVE  Size(v) \in Nat /\ Size(v) >= 4 /\ BodyLen[v] \in Nat
BY WalConstantsOK DEF Size, Header

\* What the cells of a file are.
LEMMA CellFacts ==
  /\ Magic \in Cell /\ Magic.piece = 0
  /\ \A i \in Nat \ {0} : \A o \in Nat : \A v \in Values :
       [piece |-> i, off |-> o, val |-> v] \in Cell /\ [piece |-> i, off |-> o, val |-> v] # Magic
  /\ \A c \in Cell : /\ c.piece \in Nat
                     /\ c.piece # 0 => c.off \in Nat /\ c.val \in Values
                     /\ c.piece = 0 => c = Magic
BY DEF Magic, Cell

\* The scan goes forward.
LEMMA ScanGoesOn ==
  ASSUME NEW file \in Seq(Cell), NEW p \in 0 .. Len(file), StartsAt(file, p)
  PROVE  EndOf(file, p) \in Nat /\ EndOf(file, p) > p
<1>1. p \in Nat /\ p + 3 \in 1 .. Len(file) /\ file[p + 3] \in Cell
  BY DEF StartsAt, Header
<1>2. CASE file[p + 3].piece = 2
  <2>1. file[p + 3].val \in Values
    BY <1>1, <1>2, CellFacts
  <2>2. Size(file[p + 3].val) \in Nat /\ Size(file[p + 3].val) >= 4
    BY <2>1, SizeType
  <2> QED
    BY <1>1, <1>2, <2>2 DEF EndOf, SizeIn
<1>3. CASE file[p + 3].piece # 2
  BY <1>1, <1>3, WalConstantsOK DEF EndOf, SizeIn, Header
<1> QED
  BY <1>2, <1>3
\* The recursion has a solution, so the scan is well defined.
LEMMA ScanExists ==
  ASSUME NEW file \in Seq(Cell)
  PROVE  \E f : IsScan(file, f)
<1> PICK n \in Nat : n = Len(file)
  OBVIOUS
<1> DEFINE Solves(f, q) == \A p \in 0 .. n : p >= q => f[p] = ScanStep(file, f, p)
           S == {k \in Nat : \E f : f = [p \in 0 .. n |-> f[p]] /\ Solves(f, n + 1 - k)}
<1>1. 0 \in S
  <2> DEFINE f == [p \in 0 .. n |-> 0]
  <2>1. f = [p \in 0 .. n |-> f[p]] /\ Solves(f, n + 1)
    OBVIOUS
  <2> QED
    BY <2>1
<1>2. ASSUME NEW k \in Nat, k \in S
      PROVE  k + 1 \in S
  <2>1. PICK f : f = [p \in 0 .. n |-> f[p]] /\ Solves(f, n + 1 - k)
    BY <1>2
  <2> DEFINE q == n - k
             g == [f EXCEPT ![q] = ScanStep(file, f, q)]
  <2>2. q \in Int /\ g = [p \in 0 .. n |-> g[p]]
    BY <2>1, SMTT(30)
  <2>3. ASSUME NEW p \in 0 .. n, p >= q
        PROVE  g[p] = ScanStep(file, g, p)
    <3>1. ScanStep(file, g, p) = ScanStep(file, f, p)
      <4>1. CASE StartsAt(file, p) /\ EndOf(file, p) <= Len(file)
        <5>1. EndOf(file, p) \in 0 .. n /\ EndOf(file, p) # q
          BY <4>1, <2>3, ScanGoesOn
        <5>2. g[EndOf(file, p)] = f[EndOf(file, p)]
          BY <5>1, <2>1
        <5> QED
          BY <5>2 DEF ScanStep
      <4>2. CASE ~(StartsAt(file, p) /\ EndOf(file, p) <= Len(file))
        <5>1. ~StartsAt(file, p) \/ EndOf(file, p) > Len(file)
          BY <4>2, ScanGoesOn
        <5> QED
          BY <5>1 DEF ScanStep
      <4> QED
        BY <4>1, <4>2
    <3>2. g[p] = ScanStep(file, f, p)
      <4>1. CASE p = q
        BY <4>1, <2>1
      <4>2. CASE p # q
        <5>1. p >= n + 1 - k
          BY <4>2, <2>3
        <5> QED
          BY <5>1, <2>1, <4>2
      <4> QED
        BY <4>1, <4>2
    <3> QED
      BY <3>1, <3>2
  <2>4. n + 1 - (k + 1) = q
    OBVIOUS
  <2> HIDE DEF g, q
  <2>5. Solves(g, n + 1 - (k + 1))
    BY <2>3, <2>4
  <2> QED
    BY <2>2, <2>5
<1> HIDE DEF S
<1>3. n + 1 \in S
  BY <1>1, <1>2, AllNumbers
<1>4. PICK f : f = [p \in 0 .. n |-> f[p]] /\ Solves(f, n + 1 - (n + 1))
  BY <1>3 DEF S
<1>5. \A p \in 0 .. n : f[p] = ScanStep(file, f, p)
  BY <1>4
<1> QED
  BY <1>4, <1>5 DEF IsScan

\* Positions is the value at 0 of a solution.
LEMMA PositionsScan ==
  ASSUME NEW file \in Seq(Cell)
  PROVE  \E f : IsScan(file, f) /\ Positions(file) = f[0]
<1> DEFINE f == CHOOSE g : IsScan(file, g)
<1>1. IsScan(file, f)
  BY ScanExists
<1>2. Positions(file) = f[0]
  BY DEF Positions, IsScan, ScanStep
<1> QED
  BY <1>1, <1>2


\* A record can be found by the scan, and ends where it should.
LEMMA RecordStarts ==
  ASSUME NEW file \in Seq(Cell), NEW p \in Nat, NEW o, NEW v \in Values,
         RecordAt(file, p, o, v)
  PROVE  /\ StartsAt(file, p) /\ EndOf(file, p) = p + Size(v)
         /\ file[p + 2] = [piece |-> 1, off |-> o, val |-> v]
<1> PICK z \in Nat : z = Size(v) /\ z >= 4
  BY SizeType
<1>1. ASSUME NEW i \in 1 .. 2
      PROVE  file[p + 1 + i] = [piece |-> i, off |-> o, val |-> v]
  <2>1. i \in 1 .. Size(v) - 1
    OBVIOUS
  <2> QED
    BY <2>1 DEF RecordAt
<1>2. file[p + 2] = [piece |-> 1, off |-> o, val |-> v]
  <2>1. 1 \in 1 .. 2 /\ p + 1 + 1 = p + 2
    OBVIOUS
  <2> QED
    BY <1>1, <2>1
<1>3. file[p + 3] = [piece |-> 2, off |-> o, val |-> v]
  <2>1. 2 \in 1 .. 2 /\ p + 1 + 2 = p + 3
    OBVIOUS
  <2> QED
    BY <1>1, <2>1
<1>4. StartsAt(file, p)
  BY DEF StartsAt, RecordAt, Header
<1>5. EndOf(file, p) = p + Size(v)
  BY <1>3 DEF EndOf, SizeIn
<1> QED
  BY <1>2, <1>4, <1>5

\* The beginning of a sequence.
LEMMA PrefixSeq ==
  ASSUME NEW S, NEW s \in Seq(S), NEW k \in Nat, k <= Len(s)
  PROVE  /\ SubSeq(s, 1, k) \in Seq(S) /\ Len(SubSeq(s, 1, k)) = k
         /\ \A j \in 1 .. k : SubSeq(s, 1, k)[j] = s[j]
OBVIOUS

\* A sequence from j on is its j-th element and the rest.
LEMMA HeadSeq ==
  ASSUME NEW T, NEW s \in Seq(T), NEW n \in Nat, n = Len(s), NEW j \in 1 .. n
  PROVE  <<s[j]>> \o SubSeq(s, j + 1, n) = SubSeq(s, j, n)
<1>1. PICK a : a = SubSeq(s, j + 1, n)
  OBVIOUS
<1>2. a \in Seq(T) /\ Len(a) = n - j /\ \A i \in 1 .. n - j : a[i] = s[j + i]
  BY <1>1, SMTT(30)
<1>3. PICK d : d = SubSeq(s, j, n)
  OBVIOUS
<1>4. d \in Seq(T) /\ Len(d) = n - j + 1 /\ \A i \in 1 .. n - j + 1 : d[i] = s[j + i - 1]
  BY <1>3, SMTT(30)
<1>5. PICK c : c = <<s[j]>> \o a
  OBVIOUS
<1>6. /\ c \in Seq(T) /\ Len(c) = n - j + 1 /\ c[1] = s[j]
      /\ \A i \in 2 .. n - j + 1 : c[i] = a[i - 1]
  BY <1>2, <1>5, SMTT(30)
<1>7. ASSUME NEW i \in 1 .. n - j + 1
      PROVE  c[i] = d[i]
  <2>1. CASE i = 1
    <3>1. 1 \in 1 .. n - j + 1 /\ j + 1 - 1 = j
      OBVIOUS
    <3>2. d[1] = s[j]
      BY ONLY <3>1, <1>4
    <3> QED
      BY <2>1, <3>2, <1>6
  <2>2. CASE i # 1
    <3>1. i \in 2 .. n - j + 1 /\ i - 1 \in 1 .. n - j /\ j + (i - 1) = j + i - 1
      BY <2>2
    <3> QED
      BY <3>1, <1>2, <1>4, <1>6
  <2> QED
    BY <2>1, <2>2
<1>8. c = d
  BY ONLY <1>4, <1>6, <1>7
<1> QED
  BY <1>1, <1>3, <1>5, <1>8


\* The positions ascend.
LEMMA LaidOrder ==
  ASSUME NEW file, NEW b, NEW w, NEW s, Laid(file, b, w, s),
         NEW j \in 1 .. Len(w) + 1, NEW k \in 1 .. Len(w) + 1, j <= k
  PROVE  s[j] \in Nat /\ s[k] \in Nat /\ s[j] <= s[k] /\ s[k] <= Len(file)
<1> PICK n \in Nat : n = Len(w)
  BY DEF Laid
<1>1. \A i \in 1 .. n + 1 : s[i] \in Nat
  BY DEF Laid
<1> DEFINE S == {d \in Nat : \A i \in 1 .. n + 1 : i + d <= n + 1 => s[i] <= s[i + d]}
<1>2. 0 \in S
  BY <1>1
<1>3. ASSUME NEW d \in Nat, d \in S
      PROVE  d + 1 \in S
  <2> SUFFICES ASSUME NEW i \in 1 .. n + 1, i + (d + 1) <= n + 1
               PROVE  s[i] <= s[i + (d + 1)]
    OBVIOUS
  <2>1. s[i] <= s[i + d] /\ i + d \in 1 .. n
    BY <1>3
  <2>2. s[i + d + 1] = s[i + d] + Size(w[i + d]) /\ w[i + d] \in Values
    BY <2>1 DEF Laid
  <2>3. Size(w[i + d]) \in Nat
    BY <2>2, SizeType
  <2>4. i + d + 1 = i + (d + 1) /\ i + d + 1 \in 1 .. n + 1 /\ i + d \in 1 .. n + 1
    BY <2>1
  <2>5. s[i] \in Nat /\ s[i + d] \in Nat /\ s[i + d + 1] \in Nat
    BY <1>1, <2>4
  <2> QED
    BY <2>1, <2>2, <2>3, <2>4, <2>5
<1> HIDE DEF S
<1>4. \A d \in Nat : d \in S
  BY <1>2, <1>3, AllNumbers
<1>5. ASSUME NEW i \in 1 .. n + 1, NEW l \in 1 .. n + 1, i <= l
      PROVE  s[i] <= s[l]
  <2>1. l - i \in S /\ i + (l - i) = l
    BY <1>4, <1>5
  <2> QED
    BY <2>1 DEF S
<1>6. s[k] <= s[n + 1]
  BY <1>5
<1>7. s[n + 1] <= Len(file)
  BY DEF Laid
<1>8. s[j] <= s[k] /\ s[j] \in Nat /\ s[k] \in Nat /\ s[n + 1] \in Nat
  BY <1>1, <1>5
<1> QED
  BY <1>6, <1>7, <1>8

\* Where records stand end to end and nothing follows that looks like one, the
\* scan finds them all and no other, and stops after the last.
LEMMA ScanFinds ==
  ASSUME NEW file \in Seq(Cell), NEW b, NEW w, NEW s, Laid(file, b, w, s),
         ~StartsAt(file, s[Len(w) + 1])
  PROVE  /\ Positions(file) = SubSeq(s, 1, Len(w))
         /\ ScanEnd(file) = s[Len(w) + 1] /\ Found(file) = w
<1> PICK n \in Nat : n = Len(w)
  BY DEF Laid
<1> PICK e \in Nat : e = s[n + 1] /\ e <= Len(file)
  BY DEF Laid
<1>1. s \in Seq(Nat) /\ Len(s) = n + 1 /\ s[1] = 0 /\ w \in Seq(Values)
  BY DEF Laid
<1>s. /\ SubSeq(s, 1, n) \in Seq(Nat) /\ Len(SubSeq(s, 1, n)) = n
      /\ \A k \in 1 .. n : SubSeq(s, 1, n)[k] = s[k]
  BY <1>1, PrefixSeq
<1> PICK q : /\ q = SubSeq(s, 1, n) /\ q \in Seq(Nat) /\ Len(q) = n
             /\ \A k \in 1 .. n : q[k] = s[k]
  BY <1>s, Zenon
<1>2. PICK f : IsScan(file, f) /\ Positions(file) = f[0]
  BY PositionsScan
<1>r. ASSUME NEW j \in 1 .. n
      PROVE  /\ s[j] \in Nat /\ s[j + 1] \in Nat /\ s[j + 1] <= Len(file) /\ s[j] <= Len(file)
             /\ StartsAt(file, s[j]) /\ EndOf(file, s[j]) = s[j + 1]
             /\ file[s[j] + 2] = [piece |-> 1, off |-> b + j - 1, val |-> w[j]]
  <2>1. RecordAt(file, s[j], b + j - 1, w[j]) /\ s[j + 1] = s[j] + Size(w[j]) /\ w[j] \in Values
    BY DEF Laid
  <2>2. j \in 1 .. n + 1 /\ j + 1 \in 1 .. n + 1 /\ j <= j + 1
    OBVIOUS
  <2>3. s[j] \in Nat /\ s[j + 1] \in Nat /\ s[j + 1] <= Len(file) /\ s[j] <= s[j + 1]
    BY <2>2, LaidOrder
  <2>4. Len(file) \in Nat
    OBVIOUS
  <2> QED
    BY <2>1, <2>3, <2>4, RecordStarts
<1> DEFINE S == {k \in Nat : k <= n => f[s[n + 1 - k]] = SubSeq(q, n + 1 - k, n)}
<1>3. 0 \in S
  <2>1. f[e] = <<>>
    <3>1. e \in 0 .. Len(file)
      OBVIOUS
    <3> QED
      BY <1>2, <3>1 DEF IsScan, ScanStep
  <2>2. SubSeq(q, n + 1, n) = <<>>
    OBVIOUS
  <2>3. n + 1 - 0 = n + 1
    OBVIOUS
  <2> QED
    BY <2>1, <2>2, <2>3
<1>4. ASSUME NEW k \in Nat, k \in S
      PROVE  k + 1 \in S
  <2>0. n + 1 - (k + 1) = n - k /\ k + 1 \in Nat
    OBVIOUS
  <2> SUFFICES ASSUME k + 1 <= n
               PROVE  f[s[n - k]] = SubSeq(q, n - k, n)
    BY <2>0, ZenonT(60)
  <2> PICK j \in 1 .. n : j = n - k
    <3>1. n - k \in 1 .. n
      OBVIOUS
    <3> QED
      BY <3>1
  <2>1. f[s[j]] = <<s[j]>> \o f[s[j + 1]]
    <3>1. s[j] \in 0 .. Len(file) /\ ~(EndOf(file, s[j]) > Len(file))
      <4>1. Len(file) \in Nat
        OBVIOUS
      <4>2. /\ s[j] \in Nat /\ s[j + 1] \in Nat /\ s[j + 1] <= Len(file) /\ s[j] <= Len(file)
            /\ EndOf(file, s[j]) = s[j + 1]
        BY <1>r
      <4> QED
        BY <4>1, <4>2
    <3>2. f[s[j]] = ScanStep(file, f, s[j])
      BY <1>2, <3>1 DEF IsScan
    <3> QED
      BY <1>r, <3>1, <3>2 DEF ScanStep
  <2>2. f[s[j + 1]] = SubSeq(q, j + 1, n)
    BY <1>4
  <2>3. <<q[j]>> \o SubSeq(q, j + 1, n) = SubSeq(q, j, n)
    BY HeadSeq
  <2> QED
    BY <2>1, <2>2, <2>3
<1> HIDE DEF S
<1>5. n \in S
  BY <1>3, <1>4, AllNumbers
<1>6. f[s[1]] = SubSeq(q, 1, n)
  BY <1>5 DEF S
<1>q. SubSeq(q, 1, n) = q
  <2>1. /\ SubSeq(q, 1, n) \in Seq(Nat) /\ Len(SubSeq(q, 1, n)) = n
        /\ \A k \in 1 .. n : SubSeq(q, 1, n)[k] = q[k]
    BY PrefixSeq
  <2>2. PICK x : x = SubSeq(q, 1, n)
    OBVIOUS
  <2> QED
    BY <2>1, <2>2, SeqEqual
<1>7. Positions(file) = q
  BY <1>1, <1>2, <1>6, <1>q
<1>8. ScanEnd(file) = e
  <2>1. CASE n = 0
    <3>1. q = <<>> /\ e = 0
      BY <2>1, <1>1, EmptySeq
    <3> QED
      BY <1>7, <3>1 DEF ScanEnd
  <2>2. CASE n # 0
    <3>1. n \in 1 .. n
      BY <2>2
    <3>2. q # <<>> /\ q[n] = s[n]
      <4>1. q[n] = s[n] /\ Len(q) # 0
        BY <3>1, Zenon, <2>2
      <4>2. Len(<<>>) = 0
        OBVIOUS
      <4> QED
        BY ONLY <4>1, <4>2
    <3>3. EndOf(file, q[n]) = e
      BY <3>1, <3>2, <1>r
    <3> QED
      BY <1>7, <3>2, <3>3 DEF ScanEnd
  <2> QED
    BY <2>1, <2>2
<1>9. Found(file) = w
  <2>1. Found(file) = [i \in 1 .. n |-> file[q[i] + 2].val]
    BY <1>7 DEF Found
  <2>2. ASSUME NEW i \in 1 .. n
        PROVE  file[q[i] + 2].val = w[i]
    <3>1. q[i] = s[i]
      OBVIOUS
    <3>2. file[s[i] + 2] = [piece |-> 1, off |-> b + i - 1, val |-> w[i]]
      BY <1>r
    <3> QED
      BY <3>1, <3>2
  <2>3. w = [i \in 1 .. n |-> w[i]]
    BY <1>1
  <2> QED
    BY <2>1, <2>2, <2>3
<1> QED
  BY <1>7, <1>8, <1>9

-----------------------------------------------------------------------------
(* Records and what surrounds them *)

\* A record depends on its own cells only.
LEMMA RecordStays ==
  ASSUME NEW file, NEW other, NEW d \in Nat, Agree(other, file, d), Len(other) \in Nat,
         NEW p \in Nat, NEW o, NEW v \in Values, RecordAt(file, p, o, v), p + Size(v) <= d
  PROVE  RecordAt(other, p, o, v)
<1> PICK z \in Nat : z = Size(v) /\ z >= 4
  BY SizeType
<1>1. d <= Len(other) /\ \A i \in 1 .. d : other[i] = file[i]
  BY DEF Agree
<1>2. other[p + 1] = Magic /\ p + Size(v) <= Len(other)
  <2>1. p + 1 \in 1 .. d
    OBVIOUS
  <2> QED
    BY <1>1, <2>1 DEF RecordAt
<1>3. ASSUME NEW i \in 1 .. z - 1
      PROVE  other[p + 1 + i] = [piece |-> i, off |-> o, val |-> v]
  <2>1. p + 1 + i \in 1 .. d
    OBVIOUS
  <2> QED
    BY <1>1, <2>1 DEF RecordAt
<1> QED
  BY <1>2, <1>3 DEF RecordAt

\* Records stay laid out when what follows them changes.
LEMMA LaidStays ==
  ASSUME NEW file \in Seq(Cell), NEW other \in Seq(Cell), NEW b, NEW w, NEW s,
         Laid(file, b, w, s), Agree(other, file, s[Len(w) + 1])
  PROVE  Laid(other, b, w, s)
<1> PICK n \in Nat : n = Len(w)
  BY DEF Laid
<1> PICK e \in Nat : e = s[n + 1]
  BY DEF Laid
<1>1. /\ w \in Seq(Values) /\ s \in Seq(Nat) /\ Len(s) = n + 1 /\ s[1] = 0
      /\ \A k \in 1 .. n : RecordAt(file, s[k], b + k - 1, w[k]) /\ s[k + 1] = s[k] + Size(w[k])
  BY DEF Laid
<1>2. e <= Len(other)
  BY DEF Agree
<1>3. ASSUME NEW k \in 1 .. n
      PROVE  RecordAt(other, s[k], b + k - 1, w[k])
  <2>1. k \in 1 .. n + 1 /\ k + 1 \in 1 .. n + 1 /\ n + 1 \in 1 .. n + 1 /\ k + 1 <= n + 1
    OBVIOUS
  <2>2. s[k] \in Nat /\ s[k + 1] <= e /\ w[k] \in Values
    <3>1. s[k + 1] <= s[n + 1]
      BY <2>1, LaidOrder
    <3>2. s[k] \in Nat
      BY <1>1, <2>1
    <3> QED
      BY <1>1, <3>1, <3>2
  <2>3. s[k] + Size(w[k]) <= e /\ RecordAt(file, s[k], b + k - 1, w[k])
    BY <1>1, <2>2
  <2>4. Agree(other, file, e) /\ Len(other) \in Nat
    OBVIOUS
  <2> QED
    BY <2>2, <2>3, <2>4, RecordStays
<1> QED
  BY <1>1, <1>2, <1>3 DEF Laid

\* The records of w and then one of v: x, at t.
OneMore(file, b, w, s, v, x, t) ==
  /\ x = Append(w, v) /\ Laid(file, b, x, t) /\ Len(x) = Len(w) + 1
  /\ t[Len(w) + 2] = s[Len(w) + 1] + Size(v)
  /\ \A k \in 1 .. Len(w) + 1 : t[k] = s[k]

\* One record more.
LEMMA LaidOneMore ==
  ASSUME NEW file, NEW b \in Nat, NEW w, NEW s, Laid(file, b, w, s), NEW v \in Values,
         NEW e, e = s[Len(w) + 1], NEW o, o = b + Len(w), RecordAt(file, e, o, v)
  PROVE  \E x, t : OneMore(file, b, w, s, v, x, t)
<1> PICK x, t : x = Append(w, v) /\ t = Append(s, s[Len(w) + 1] + Size(v))
  OBVIOUS
<1> PICK n \in Nat : n = Len(w)
  BY DEF Laid
<1>e. e \in Nat /\ e = s[n + 1]
  BY DEF Laid
<1> PICK z \in Nat : z = Size(v)
  BY SizeType
<1>1. /\ w \in Seq(Values) /\ s \in Seq(Nat) /\ Len(s) = n + 1 /\ s[1] = 0
      /\ \A k \in 1 .. n : RecordAt(file, s[k], b + k - 1, w[k]) /\ s[k + 1] = s[k] + Size(w[k])
  BY DEF Laid
<1>2. x \in Seq(Values) /\ Len(x) = n + 1 /\ x[n + 1] = v /\ \A k \in 1 .. n : x[k] = w[k]
  BY <1>1, AppendProperties
<1>3. /\ t \in Seq(Nat) /\ Len(t) = n + 2 /\ t[n + 2] = e + z
      /\ \A k \in 1 .. n + 1 : t[k] = s[k]
  <2>1. e + z \in Nat /\ t = Append(s, e + z) /\ Len(s) + 1 = n + 2
    BY <1>1, <1>e
  <2> QED
    BY <1>1, <2>1, AppendProperties
<1>4. ASSUME NEW k \in 1 .. n + 1
      PROVE  RecordAt(file, t[k], b + k - 1, x[k]) /\ t[k + 1] = t[k] + Size(x[k])
  <2>1. CASE k \in 1 .. n
    <3>1. k + 1 \in 1 .. n + 1
      BY <2>1
    <3> QED
      BY <1>1, <1>2, <1>3, <2>1, <3>1
  <2>2. CASE k = n + 1
    <3>1. k + 1 = n + 2 /\ b + k - 1 = b + n
      BY <2>2
    <3> QED
      BY <1>2, <1>3, <2>2, <3>1
  <2>3. k \in 1 .. n \/ k = n + 1
    OBVIOUS
  <2> QED
    BY <2>1, <2>2, <2>3
<1>5. e + z <= Len(file)
  BY DEF RecordAt
<1>6. n + 1 + 1 = n + 2 /\ t[1] = 0
  BY <1>1, <1>3
<1>7. Laid(file, b, x, t)
  BY <1>2, <1>3, <1>4, <1>5, <1>6 DEF Laid
<1>8. OneMore(file, b, w, s, v, x, t)
  BY <1>2, <1>3, <1>6, <1>7, <1>e DEF OneMore
<1> QED
  BY <1>8, Zenon

\* Files that agree up to the end of some records have these records in common.
LEMMA LaidSame ==
  ASSUME NEW file \in Seq(Cell), NEW other \in Seq(Cell), NEW b \in Nat,
         NEW w, NEW s, Laid(file, b, w, s), NEW x, NEW t, Laid(other, b, x, t),
         ~StartsAt(other, t[Len(x) + 1]),
         NEW n \in 0 .. Len(w), Agree(other, file, s[n + 1])
  PROVE  /\ n <= Len(x) /\ \A k \in 1 .. n + 1 : t[k] = s[k]
         /\ \A k \in 1 .. n : x[k] = w[k]
<1> PICK m \in Nat, l \in Nat : m = Len(w) /\ l = Len(x)
  BY DEF Laid
<1>1. /\ w \in Seq(Values) /\ s \in Seq(Nat) /\ Len(s) = m + 1 /\ s[1] = 0
      /\ \A k \in 1 .. m : RecordAt(file, s[k], b + k - 1, w[k]) /\ s[k + 1] = s[k] + Size(w[k])
  BY DEF Laid
<1>2. /\ x \in Seq(Values) /\ t \in Seq(Nat) /\ Len(t) = l + 1 /\ t[1] = 0
      /\ \A k \in 1 .. l : RecordAt(other, t[k], b + k - 1, x[k]) /\ t[k + 1] = t[k] + Size(x[k])
  BY DEF Laid
<1> DEFINE S == {k \in Nat : k <= n =>
                   k <= l /\ t[k + 1] = s[k + 1] /\ (k > 0 => x[k] = w[k])}
<1>3. 0 \in S
  BY <1>1, <1>2
<1>4. ASSUME NEW k \in Nat, k \in S
      PROVE  k + 1 \in S
  <2> SUFFICES ASSUME k + 1 <= n
               PROVE  k + 1 <= l /\ t[k + 2] = s[k + 2] /\ x[k + 1] = w[k + 1]
    OBVIOUS
  <2>1. k <= l /\ t[k + 1] = s[k + 1] /\ k + 1 \in 1 .. m
    BY <1>4
  <2> PICK p \in Nat : p = s[k + 1]
    <3>1. k + 1 \in 1 .. m + 1
      BY <2>1
    <3> QED
      BY <1>1, <3>1
  <2>2. RecordAt(file, p, b + k, w[k + 1]) /\ s[k + 2] = p + Size(w[k + 1]) /\ w[k + 1] \in Values
    <3>1. b + (k + 1) - 1 = b + k /\ k + 1 + 1 = k + 2
      OBVIOUS
    <3>2. /\ RecordAt(file, s[k + 1], b + (k + 1) - 1, w[k + 1])
          /\ s[k + 1 + 1] = s[k + 1] + Size(w[k + 1])
      BY <1>1, <2>1
    <3>3. w[k + 1] \in Values
      BY <1>1, <2>1
    <3> QED
      BY <3>1, <3>2, <3>3
  <2>3. s[k + 2] <= s[n + 1] /\ s[n + 1] \in Nat
    <3>1. k + 2 \in 1 .. m + 1 /\ n + 1 \in 1 .. m + 1 /\ k + 2 <= n + 1
      OBVIOUS
    <3> QED
      BY <3>1, LaidOrder
  <2>4. RecordAt(other, p, b + k, w[k + 1])
    <3>1. p + Size(w[k + 1]) <= s[n + 1] /\ Len(other) \in Nat
      BY <2>2, <2>3
    <3> QED
      BY <2>2, <2>3, <3>1, RecordStays
  <2>5. /\ StartsAt(other, p) /\ EndOf(other, p) = p + Size(w[k + 1])
        /\ other[p + 2] = [piece |-> 1, off |-> b + k, val |-> w[k + 1]]
    BY <2>2, <2>4, RecordStarts, SMTT(30)
  <2>6. k # l
    BY <2>1, <2>5
  <2>7. k + 1 \in 1 .. l
    BY <2>1, <2>6
  <2>8. /\ RecordAt(other, p, b + k, x[k + 1]) /\ t[k + 2] = p + Size(x[k + 1])
        /\ x[k + 1] \in Values
    <3>1. b + (k + 1) - 1 = b + k /\ k + 1 + 1 = k + 2
      OBVIOUS
    <3> QED
      BY <1>2, <2>1, <2>7, <3>1, SMTT(30)
  <2>9. /\ EndOf(other, p) = p + Size(x[k + 1])
        /\ other[p + 2] = [piece |-> 1, off |-> b + k, val |-> x[k + 1]]
    <3> PICK v : v = x[k + 1]
      OBVIOUS
    <3>1. v \in Values /\ RecordAt(other, p, b + k, v)
      BY ONLY <2>8, v = x[k + 1]
    <3>2. EndOf(other, p) = p + Size(v) /\ other[p + 2] = [piece |-> 1, off |-> b + k, val |-> v]
      BY ONLY <3>1, RecordStarts, p \in Nat, other \in Seq(Cell)
    <3> QED
      BY ONLY <3>2, v = x[k + 1]
  <2>10. x[k + 1] = w[k + 1]
    <3> PICK c : c = other[p + 2]
      OBVIOUS
    <3>1. c.val = w[k + 1]
      BY ONLY <2>5, c = other[p + 2]
    <3>2. c.val = x[k + 1]
      BY ONLY <2>9, c = other[p + 2]
    <3> QED
      BY ONLY <3>1, <3>2
  <2> QED
    BY <2>2, <2>7, <2>8, <2>10
<1> HIDE DEF S
<1>5. \A k \in Nat : k \in S
  BY <1>3, <1>4, AllNumbers
<1>6. n \in Nat /\ n \in S
  BY <1>5
<1>7. ASSUME NEW k \in 1 .. n + 1
      PROVE  t[k] = s[k]
  <2>1. k - 1 \in S /\ k - 1 <= n /\ k - 1 + 1 = k
    BY <1>5
  <2> QED
    BY <2>1 DEF S
<1>8. \A k \in 1 .. n : x[k] = w[k]
  BY <1>5 DEF S
<1> QED
  BY <1>6, <1>7, <1>8 DEF S

\* Nothing without a magic byte is taken for a record.
LEMMA NoMagicNoStart ==
  ASSUME NEW file \in Seq(Cell), NEW p \in Nat,
         NoMagic(file, p) \/ Len(file) < p + Header
  PROVE  ~StartsAt(file, p)
BY DEF NoMagic, StartsAt, Header

-----------------------------------------------------------------------------
(* loadSegments *)

\* An ascending enumeration of a set counts it.
LEMMA CountAscending ==
  ASSUME NEW n \in Nat, NEW t, \A i \in 1 .. n : t[i] \in Nat,
         \A i, j \in 1 .. n : i < j => t[i] < t[j]
  PROVE  /\ IsFiniteSet({t[i] : i \in 1 .. n})
         /\ Cardinality({t[i] : i \in 1 .. n}) = n
<1> DEFINE S == {t[i] : i \in 1 .. n}
           h == [i \in 1 .. n |-> t[i]]
<1>1. h \in [1 .. n -> S]
  OBVIOUS
<1>2. \A i, j \in 1 .. n : h[i] = h[j] => i = j
  OBVIOUS
<1>3. \A x \in S : \E i \in 1 .. n : h[i] = x
  OBVIOUS
<1> HIDE DEF S, h
<1>4. ExistsBijection(1 .. n, S)
  BY <1>1, <1>2, <1>3 DEF ExistsBijection, Bijection, Injection, Surjection, IsInjective
<1>5. IsFiniteSet(S) /\ Cardinality(S) = n
  BY <1>4, FS_NatBijection, FS_CountingElements
<1> QED
  BY <1>5 DEF S

\* loadSegments puts the bases in ascending order.
LEMMA SortedAscending ==
  ASSUME NEW n \in Nat, NEW t, \A i \in 1 .. n : t[i] \in Nat,
         \A i, j \in 1 .. n : i < j => t[i] < t[j]
  PROVE  SortedBases({t[i] : i \in 1 .. n}) = [i \in 1 .. n |-> t[i]]
<1> PICK S : S = {t[i] : i \in 1 .. n}
  OBVIOUS
<1>1. Cardinality(S) = n
  BY CountAscending
<1>2. ASSUME NEW i \in 1 .. n
      PROVE  Cardinality({a \in S : a < t[i]}) = i - 1
  <2>1. {a \in S : a < t[i]} = {t[j] : j \in 1 .. i - 1}
    <3>1. ASSUME NEW a \in S, a < t[i]
          PROVE  a \in {t[j] : j \in 1 .. i - 1}
      <4>1. PICK j \in 1 .. n : a = t[j]
        OBVIOUS
      <4>2. j < i
        <5>1. SUFFICES ASSUME ~(j < i)
                       PROVE  FALSE
          OBVIOUS
        <5>2. j = i \/ i < j
          BY <5>1
        <5>3. t[i] \in Nat /\ t[j] \in Nat /\ t[j] < t[i]
          BY <3>1, <4>1
        <5> QED
          BY <5>2, <5>3
      <4> QED
        BY <4>1, <4>2
    <3>2. ASSUME NEW j \in 1 .. i - 1
          PROVE  t[j] \in S /\ t[j] < t[i]
      OBVIOUS
    <3> QED
      BY <3>1, <3>2
  <2>2. i - 1 \in Nat /\ \A j \in 1 .. i - 1 : j \in 1 .. n
    OBVIOUS
  <2>3. Cardinality({t[j] : j \in 1 .. i - 1}) = i - 1
    BY <2>2, CountAscending
  <2> QED
    BY <2>1, <2>3
<1>3. ASSUME NEW i \in 1 .. n
      PROVE  (CHOOSE b \in S : Cardinality({a \in S : a < b}) = i - 1) = t[i]
  <2>1. t[i] \in S
    OBVIOUS
  <2>2. ASSUME NEW b \in S, Cardinality({a \in S : a < b}) = i - 1
        PROVE  b = t[i]
    <3>1. PICK j \in 1 .. n : b = t[j]
      OBVIOUS
    <3>2. j - 1 = i - 1
      BY <1>2, <2>2, <3>1
    <3> QED
      BY <3>1, <3>2
  <2> QED
    BY <1>2, <2>1, <2>2
<1> QED
  BY <1>1, <1>3 DEF SortedBases

-----------------------------------------------------------------------------
(* Writes *)

\* Two sequences joined.
LEMMA JoinSeq ==
  ASSUME NEW S, NEW a \in Seq(S), NEW c \in Seq(S), NEW d, d = a \o c
  PROVE  /\ d \in Seq(S) /\ Len(d) = Len(a) + Len(c)
         /\ \A i \in 1 .. Len(a) : d[i] = a[i]
         /\ \A i \in 1 .. Len(c) : d[Len(a) + i] = c[i]
OBVIOUS

\* The file w is the given one with the cells s at p.
Overwritten(S, file, p, s, w) ==
  /\ w \in Seq(S)
  /\ Len(w) = IF p + Len(s) <= Len(file) THEN Len(file) ELSE p + Len(s)
  /\ \A i \in 1 .. p : w[i] = file[i]
  /\ \A i \in 1 .. Len(s) : w[p + i] = s[i]
  /\ \A i \in p + Len(s) + 1 .. Len(file) : w[i] = file[i]

\* What Overwrite does to a file.
LEMMA OverwriteFacts ==
  ASSUME NEW S, NEW file \in Seq(S), NEW p \in Nat, p <= Len(file), NEW s \in Seq(S),
         NEW w, w = Overwrite(file, p, s)
  PROVE  Overwritten(S, file, p, s, w)
<1> PICK n \in Nat, m \in Nat : n = Len(file) /\ m = Len(s)
  OBVIOUS
<1>1. /\ SubSeq(file, 1, p) \in Seq(S) /\ Len(SubSeq(file, 1, p)) = p
      /\ \A i \in 1 .. p : SubSeq(file, 1, p)[i] = file[i]
  BY PrefixSeq
<1>2. PICK a : a = SubSeq(file, 1, p) /\ a \in Seq(S) /\ Len(a) = p /\ \A i \in 1 .. p : a[i] = file[i]
  BY <1>1, Zenon
<1>3. /\ SubSeq(file, p + m + 1, n) \in Seq(S)
      /\ Len(SubSeq(file, p + m + 1, n)) = IF p + m + 1 <= n THEN n - (p + m) ELSE 0
      /\ \A i \in 1 .. n - (p + m) : SubSeq(file, p + m + 1, n)[i] = file[p + m + i]
  <2>1. \A i \in p + m + 1 .. n : file[i] \in S
    OBVIOUS
  <2>2. p + m + 1 \in Int /\ n \in Int /\ n - (p + m + 1) + 1 = n - (p + m)
    OBVIOUS
  <2>3. \A i \in 1 .. n - (p + m) : p + m + 1 + i - 1 = p + m + i
    OBVIOUS
  <2> QED
    BY <2>1, <2>2, <2>3, SubSeqProperties
<1>4. PICK c : /\ c = SubSeq(file, p + m + 1, n) /\ c \in Seq(S)
               /\ Len(c) = IF p + m + 1 <= n THEN n - (p + m) ELSE 0
               /\ \A i \in 1 .. n - (p + m) : c[i] = file[p + m + i]
  BY <1>3, Zenon
<1>c. c \in Seq(S)
  BY <1>4
<1>5. PICK k \in Nat : k = Len(c)
  BY <1>c
<1>k. (p + m < n => k = n - (p + m)) /\ (p + m >= n => k = 0)
  BY <1>4, <1>5
<1>6. PICK d : d = a \o s
  OBVIOUS
<1>w. w = d \o c
  BY <1>2, <1>4, <1>6 DEF Overwrite
<1>7. /\ d \in Seq(S) /\ Len(d) = p + m
      /\ \A i \in 1 .. p : d[i] = a[i]
      /\ \A i \in 1 .. m : d[p + i] = s[i]
  BY <1>2, <1>6, JoinSeq, SMTT(30)
<1>8. /\ w \in Seq(S) /\ Len(w) = p + m + k
      /\ \A i \in 1 .. p + m : w[i] = d[i]
      /\ \A i \in 1 .. k : w[p + m + i] = c[i]
  <2>1. d \in Seq(S)
    BY <1>7
  <2>2. /\ w \in Seq(S) /\ Len(w) = Len(d) + Len(c)
        /\ \A i \in 1 .. Len(d) : w[i] = d[i]
        /\ \A i \in 1 .. Len(c) : w[Len(d) + i] = c[i]
    BY <2>1, <1>c, <1>w, JoinSeq
  <2>3. Len(d) = p + m
    BY <1>7
  <2> QED
    BY <2>2, <2>3, <1>5
<1>9. \A i \in 1 .. p : w[i] = file[i]
  BY <1>2, <1>7, <1>8
<1>10. \A i \in 1 .. m : w[p + i] = s[i]
  BY <1>7, <1>8, SMTT(30)
<1>11. ASSUME NEW i \in p + m + 1 .. n
       PROVE  w[i] = file[i]
  <2>1. PICK j \in 1 .. k : i = p + m + j /\ j \in 1 .. n - (p + m)
    <3>1. i - (p + m) \in 1 .. k /\ i = p + m + (i - (p + m)) /\ i - (p + m) \in 1 .. n - (p + m)
      BY <1>k
    <3> QED
      BY <3>1
  <2>2. w[p + m + j] = c[j] /\ c[j] = file[p + m + j]
    BY <2>1, <1>4, <1>8
  <2> QED
    BY <2>1, <2>2
<1>12. Len(w) = IF p + m <= n THEN n ELSE p + m
  BY <1>k, <1>8
<1> QED
  BY <1>8, <1>9, <1>10, <1>11, <1>12 DEF Overwritten

\* The record that Append lays out.
LEMMA CellsFacts ==
  ASSUME NEW o \in Nat, NEW v \in Values
  PROVE  /\ Cells(o, v) \in Seq(Cell) /\ Len(Cells(o, v)) = Size(v)
         /\ Cells(o, v)[1] = Magic
         /\ \A i \in 1 .. Size(v) - 1 : Cells(o, v)[1 + i] = [piece |-> i, off |-> o, val |-> v]
<1> PICK z \in Nat : z = Size(v) - 1 /\ Size(v) = z + 1
  BY SizeType
<1>1. PICK c : c = [i \in 1 .. z |-> [piece |-> i, off |-> o, val |-> v]]
  OBVIOUS
<1>2. \A i \in 1 .. z : [piece |-> i, off |-> o, val |-> v] \in Cell
  BY CellFacts
<1>3. c \in Seq(Cell) /\ Len(c) = z
  <2>1. c \in [1 .. z -> Cell]
    BY <1>1, <1>2
  <2> QED
    BY <2>1
<1>4. PICK a : a = <<Magic>> /\ a \in Seq(Cell) /\ Len(a) = 1 /\ a[1] = Magic
  <2>1. PICK x \in Cell : x = Magic
    BY CellFacts
  <2>2. <<x>> \in Seq(Cell) /\ Len(<<x>>) = 1 /\ <<x>>[1] = x
    OBVIOUS
  <2> QED
    BY <2>1, <2>2, Zenon
<1>5. Cells(o, v) = a \o c
  BY <1>1, <1>4 DEF Cells
<1>6. /\ a \o c \in Seq(Cell) /\ Len(a \o c) = 1 + z
      /\ \A i \in 1 .. 1 + z : (a \o c)[i] = IF i <= 1 THEN a[i] ELSE c[i - 1]
  BY <1>3, <1>4, ConcatProperties
<1>7. ASSUME NEW i \in 1 .. z
      PROVE  (a \o c)[1 + i] = [piece |-> i, off |-> o, val |-> v]
  <2>1. 1 + i \in 1 .. 1 + z /\ ~(1 + i <= 1) /\ (1 + i) - 1 = i
    OBVIOUS
  <2> QED
    BY <2>1, <1>1, <1>6
<1> QED
  BY <1>4, <1>5, <1>6, <1>7

\* Whatever follows the records, no magic byte comes after the place of a header.
LEMMA TailRest ==
  ASSUME NEW file \in Seq(Cell), NEW g, g.size \in Nat, NEW next \in Nat, TailOK(g, file, next)
  PROVE  \A i \in g.size + Header + 1 .. Len(file) : file[i] # Magic
<1> PICK e \in Nat : e = g.size
  OBVIOUS
<1> SUFFICES ASSUME NEW i \in e + 4 .. Len(file)
             PROVE  file[i] # Magic
  BY DEF Header
<1>1. CASE NoMagic(file, e)
  BY <1>1 DEF NoMagic
<1>2. CASE Len(file) < e + Header
  BY <1>2 DEF Header
<1>3. CASE Leftover(file, e, next)
  <2>1. PICK t \in Values : RecordAt(file, e, next, t) /\ NoMagic(file, e + Size(t))
    BY <1>3 DEF Leftover
  <2> PICK z \in Nat : z = Size(t) /\ z >= 4
    BY SizeType
  <2>2. CASE i <= e + z
    <3>1. PICK j \in 1 .. z - 1 : e + 1 + j = i
      <4>1. i - e - 1 \in 1 .. z - 1 /\ e + 1 + (i - e - 1) = i
        BY <2>2
      <4> QED
        BY <4>1
    <3>2. file[i] = [piece |-> j, off |-> next, val |-> t]
      BY <2>1, <3>1 DEF RecordAt
    <3>3. j \in Nat \ {0}
      OBVIOUS
    <3> QED
      BY <3>2, <3>3, CellFacts
  <2>3. CASE i > e + z
    <3>1. i \in e + z + 1 .. Len(file)
      BY <2>3
    <3> QED
      BY <2>1, <3>1 DEF NoMagic
  <2> QED
    BY <2>2, <2>3
<1> QED
  BY <1>1, <1>2, <1>3 DEF TailOK

\* Writing a whole record behind the others.
LEMMA WriteWhole ==
  ASSUME NEW file \in Seq(Cell), NEW e \in Nat, e <= Len(file),
         \A i \in e + Header + 1 .. Len(file) : file[i] # Magic,
         NEW o \in Nat, NEW v \in Values, NEW w, w = Overwrite(file, e, Cells(o, v))
  PROVE  /\ w \in Seq(Cell) /\ Agree(w, file, e) /\ RecordAt(w, e, o, v)
         /\ NoMagic(w, e + Size(v))
<1> PICK z \in Nat : z = Size(v) /\ z >= 4
  BY SizeType
<1> PICK n \in Nat : n = Len(file)
  OBVIOUS
<1>0. \A i \in e + 4 .. n : file[i] # Magic
  BY DEF Header
<1>1. PICK c : /\ c = Cells(o, v) /\ c \in Seq(Cell) /\ Len(c) = z /\ c[1] = Magic
               /\ \A i \in 1 .. z - 1 : c[1 + i] = [piece |-> i, off |-> o, val |-> v]
  BY CellsFacts
<1>2. /\ w \in Seq(Cell)
      /\ Len(w) = IF e + z <= n THEN n ELSE e + z
      /\ \A i \in 1 .. e : w[i] = file[i]
      /\ \A i \in 1 .. z : w[e + i] = c[i]
      /\ \A i \in e + z + 1 .. n : w[i] = file[i]
  <2>1. file \in Seq(Cell) /\ e \in Nat /\ e <= Len(file) /\ c \in Seq(Cell) /\ w = Overwrite(file, e, c)
    BY <1>1
  <2> HIDE DEF Overwrite
  <2>2. /\ w \in Seq(Cell)
        /\ Len(w) = IF e + Len(c) <= Len(file) THEN Len(file) ELSE e + Len(c)
        /\ \A i \in 1 .. e : w[i] = file[i]
        /\ \A i \in 1 .. Len(c) : w[e + i] = c[i]
        /\ \A i \in e + Len(c) + 1 .. Len(file) : w[i] = file[i]
    BY <2>1, OverwriteFacts DEF Overwritten
  <2> QED
    BY <1>1, <2>2, Zenon
<1>3. e <= Len(w) /\ e + z <= Len(w)
  BY <1>2
<1>4. Agree(w, file, e)
  BY <1>2, <1>3 DEF Agree
<1>5. RecordAt(w, e, o, v)
  <2>1. w[e + 1] = Magic
    BY <1>1, <1>2
  <2>2. ASSUME NEW i \in 1 .. z - 1
        PROVE  w[e + 1 + i] = [piece |-> i, off |-> o, val |-> v]
    <3>1. 1 + i \in 1 .. z /\ e + (1 + i) = e + 1 + i
      OBVIOUS
    <3> QED
      BY <3>1, <1>1, <1>2, SMTT(30)
  <2> QED
    BY <1>3, <2>1, <2>2 DEF RecordAt
<1>6. ASSUME NEW i \in e + z + 1 .. Len(w)
      PROVE  w[i] # Magic
  <2>1. i \in e + z + 1 .. n /\ i \in e + 4 .. n
    BY <1>2
  <2> QED
    BY <2>1, <1>0, <1>2
<1> QED
  BY <1>2, <1>4, <1>5, <1>6 DEF NoMagic

\* A write at the end of a file that stops inside the header.
LEMMA WritePart ==
  ASSUME NEW file \in Seq(Cell), NEW e \in Nat, e <= Len(file), Len(file) < e + Header,
         NEW o \in Nat, NEW v \in Values, NEW n \in Nat, n < Header,
         NEW w, w = Overwrite(file, e, SubSeq(Cells(o, v), 1, n))
  PROVE  w \in Seq(Cell) /\ Agree(w, file, e) /\ Len(w) < e + Header
<1> PICK m \in Nat : m = Len(file)
  OBVIOUS
<1>1. PICK c : c = Cells(o, v) /\ c \in Seq(Cell) /\ Len(c) = Size(v)
  BY CellsFacts
<1>2. n <= Len(c)
  BY <1>1, SizeType DEF Header
<1>3. SubSeq(c, 1, n) \in Seq(Cell) /\ Len(SubSeq(c, 1, n)) = n
  BY <1>1, <1>2, PrefixSeq
<1>4. PICK p : p = SubSeq(c, 1, n) /\ p \in Seq(Cell) /\ Len(p) = n
  BY <1>3, Zenon
<1>5. p \in Seq(Cell) /\ Len(p) = n /\ w = Overwrite(file, e, p)
  BY <1>1, <1>4
<1>6. /\ w \in Seq(Cell)
      /\ Len(w) = IF e + n <= m THEN m ELSE e + n
      /\ \A i \in 1 .. e : w[i] = file[i]
  <2>1. Overwritten(Cell, file, e, p, w)
    BY <1>1, <1>5, OverwriteFacts
  <2> QED
    BY <1>5, <2>1 DEF Overwritten
<1>7. e <= Len(w) /\ Len(w) < e + Header
  BY <1>6 DEF Header
<1> QED
  BY <1>6, <1>7 DEF Agree

\* A write of nothing.
LEMMA WriteNothing ==
  ASSUME NEW file \in Seq(Cell), NEW e \in Nat, e <= Len(file), NEW p \in Seq(Cell), Len(p) = 0,
         NEW w, w = Overwrite(file, e, p)
  PROVE  w = file
<1> PICK n \in Nat : n = Len(file)
  OBVIOUS
<1>0. /\ file \in Seq(Cell) /\ p \in Seq(Cell) /\ w = Overwrite(file, e, p)
      /\ e \in Nat /\ e <= Len(file)
  OBVIOUS
<1>1. /\ w \in Seq(Cell)
      /\ Len(w) = IF e + Len(p) <= Len(file) THEN Len(file) ELSE e + Len(p)
      /\ \A i \in 1 .. e : w[i] = file[i]
      /\ \A i \in 1 .. Len(p) : w[e + i] = p[i]
      /\ \A i \in e + Len(p) + 1 .. Len(file) : w[i] = file[i]
  BY ONLY <1>0, OverwriteFacts DEF Overwritten
<1>2. Len(w) = n /\ \A i \in 1 .. n : w[i] = file[i]
  BY <1>1
<1> QED
  BY <1>1, <1>2, SeqEqual

-----------------------------------------------------------------------------
(* Segments *)

\* The i-th of good segments and its files.
LEMMA SegmentFacts ==
  ASSUME NEW segs, NEW fs, NEW next, Good(segs, fs, next), NEW i \in 1 .. Len(segs)
  PROVE  /\ segs[i] \in [base: Nat, size: Nat, idxSize: Nat]
         /\ segs[i].base \in DOMAIN fs /\ FileOK(segs[i].base, fs[segs[i].base])
         /\ SegOK(segs[i], fs[segs[i].base])
<1>1. segs \in Seq([base: Nat, size: Nat, idxSize: Nat])
  BY DEF Good
<1>2. segs[i] \in [base: Nat, size: Nat, idxSize: Nat]
  <2> DEFINE Shape == [base: Nat, size: Nat, idxSize: Nat]
  <2>1. segs \in Seq(Shape)
    BY <1>1
  <2> HIDE DEF Shape
  <2>2. segs[i] \in Shape
    BY <2>1
  <2> QED
    BY <2>2 DEF Shape
<1>3. segs[i].base \in DOMAIN fs /\ SegOK(segs[i], fs[segs[i].base])
  BY DEF Good
<1>4. FileOK(segs[i].base, fs[segs[i].base])
  BY <1>3 DEF Good
<1> QED
  BY <1>2, <1>3, <1>4

\* The last segment, its files, and where it ends.
LEMMA LastFacts ==
  ASSUME NEW segs, NEW fs, NEW next, Good(segs, fs, next)
  PROVE  /\ Len(segs) \in Nat /\ Len(segs) >= 1 /\ Len(segs) \in 1 .. Len(segs)
         /\ segs[Len(segs)].base + segs[Len(segs)].idxSize = next /\ next \in Nat
         /\ segs # <<>>
<1>1. segs \in Seq([base: Nat, size: Nat, idxSize: Nat]) /\ Len(segs) > 0
  BY DEF Good
<1>2. Len(segs) \in Nat /\ Len(segs) >= 1 /\ Len(segs) \in 1 .. Len(segs)
  BY <1>1
<1>3. segs[Len(segs)] \in [base: Nat, size: Nat, idxSize: Nat]
  BY <1>2, SegmentFacts
<1>4. segs[Len(segs)].base + segs[Len(segs)].idxSize = next
  BY <1>2 DEF Good
<1>5. segs # <<>>
  BY <1>1
<1> QED
  BY <1>2, <1>3, <1>4, <1>5

\* The last of the segments segs, at b, becomes that of segs2, and its files become g.
RewritesLast(segs, n, b, g, segs2, next2) ==
  /\ n = Len(segs) /\ b = segs[n].base /\ FileOK(b, g)
  /\ segs2 \in Seq([base: Nat, size: Nat, idxSize: Nat]) /\ Len(segs2) = n
  /\ \A i \in 1 .. n : i # n => segs2[i] = segs[i]
  /\ segs2[n].base = b /\ SegOK(segs2[n], g) /\ b + segs2[n].idxSize = next2

\* A step that rewrites the files of the last segment and keeps it in order.
LEMMA GoodLast ==
  ASSUME NEW segs, NEW fs, NEW next, Good(segs, fs, next), NEW n, NEW b, NEW g, NEW segs2,
         NEW next2, RewritesLast(segs, n, b, g, segs2, next2),
         NEW fs2, fs2 = [fs EXCEPT ![b] = g]
  PROVE  Good(segs2, fs2, next2)
<1> n = Len(segs) /\ b = segs[n].base /\ FileOK(b, g)
  BY DEF RewritesLast
<1> /\ segs2 \in Seq([base: Nat, size: Nat, idxSize: Nat]) /\ Len(segs2) = n
    /\ \A i \in 1 .. n : i # n => segs2[i] = segs[i]
    /\ segs2[n].base = b /\ SegOK(segs2[n], g) /\ b + segs2[n].idxSize = next2
  BY DEF RewritesLast
<1>1. n \in Nat /\ n >= 1 /\ n \in 1 .. n
  BY LastFacts
<1>2. b \in DOMAIN fs /\ DOMAIN fs2 = DOMAIN fs
  BY <1>1, SegmentFacts
<1>3. fs2[b] = g /\ \A a \in DOMAIN fs : a # b => fs2[a] = fs[a]
  BY <1>2
<1>4. \A i \in 1 .. n : segs2[i].base = segs[i].base
  OBVIOUS
<1>5. ASSUME NEW i \in 1 .. n, i # n
      PROVE  segs[i].base < b
  <2>1. i < n /\ i \in 1 .. Len(segs) /\ n \in 1 .. Len(segs)
    BY <1>1, <1>5
  <2> QED
    BY <2>1 DEF Good
<1>6. \A i \in 1 .. n : segs[i].base \in DOMAIN fs /\ segs[i].base \in Nat
  BY <1>1, SegmentFacts DEF Good
<1>7. \A i \in 1 .. n : i # n => fs2[segs2[i].base] = fs[segs[i].base] /\ segs2[i] = segs[i]
  BY <1>3, <1>4, <1>5, <1>6, SMTT(30)
<1>8. segs2[1].base = 0 /\ \A i \in 1 .. n : segs2[i].base \in DOMAIN fs2
  <2>1. 1 \in 1 .. n /\ segs[1].base = 0
    BY <1>1 DEF Good
  <2> QED
    BY <1>2, <1>4, <1>6, <2>1
<1>9. \A a \in DOMAIN fs2 : a \in Nat /\ FileOK(a, fs2[a])
  BY <1>2, <1>3 DEF Good
<1>10. fs2 = [a \in DOMAIN fs2 |-> fs2[a]]
  OBVIOUS
<1>11. ASSUME NEW i \in 1 .. n
       PROVE  SegOK(segs2[i], fs2[segs2[i].base])
  <2>1. SegOK(segs[i], fs[segs[i].base])
    BY DEF Good
  <2>2. CASE i = n
    BY <2>2, <1>3
  <2>3. CASE i # n
    <3>1. fs2[segs2[i].base] = fs[segs[i].base] /\ segs2[i] = segs[i]
      BY <1>7, <2>3
    <3> QED
      BY <2>1, <3>1
  <2> QED
    BY <2>2, <2>3
<1>12. \A i \in 1 .. n - 1 : Settled(segs2[i], fs2[segs2[i].base])
  <2>1. ASSUME NEW i \in 1 .. n - 1
        PROVE  Settled(segs2[i], fs2[segs2[i].base])
    <3>1. i \in 1 .. n /\ i # n
      BY <1>1
    <3>2. Settled(segs[i], fs[segs[i].base])
      BY DEF Good
    <3> QED
      BY <1>7, <3>1, <3>2
  <2> QED
    BY <2>1
<1>13. \A i \in 1 .. n :
         segs2[i].base + segs2[i].idxSize = IF i = n THEN next2 ELSE segs2[i + 1].base
  <2>1. ASSUME NEW i \in 1 .. n, i # n
        PROVE  segs2[i].base + segs2[i].idxSize = segs2[i + 1].base
    <3>1. i + 1 \in 1 .. n
      BY <1>1, <2>1, SMTT(30)
    <3>2. segs[i].base + segs[i].idxSize = segs[i + 1].base
      BY <2>1 DEF Good
    <3> QED
      BY <1>4, <1>7, <2>1, <3>1, <3>2
  <2> QED
    BY <2>1
<1>14. \A i, j \in 1 .. n : i < j => segs2[i].base < segs2[j].base
  BY <1>4 DEF Good
<1>15. Len(segs2) > 0
  BY <1>1
<1> QED
  BY <1>8, <1>9, <1>10, <1>11, <1>12, <1>13, <1>14, <1>15 DEF Good

\* A step after which every file is what it was, with records of every segment and
\* no other in what the disk may hold, and perhaps another file.
LEMMA GoodFiles ==
  ASSUME NEW segs, NEW fs, NEW next, Good(segs, fs, next), NEW fs2,
         fs2 = [a \in DOMAIN fs2 |-> fs2[a]], DOMAIN fs \subseteq DOMAIN fs2,
         \A a \in DOMAIN fs2 : a \in Nat /\ FileOK(a, fs2[a]),
         \A a \in DOMAIN fs : /\ fs2[a].log = fs[a].log /\ fs2[a].idx = fs[a].idx
                              /\ fs2[a].disk \subseteq fs[a].disk
  PROVE  Good(segs, fs2, next)
<1> PICK n \in Nat : n = Len(segs)
  BY LastFacts
<1>1. \A i \in 1 .. n : segs[i].base \in DOMAIN fs
  BY SegmentFacts
<1>2. ASSUME NEW i \in 1 .. n
      PROVE  SegOK(segs[i], fs2[segs[i].base])
  <2>1. PICK a \in DOMAIN fs : a = segs[i].base
    BY <1>1
  <2>2. PICK w, s : Indexed(segs[i], fs[a], w, s)
    BY <2>1 DEF Good, SegOK
  <2>3. Indexed(segs[i], fs2[a], w, s)
    BY <2>2 DEF Indexed
  <2> QED
    BY <2>1, <2>3 DEF SegOK
<1>3. \A i \in 1 .. n - 1 : Settled(segs[i], fs2[segs[i].base])
  <2>1. ASSUME NEW i \in 1 .. n - 1
        PROVE  Settled(segs[i], fs2[segs[i].base])
    <3>1. PICK a \in DOMAIN fs : a = segs[i].base
      BY <1>1
    <3>2. Settled(segs[i], fs[a])
      BY <3>1 DEF Good
    <3> QED
      BY <3>1, <3>2 DEF Settled
  <2> QED
    BY <2>1
<1> QED
  BY <1>2, <1>3 DEF Good

\* A segment without records.
LEMMA EmptySegment ==
  ASSUME NEW b \in Nat
  PROVE  /\ FileOK(b, NoFile) /\ SegOK(Segment(b, NoFile), NoFile)
         /\ Segment(b, NoFile) = [base |-> b, size |-> 0, idxSize |-> 0]
         /\ NoFile.log = <<>> /\ NoFile.disk = {<<>>} /\ NoMagic(<<>>, 0)
<1>1. PICK e : e = <<>> /\ e \in Seq(Cell) /\ e \in Seq(Nat) /\ e \in Seq(Values) /\ Len(e) = 0
  BY EmptySeq
<1>2. NoFile = [log |-> e, disk |-> {e}, idx |-> e]
  BY <1>1 DEF NoFile
<1>3. PICK z : z \in Seq(Nat) /\ Len(z) = 1 /\ z[1] = 0
  <2>1. << 0 >> \in Seq(Nat) /\ Len(<< 0 >>) = 1 /\ << 0 >>[1] = 0
    OBVIOUS
  <2> QED
    BY <2>1
<1>4. Laid(e, b, e, z)
  BY <1>1, <1>3 DEF Laid
<1>5. NoMagic(e, 0) /\ ~StartsAt(e, 0)
  BY <1>1 DEF NoMagic, StartsAt, Header
<1>6. IsLog(e, b)
  <2>1. ~StartsAt(e, z[Len(e) + 1])
    BY <1>1, <1>3, <1>5
  <2> QED
    BY <1>4, <2>1 DEF IsLog
<1>7. NoFile.log = e /\ NoFile.disk = {e} /\ NoFile.idx = e
  BY <1>2
<1>8. FileOK(b, NoFile)
  BY <1>1, <1>2, <1>6, <1>7 DEF FileOK
<1>9. Segment(b, NoFile) = [base |-> b, size |-> 0, idxSize |-> 0]
  BY <1>1, <1>7 DEF Segment
<1>10. Indexed(Segment(b, NoFile), NoFile, e, z)
  BY <1>1, <1>3, <1>4, <1>7, <1>9 DEF Indexed
<1> QED
  BY <1>1, <1>5, <1>7, <1>8, <1>9, <1>10 DEF SegOK

\* roll: the last segment is settled, and an empty one follows it.
LEMMA GoodRoll ==
  ASSUME NEW segs, NEW fs, NEW next, Good(segs, fs, next), next \in DOMAIN fs,
         fs[next] = NoFile, Settled(segs[Len(segs)], fs[segs[Len(segs)].base])
  PROVE  Good(Append(segs, Segment(next, NoFile)), fs, next)
<1> DEFINE Shape == [base: Nat, size: Nat, idxSize: Nat]
<1> PICK n \in Nat : n = Len(segs) /\ n >= 1
  BY LastFacts
<1>1. next \in Nat /\ segs[n].base + segs[n].idxSize = next
  BY LastFacts
<1>2. PICK g \in Shape : g = Segment(next, NoFile) /\ g.base = next /\ g.idxSize = 0 /\ SegOK(g, NoFile)
  BY <1>1, EmptySegment
<1>3. segs \in Seq(Shape)
  BY DEF Good
<1>4. PICK s : s = Append(segs, g) /\ s \in Seq(Shape) /\ Len(s) = n + 1 /\ s[n + 1] = g
               /\ \A i \in 1 .. n : s[i] = segs[i]
  <2> HIDE DEF Shape
  <2>1. /\ Append(segs, g) \in Seq(Shape) /\ Len(Append(segs, g)) = n + 1 /\ Append(segs, g)[n + 1] = g
        /\ \A i \in 1 .. n : Append(segs, g)[i] = segs[i]
    BY <1>3, AppendProperties
  <2> QED
    BY <2>1, Zenon
<1>5. segs[n] \in Shape /\ Settled(segs[n], fs[segs[n].base])
  BY SegmentFacts
<1>6. segs[n].base < next
  BY <1>1, <1>5 DEF Settled
<1>7. ASSUME NEW i \in 1 .. n
      PROVE  segs[i].base < next /\ segs[i].base \in Nat
  <2>1. segs[i] \in Shape
    BY SegmentFacts
  <2>2. i = n \/ i < n
    OBVIOUS
  <2>3. i < n => segs[i].base < segs[n].base
    BY DEF Good
  <2> QED
    BY <2>1, <2>2, <2>3, <1>5, <1>6, <1>1, SMTT(30)
<1>8. s[1].base = 0 /\ \A i \in 1 .. n + 1 : s[i].base \in DOMAIN fs
  <2>1. s[1].base = 0
    BY <1>4 DEF Good
  <2>2. ASSUME NEW i \in 1 .. n + 1
        PROVE  s[i].base \in DOMAIN fs
    <3>1. i \in 1 .. n \/ i = n + 1
      OBVIOUS
    <3>2. i \in 1 .. n => segs[i].base \in DOMAIN fs
      BY SegmentFacts
    <3> QED
      BY <3>1, <3>2, <1>2, <1>4
  <2> QED
    BY <2>1, <2>2
<1>9. ASSUME NEW i \in 1 .. n + 1
      PROVE  SegOK(s[i], fs[s[i].base])
  <2>1. i \in 1 .. n \/ i = n + 1
    OBVIOUS
  <2>2. i \in 1 .. n => SegOK(segs[i], fs[segs[i].base])
    BY DEF Good
  <2> QED
    BY <2>1, <2>2, <1>2, <1>4, SMTT(30)
<1>10. ASSUME NEW i \in 1 .. n
       PROVE  Settled(s[i], fs[s[i].base])
  <2>1. i \in 1 .. n - 1 \/ i = n
    OBVIOUS
  <2>2. i \in 1 .. n - 1 => Settled(segs[i], fs[segs[i].base])
    BY DEF Good
  <2> QED
    BY <2>1, <2>2, <1>4, <1>5
<1>11. ASSUME NEW i \in 1 .. n + 1
       PROVE  s[i].base + s[i].idxSize = IF i = n + 1 THEN next ELSE s[i + 1].base
  <2>1. CASE i = n + 1
    BY <2>1, <1>1, <1>2, <1>4
  <2>2. CASE i = n
    BY <2>2, <1>1, <1>2, <1>4
  <2>3. CASE i \in 1 .. n - 1
    <3>2. i \in 1 .. n /\ i + 1 \in 1 .. n /\ i # n + 1 /\ i # n
      BY <2>3
    <3>1. segs[i].base + segs[i].idxSize = segs[i + 1].base
      BY <3>2 DEF Good
    <3> QED
      BY <3>1, <3>2, <1>4
  <2> QED
    BY <2>1, <2>2, <2>3
<1>12. ASSUME NEW i \in 1 .. n + 1, NEW j \in 1 .. n + 1, i < j
       PROVE  s[i].base < s[j].base
  <2>1. i \in 1 .. n /\ (j \in 1 .. n \/ j = n + 1)
    BY <1>12
  <2>2. j \in 1 .. n => segs[i].base < segs[j].base
    BY <2>1, <1>12 DEF Good
  <2> QED
    BY <2>1, <2>2, <1>2, <1>4, <1>7, ZenonT(60)
<1>13. Len(s) > 0 /\ Len(s) - 1 = n
  BY <1>4
<1>14. /\ fs = [b \in DOMAIN fs |-> fs[b]]
       /\ \A b \in DOMAIN fs : b \in Nat /\ FileOK(b, fs[b])
  BY DEF Good
<1>15. Good(s, fs, next)
  BY <1>4, <1>8, <1>9, <1>10, <1>11, <1>12, <1>13, <1>14 DEF Good
<1> QED
  BY <1>2, <1>4, <1>15

-----------------------------------------------------------------------------
(* Append: roll *)

\* The active segment, its files, and where it ends.
LEMMA ActiveFacts ==
  ASSUME Good(segments, files, nextOffset)
  PROVE  /\ Active \in [base: Nat, size: Nat, idxSize: Nat]
         /\ Active.base \in DOMAIN files /\ FileOK(Active.base, files[Active.base])
         /\ SegOK(Active, files[Active.base])
         /\ Active.base + Active.idxSize = nextOffset /\ nextOffset \in Nat
<1>1. Len(segments) \in 1 .. Len(segments) /\ nextOffset \in Nat
      /\ segments[Len(segments)].base + segments[Len(segments)].idxSize = nextOffset
  BY LastFacts
<1> QED
  BY <1>1, SegmentFacts DEF Active

\* Where the n-th record of a segment ends.
LEMMA EndFacts ==
  ASSUME NEW g, NEW f, NEW w, NEW s, Indexed(g, f, w, s), NEW n \in 0 .. Len(w)
  PROVE  /\ EndIn(g, f, n) = s[n + 1] /\ s[n + 1] \in Nat
         /\ s[n + 1] <= g.size /\ g.size <= Len(f.log) /\ g.size \in Nat
<1> PICK m \in Nat : m = Len(w)
  BY DEF Indexed, Laid
<1>1. n + 1 \in 1 .. m + 1 /\ m + 1 \in 1 .. m + 1 /\ n + 1 <= m + 1
  OBVIOUS
<1>2. Laid(f.log, g.base, w, s) /\ g.size = s[m + 1] /\ g.idxSize = m
  BY DEF Indexed
<1>3. s[n + 1] \in Nat /\ s[m + 1] \in Nat /\ s[n + 1] <= s[m + 1] /\ s[m + 1] <= Len(f.log)
  BY <1>1, <1>2, LaidOrder
<1>4. EndIn(g, f, n) = s[n + 1]
  <2>1. CASE n < m
    <3>1. n + 1 \in 1 .. m
      BY <2>1
    <3> QED
      BY <2>1, <3>1, <1>2 DEF EndIn, Indexed
  <2>2. CASE n = m
    BY <2>2, <1>2 DEF EndIn
  <2> QED
    BY <2>1, <2>2
<1> QED
  BY <1>2, <1>3, <1>4

\* What fsync of the log does.
LEMMA SyncedFile ==
  ASSUME NEW b, NEW f, FileOK(b, f), NEW g, g = Synced(f)
  PROVE  /\ FileOK(b, g) /\ g.log = f.log /\ g.idx = f.idx
         /\ g.disk = {f.log} /\ g.disk \subseteq f.disk
<1>1. /\ f \in [log: Seq(Cell), disk: SUBSET Seq(Cell), idx: Seq(Nat)]
      /\ f.log \in f.disk /\ \A c \in f.disk : IsLog(c, b)
  BY DEF FileOK
<1>2. PICK d : d = {f.log}
  OBVIOUS
<1>3. g = [f EXCEPT !.disk = d] /\ d \in SUBSET Seq(Cell)
  BY <1>1, <1>2 DEF Synced
<1>4. g \in [log: Seq(Cell), disk: SUBSET Seq(Cell), idx: Seq(Nat)]
  BY <1>1, <1>3
<1>5. g.log = f.log /\ g.idx = f.idx /\ g.disk = d
  BY <1>1, <1>3
<1> QED
  BY <1>1, <1>2, <1>4, <1>5, Zenon DEF FileOK

\* Empty files are synced.
LEMMA SyncedEmpty == Synced(NoFile) = NoFile
<1>1. NoFile.log = <<>> /\ NoFile = [log |-> <<>>, disk |-> {<<>>}, idx |-> <<>>]
  BY DEF NoFile
<1>2. Synced(NoFile) = [NoFile EXCEPT !.disk = {<<>>}]
  BY <1>1 DEF Synced
<1> QED
  BY ONLY <1>1, <1>2

\* A segment with cells has records.
LEMMA SizeMeansRecords ==
  ASSUME NEW g, NEW f, SegOK(g, f), g.size > 0
  PROVE  g.idxSize > 0
<1>1. PICK w, s : Indexed(g, f, w, s)
  BY DEF SegOK
<1>2. w \in Seq(Values) /\ s[1] = 0 /\ g.size = s[Len(w) + 1] /\ g.idxSize = Len(w)
  BY <1>1 DEF Indexed, Laid
<1> QED
  BY <1>2

\* Nothing is left behind a full segment.
LEMMA FullTail ==
  ASSUME WALInv, Active.size >= MaxSegment
  PROVE  /\ ~StartsAt(files[Active.base].log, Active.size)
         /\ NoMagic(files[Active.base].log, Active.size)
              \/ Len(files[Active.base].log) < Active.size + Header
<1>1. Active.size \in Nat /\ files[Active.base].log \in Seq(Cell)
  BY ActiveFacts DEF WALInv, FileOK
<1>2. NoMagic(files[Active.base].log, Active.size)
        \/ Len(files[Active.base].log) < Active.size + Header
  BY <1>1, WalConstantsOK DEF WALInv, TailOK
<1> QED
  BY <1>1, <1>2, NoMagicNoStart

\* When the active segment is full, roll makes files that hold both the old segments
\* and the old ones with an empty one after them.
LEMMA RolledFacts ==
  ASSUME WALInv, Active.size >= MaxSegment
  PROVE  /\ Good(segments, Rolled, nextOffset)
         /\ Good(Append(segments, Extra), Rolled, nextOffset)
         /\ DOMAIN Rolled = Bases \cup {nextOffset} /\ Rolled[nextOffset] = NoFile
         /\ Rolled[Active.base].log = files[Active.base].log
         /\ Rolled[Active.base].idx = files[Active.base].idx
         /\ Rolled[Active.base].disk = {files[Active.base].log}
<1> USE DEF WALInv
<1> DEFINE R == Rolled
           a == Active.base
<1>1. /\ Active \in [base: Nat, size: Nat, idxSize: Nat] /\ a \in DOMAIN files
      /\ SegOK(Active, files[a]) /\ FileOK(a, files[a])
      /\ a + Active.idxSize = nextOffset /\ nextOffset \in Nat
  BY ActiveFacts
<1>2. Active.size > 0
  BY <1>1, WalConstantsOK
<1>3. Active.idxSize > 0
  BY <1>1, <1>2, SizeMeansRecords
<1>5. \A b \in Bases : b \in Nat /\ b < nextOffset /\ b \in DOMAIN files
  <2> SUFFICES ASSUME NEW i \in 1 .. Len(segments)
               PROVE  /\ segments[i].base \in Nat /\ segments[i].base < nextOffset
                      /\ segments[i].base \in DOMAIN files
    BY DEF Bases
  <2>1. segments[i] \in [base: Nat, size: Nat, idxSize: Nat] /\ segments[i].base \in DOMAIN files
    BY SegmentFacts
  <2>2. Len(segments) \in 1 .. Len(segments)
    BY LastFacts
  <2>3. i < Len(segments) => segments[i].base < a
    BY <2>2 DEF Good, Active
  <2>4. i = Len(segments) => segments[i].base = a
    BY DEF Active
  <2> QED
    BY <1>1, <1>3, <2>1, <2>2, <2>3, <2>4
<1>6. DOMAIN files \cup {nextOffset} = Bases \cup {nextOffset}
  BY DEF OrphanOK
<1>7. nextOffset \in DOMAIN files => files[nextOffset] = NoFile
  BY <1>5 DEF OrphanOK
<1>8. a # nextOffset
  BY <1>1, <1>3
<1>9. R = [b \in DOMAIN files \cup {nextOffset} |->
             IF b = a THEN Synced(files[b])
             ELSE IF b \in DOMAIN files THEN files[b] ELSE NoFile]
  BY DEF Rolled
<1> HIDE DEF R
<1>10. /\ DOMAIN R = DOMAIN files \cup {nextOffset} /\ R = [b \in DOMAIN R |-> R[b]]
       /\ R[a] = Synced(files[a]) /\ R[nextOffset] = NoFile
       /\ \A b \in DOMAIN files : b # a => R[b] = files[b]
  BY <1>1, <1>7, <1>8, <1>9
<1>11. /\ FileOK(a, R[a]) /\ R[a].log = files[a].log /\ R[a].idx = files[a].idx
       /\ R[a].disk = {files[a].log} /\ R[a].disk \subseteq files[a].disk
  BY <1>1, <1>10, SyncedFile
<1>12. FileOK(nextOffset, NoFile)
  BY <1>1, EmptySegment
<1>13. \A b \in DOMAIN files : b \in Nat /\ FileOK(b, files[b])
  BY DEF Good
<1>14. \A b \in DOMAIN R : b \in Nat /\ FileOK(b, R[b])
  <2> SUFFICES ASSUME NEW b \in DOMAIN R
               PROVE  b \in Nat /\ FileOK(b, R[b])
    OBVIOUS
  <2>1. CASE b = a
    BY <2>1, <1>1, <1>11
  <2>2. CASE b = nextOffset
    BY <2>2, <1>1, <1>10, <1>12
  <2>3. CASE b # a /\ b # nextOffset
    BY <2>3, <1>10, <1>13
  <2> QED
    BY <2>1, <2>2, <2>3
<1>15. \A b \in DOMAIN files : /\ R[b].log = files[b].log /\ R[b].idx = files[b].idx
                               /\ R[b].disk \subseteq files[b].disk
  BY <1>10, <1>11
<1>16. Good(segments, R, nextOffset)
  BY <1>10, <1>14, <1>15, GoodFiles
<1>17. Settled(Active, R[a])
  <2>1. PICK w, s : Indexed(Active, files[a], w, s)
    BY <1>1 DEF SegOK
  <2>2. Len(w) \in 0 .. Len(w)
    BY <2>1 DEF Indexed, Laid
  <2>3. Active.size <= Len(files[a].log)
    BY <2>1, <2>2, EndFacts
  <2>4. Agree(files[a].log, files[a].log, Active.size)
    BY <2>3 DEF Agree
  <2>5. ~StartsAt(files[a].log, Active.size)
    BY FullTail
  <2> QED
    BY <1>3, <1>11, <2>4, <2>5 DEF Settled
<1>18. Good(Append(segments, Extra), R, nextOffset)
  BY <1>10, <1>16, <1>17, GoodRoll DEF Active, Extra
<1> QED
  BY <1>6, <1>10, <1>11, <1>16, <1>18 DEF R

\* Syncing files disturbs nothing, whether fsync reached them or not.
LEMMA SyncKeeps ==
  ASSUME WALInv, NEW D,
         files' = [b \in DOMAIN files |-> IF b \in D THEN Synced(files[b]) ELSE files[b]],
         segments' = segments, nextOffset' = nextOffset,
         acked' = acked \/ (Active.base \in D /\ acked' = nextOffset)
  PROVE  /\ Good(segments', files', nextOffset')
         /\ TailOK(Active', files'[Active'.base].log, nextOffset')
         /\ OrphanOK' /\ AckedOK'
<1> USE DEF WALInv
<1> PICK a, fs : a = Active.base /\ fs = files'
  OBVIOUS
<1>1. /\ Active \in [base: Nat, size: Nat, idxSize: Nat] /\ a \in DOMAIN files
      /\ SegOK(Active, files[a]) /\ FileOK(a, files[a])
      /\ a + Active.idxSize = nextOffset /\ nextOffset \in Nat
  BY ActiveFacts
<1>2. Active' = Active /\ Bases' = Bases /\ Extra' = Extra
  BY DEF Active, Bases, Extra
<1>3. \A b \in DOMAIN files : b \in Nat /\ FileOK(b, files[b])
  BY DEF Good
<1>4. DOMAIN fs = DOMAIN files /\ fs = [b \in DOMAIN fs |-> fs[b]]
  OBVIOUS
<1>5. \A b \in DOMAIN files : fs[b] = IF b \in D THEN Synced(files[b]) ELSE files[b]
  OBVIOUS
<1>6. ASSUME NEW b \in DOMAIN files
      PROVE  /\ FileOK(b, fs[b]) /\ fs[b].log = files[b].log /\ fs[b].idx = files[b].idx
             /\ fs[b].disk \subseteq files[b].disk
             /\ b \in D => fs[b].disk = {files[b].log}
  <2>1. FileOK(b, files[b])
    BY <1>3
  <2>2. CASE b \in D
    <3>1. fs[b] = Synced(files[b])
      BY <1>5, <2>2
    <3>2. PICK g : g = fs[b]
      OBVIOUS
    <3>3. /\ FileOK(b, g) /\ g.log = files[b].log /\ g.idx = files[b].idx
          /\ g.disk = {files[b].log} /\ g.disk \subseteq files[b].disk
      BY ONLY <3>1, <3>2, <2>1, SyncedFile
    <3> QED
      BY <3>2, <3>3
  <2>3. CASE b \notin D
    BY <1>5, <2>1, <2>3
  <2> QED
    BY <2>2, <2>3
<1>7. \A segs, next : Good(segs, files, next) => Good(segs, fs, next)
  BY <1>3, <1>4, <1>6, GoodFiles
<1>8. OrphanOK'
  <2>1. CASE DOMAIN files = Bases
    BY <2>1, <1>2, <1>4 DEF OrphanOK
  <2>2. CASE DOMAIN files # Bases
    <3>1. /\ DOMAIN files = Bases \cup {nextOffset} /\ Active.size >= MaxSegment
          /\ Good(Append(segments, Extra), files, nextOffset) /\ files[nextOffset] = NoFile
      BY <2>2 DEF OrphanOK
    <3>2. fs[nextOffset] = NoFile
      BY <3>1, <1>5, SyncedEmpty
    <3>3. Good(Append(segments, Extra), fs, nextOffset)
      BY <3>1, <1>7
    <3> QED
      BY <3>1, <3>2, <3>3, <1>2, <1>4 DEF OrphanOK
  <2> QED
    BY <2>1, <2>2
<1>9. AckedOK'
  <2>1. acked \in Nat /\ acked <= nextOffset /\ acked' \in Nat /\ acked' <= nextOffset
    BY <1>1 DEF AckedOK
  <2>2. fs[a].log = files[a].log /\ fs[a].idx = files[a].idx /\ fs[a].disk \subseteq files[a].disk
    BY <1>1, <1>6
  <2>3. EndIn(Active, fs[a], acked' - a) = EndIn(Active, files[a], acked' - a)
    BY <2>2 DEF EndIn
  <2>4. ASSUME acked' > a, NEW c \in fs[a].disk
        PROVE  Agree(c, fs[a].log, EndIn(Active, fs[a], acked' - a))
    <3>1. CASE acked' = acked
      <4>1. Agree(c, files[a].log, EndIn(Active, files[a], acked - a))
        BY <3>1, <2>2, <2>4 DEF AckedOK
      <4> QED
        BY <3>1, <4>1, <2>2, <2>3
    <3>2. CASE a \in D
      <4>1. c = files[a].log
        BY <3>2, <1>1, <1>6, <2>4
      <4>2. PICK w, s : Indexed(Active, files[a], w, s)
        BY <1>1 DEF SegOK
      <4>3. acked' - a \in 0 .. Len(w)
        <5>1. Active.idxSize = Len(w) /\ Active.idxSize \in Nat /\ a \in Nat
          BY <4>2, <1>1 DEF Indexed
        <5> QED
          BY <5>1, <1>1, <2>1, <2>4
      <4>4. /\ EndIn(Active, files[a], acked' - a) \in Nat
            /\ EndIn(Active, files[a], acked' - a) <= Len(files[a].log)
        <5>1. /\ EndIn(Active, files[a], acked' - a) = s[acked' - a + 1]
              /\ s[acked' - a + 1] \in Nat /\ s[acked' - a + 1] <= Active.size
              /\ Active.size <= Len(files[a].log) /\ Active.size \in Nat
          BY <4>2, <4>3, EndFacts
        <5>2. Len(files[a].log) \in Nat
          BY <1>1 DEF FileOK
        <5> QED
          BY <5>1, <5>2
      <4> QED
        BY <4>1, <4>4, <2>2, <2>3 DEF Agree
    <3> QED
      BY <3>1, <3>2
  <2> QED
    BY <1>2, <2>1, <2>4 DEF AckedOK
<1>10. TailOK(Active', fs[a].log, nextOffset)
  BY <1>1, <1>2, <1>6
<1> QED
  BY <1>2, <1>7, <1>8, <1>9, <1>10

\* The fsync of one segment, written as SyncKeeps has it.
LEMMA SyncOne ==
  ASSUME WALInv
  PROVE  [files EXCEPT ![Active.base] = Synced(@)]
           = [b \in DOMAIN files |-> IF b \in {Active.base} THEN Synced(files[b]) ELSE files[b]]
<1>1. files = [b \in DOMAIN files |-> files[b]]
  BY DEF WALInv, Good
<1> QED
  BY <1>1

\* When no file changes, none is synced.
LEMMA SyncNone ==
  ASSUME WALInv, files' = files, segments' = segments, nextOffset' = nextOffset, acked' = acked
  PROVE  /\ Good(segments', files', nextOffset')
         /\ TailOK(Active', files'[Active'.base].log, nextOffset')
         /\ OrphanOK' /\ AckedOK'
<1> PICK D : D = {}
  OBVIOUS
<1>1. files = [b \in DOMAIN files |-> files[b]]
  BY DEF WALInv, Good
<1>2. files' = [b \in DOMAIN files |-> IF b \in D THEN Synced(files[b]) ELSE files[b]]
  BY <1>1
<1> QED
  BY <1>2, SyncKeeps

\* Append's end keeps the invariant.
LEMMA AppendSyncKeeps ==
  ASSUME WALInv, AppendSync
  PROVE  WALInv'
<1> USE DEF AppendSync
<1>1. Active' = Active
  BY DEF Active
<1>2. ControlOK'
  BY <1>1 DEF WALInv, ControlOK
<1>3. CASE files' = [files EXCEPT ![Active.base] = Synced(@)]
  <2>1. Active.base \in {Active.base} /\ acked' \in {acked, nextOffset}
    OBVIOUS
  <2> QED
    BY <1>2, <1>3, <2>1, SyncOne, SyncKeeps DEF WALInv
<1>4. CASE files' = files /\ acked' = acked
  BY <1>2, <1>4, SyncNone DEF WALInv
<1> QED
  BY <1>3, <1>4

\* So do the flush loop and Close.
LEMMA FlushKeeps ==
  ASSUME WALInv, Flush \/ Close
  PROVE  WALInv'
<1>1. Active' = Active
  BY DEF Active, Flush, Close
<1>2. ControlOK'
  BY <1>1 DEF WALInv, ControlOK, Flush, Close
<1>3. CASE Flush
  BY <1>2, <1>3, SyncOne, SyncKeeps DEF WALInv, Flush
<1>4. CASE Close
  BY <1>2, <1>4, SyncKeeps DEF WALInv, Close
<1> QED
  BY <1>3, <1>4

\* Append up to its writes: it rolls, or fails to, or goes on.
LEMMA AppendBeginKeeps ==
  ASSUME WALInv, NEW v \in Values, AppendBegin(v)
  PROVE  WALInv'
<1> USE DEF WALInv
<1> PICK a : a = Active.base
  OBVIOUS
<1>1. /\ Active \in [base: Nat, size: Nat, idxSize: Nat] /\ a \in DOMAIN files
      /\ SegOK(Active, files[a]) /\ FileOK(a, files[a])
      /\ a + Active.idxSize = nextOffset /\ nextOffset \in Nat
  BY ActiveFacts
<1>2. /\ pc = "ready" /\ ~closed /\ appends < MaxAppends /\ appends' = appends + 1
      /\ UNCHANGED <<nextOffset, sync, closed, restarts, acked>>
  BY DEF AppendBegin
<1>3. CASE Active.size < MaxSegment /\ pc' = "write" /\ value' = v /\ UNCHANGED <<files, segments>>
  <2>1. Active' = Active /\ Bases' = Bases /\ Extra' = Extra
    BY <1>2, <1>3 DEF Active, Bases, Extra
  <2>2. OrphanOK' /\ AckedOK'
    BY <1>2, <1>3, <2>1 DEF OrphanOK, AckedOK
  <2>3. ControlOK'
    BY <1>2, <1>3, <2>1, WalConstantsOK DEF ControlOK
  <2> QED
    BY <1>2, <1>3, <2>1, <2>2, <2>3
<1>4. CASE /\ Active.size >= MaxSegment /\ files' = Rolled
           /\ segments' = Append(segments, Segment(nextOffset, NoFile))
           /\ pc' = "write" /\ value' = v
  <2>1. PICK segs : segs = Append(segments, Extra)
    OBVIOUS
  <2>2. segments' = segs
    BY <1>4, <2>1 DEF Extra
  <2>3. /\ Good(segs, Rolled, nextOffset) /\ DOMAIN Rolled = Bases \cup {nextOffset}
        /\ Rolled[nextOffset] = NoFile
    BY <1>4, <2>1, RolledFacts
  <2>4. PICK n \in Nat : n = Len(segments) /\ n >= 1
    BY LastFacts
  <2>5. /\ Extra = [base |-> nextOffset, size |-> 0, idxSize |-> 0]
        /\ NoFile.log = <<>> /\ NoMagic(<<>>, 0)
    BY <1>1, EmptySegment DEF Extra
  <2>6. /\ Len(segs) = n + 1 /\ segs[n + 1] = Extra
        /\ \A i \in 1 .. n : segs[i] = segments[i]
    BY <2>1, <2>4 DEF Good
  <2>7. Active' = Extra
    BY <2>2, <2>6 DEF Active
  <2>8. Bases' = Bases \cup {nextOffset}
    <3>1. Bases' = {segs[i].base : i \in 1 .. n + 1}
      BY <2>2, <2>6 DEF Bases
    <3>2. Bases = {segments[i].base : i \in 1 .. n}
      BY <2>4 DEF Bases
    <3>3. Extra.base = nextOffset
      BY <2>5
    <3>4. ASSUME NEW x \in {segs[i].base : i \in 1 .. n + 1}
          PROVE  x \in Bases \cup {nextOffset}
      <4>1. PICK i \in 1 .. n + 1 : x = segs[i].base
        OBVIOUS
      <4>2. i \in 1 .. n \/ i = n + 1
        OBVIOUS
      <4> QED
        BY <4>1, <4>2, <3>2, <3>3, <2>6
    <3>5. ASSUME NEW x \in Bases
          PROVE  x \in {segs[i].base : i \in 1 .. n + 1}
      <4>1. PICK i \in 1 .. n : x = segments[i].base
        BY <3>2
      <4>2. i \in 1 .. n + 1 /\ x = segs[i].base
        BY <4>1, <2>6
      <4> QED
        BY <4>2
    <3>6. n + 1 \in 1 .. n + 1 /\ segs[n + 1].base = nextOffset
      BY <3>3, <2>6
    <3> QED
      BY <3>1, <3>4, <3>5, <3>6
  <2>9. Active'.base = nextOffset /\ Active'.size = 0
    BY <2>5, <2>7
  <2>10. TailOK(Active', files'[Active'.base].log, nextOffset')
    BY <1>4, <2>3, <2>5, <2>9 DEF TailOK
  <2>11. OrphanOK'
    BY <1>4, <2>3, <2>8 DEF OrphanOK
  <2>12. AckedOK'
    <3>1. acked' \in Nat /\ acked' <= nextOffset'
      BY <1>2 DEF AckedOK
    <3>2. ~(acked' > Active'.base)
      BY <3>1, <2>9, <1>1, <1>2
    <3> QED
      BY <3>1, <3>2 DEF AckedOK
  <2>13. ControlOK'
    BY <1>2, <1>4, <2>3, <2>9, WalConstantsOK DEF ControlOK
  <2> QED
    BY <1>2, <1>4, <2>2, <2>3, <2>10, <2>11, <2>12, <2>13
<1>5. CASE Active.size >= MaxSegment /\ UNCHANGED <<segments, pc, value>>
  <2>1. Active' = Active /\ Bases' = Bases /\ Extra' = Extra
    BY <1>2, <1>5 DEF Active, Bases, Extra
  <2>2. ControlOK'
    BY <1>2, <1>5, <2>1, WalConstantsOK DEF ControlOK
  <2>3. CASE files' = files
    BY <1>2, <1>5, <2>2, <2>3, SyncNone
  <2>4. CASE files' = [files EXCEPT ![a] = Synced(@)]
    BY <1>2, <1>5, <2>2, <2>4, SyncOne, SyncKeeps
  <2>5. CASE files' = Rolled
    <3>1. PICK R : R = Rolled
      OBVIOUS
    <3>2. /\ Good(segments, R, nextOffset) /\ Good(Append(segments, Extra), R, nextOffset)
          /\ DOMAIN R = Bases \cup {nextOffset} /\ R[nextOffset] = NoFile
          /\ R[a].log = files[a].log /\ R[a].idx = files[a].idx
          /\ R[a].disk = {files[a].log}
      BY <1>5, <3>1, RolledFacts
    <3>3. OrphanOK'
      BY <1>2, <1>5, <2>1, <2>5, <3>1, <3>2 DEF OrphanOK
    <3>4. AckedOK'
      <4>1. acked \in Nat /\ acked <= nextOffset
        BY DEF AckedOK
      <4>2. ASSUME acked > a, NEW c \in R[a].disk
            PROVE  Agree(c, R[a].log, EndIn(Active, R[a], acked - a))
        <5>1. Agree(files[a].log, files[a].log, EndIn(Active, files[a], acked - a))
          BY <4>2, <1>1 DEF AckedOK, FileOK
        <5>2. EndIn(Active, R[a], acked - a) = EndIn(Active, files[a], acked - a)
          BY <3>2 DEF EndIn
        <5> QED
          BY <5>1, <5>2, <3>2
      <4> QED
        BY <1>2, <2>1, <2>5, <3>1, <4>1, <4>2 DEF AckedOK
    <3>5. TailOK(Active', files'[Active'.base].log, nextOffset')
      BY <1>2, <2>1, <2>5, <3>1, <3>2
    <3> QED
      BY <1>2, <1>5, <2>2, <2>5, <3>1, <3>2, <3>3, <3>4, <3>5
  <2>6. files' \in {files, [files EXCEPT ![a] = Synced(@)], Rolled}
    BY <1>5, <1>1, <1>2 DEF AppendBegin
  <2> QED
    BY <2>3, <2>4, <2>5, <2>6
<1> QED
  BY <1>3, <1>4, <1>5 DEF AppendBegin

-----------------------------------------------------------------------------
(* Append: the writes *)

\* The content c has the first e cells of the file.
Begins(file, e, c) == c \in Seq(Cell) /\ Agree(c, file, e)

\* A write behind e that was cut short changed nothing, or left less than a header.
CutShort(file, e, c) == c = file \/ (Len(file) < e + Header /\ Len(c) < e + Header)

\* A write behind e that was not: the record of o.
InFull(c, e, o, v) == RecordAt(c, e, o, v) /\ NoMagic(c, e + Size(v))

\* What writing the record of o behind e makes of the files f.
Wrote(f, f2, e, o, v) ==
  /\ f2 \in [log: Seq(Cell), disk: SUBSET Seq(Cell), idx: Seq(Nat)]
  /\ f2.idx = f.idx /\ f2.log \in f2.disk /\ f.disk \subseteq f2.disk
  /\ Begins(f.log, e, f2.log)
  /\ CutShort(f.log, e, f2.log) \/ InFull(f2.log, e, o, v)
  /\ \A c \in f2.disk :
       \/ c \in f.disk
       \/ /\ Begins(f.log, e, c)
          /\ CutShort(f.log, e, c) \/ (InFull(c, e, o, v) /\ InFull(f2.log, e, o, v))

\* Where a write stops when no record is torn.
LEMMA StopsFacts ==
  ASSUME ~Torn, NEW file, NEW e, NEW o \in Nat, NEW v \in Values,
         NEW m \in Stops(file, e, Cells(o, v))
  PROVE  m \in Nat /\ (m = 0 \/ m = Size(v) \/ (m < Header /\ Len(file) < e + Header))
<1>1. Len(Cells(o, v)) = Size(v) /\ Size(v) \in Nat
  BY CellsFacts, SizeType
<1> QED
  BY <1>1 DEF Stops

\* The content of a file after m cells of a record are written.
LEMMA WriteStops ==
  ASSUME ~Torn, NEW file \in Seq(Cell), NEW e \in Nat, e <= Len(file),
         \A i \in e + Header + 1 .. Len(file) : file[i] # Magic,
         NEW o \in Nat, NEW v \in Values, NEW m \in Stops(file, e, Cells(o, v)),
         NEW c, c = Overwrite(file, e, SubSeq(Cells(o, v), 1, m))
  PROVE  /\ Begins(file, e, c)
         /\ m # Size(v) => CutShort(file, e, c)
         /\ m = Size(v) => InFull(c, e, o, v)
<1>1. m \in Nat /\ (m = 0 \/ m = Size(v) \/ (m < Header /\ Len(file) < e + Header))
  BY StopsFacts
<1>2. PICK r : r = Cells(o, v) /\ r \in Seq(Cell) /\ Len(r) = Size(v) /\ Size(v) \in Nat /\ Size(v) >= 4
  BY CellsFacts, SizeType
<1>3. CASE m = 0
  <2>1. SubSeq(r, 1, 0) \in Seq(Cell) /\ Len(SubSeq(r, 1, 0)) = 0
    BY <1>2, PrefixSeq
  <2>2. PICK p : p = SubSeq(r, 1, 0) /\ p \in Seq(Cell) /\ Len(p) = 0
    BY <2>1, Zenon
  <2>3. c = Overwrite(file, e, p)
    BY <1>2, <1>3, <2>2
  <2>4. c = file
    BY <2>2, <2>3, WriteNothing
  <2> QED
    BY <1>2, <1>3, <2>4 DEF Begins, Agree, CutShort
<1>4. CASE m = Size(v)
  <2>1. SubSeq(r, 1, m) = r
    <3>1. PICK x : x = SubSeq(r, 1, m)
      OBVIOUS
    <3>2. x \in Seq(Cell) /\ Len(x) = m /\ \A i \in 1 .. m : x[i] = r[i]
      BY <1>1, <1>2, <1>4, <3>1, PrefixSeq
    <3>3. r \in Seq(Cell) /\ Len(r) = m
      BY <1>2, <1>4
    <3>4. x = r
      BY ONLY <3>2, <3>3, SeqEqual
    <3> QED
      BY <3>1, <3>4
  <2>2. c = Overwrite(file, e, Cells(o, v))
    BY <1>2, <2>1
  <2>3. c \in Seq(Cell) /\ Agree(c, file, e) /\ RecordAt(c, e, o, v) /\ NoMagic(c, e + Size(v))
    BY <2>2, WriteWhole
  <2> QED
    BY <1>4, <2>3 DEF Begins, InFull
<1>5. CASE m < Header /\ Len(file) < e + Header
  <2>1. c \in Seq(Cell) /\ Agree(c, file, e) /\ Len(c) < e + Header
    BY <1>1, <1>5, WritePart
  <2>2. m # Size(v)
    BY <1>1, <1>2, <1>5 DEF Header
  <2> QED
    BY <1>5, <2>1, <2>2 DEF Begins, CutShort
<1> QED
  BY <1>1, <1>3, <1>4, <1>5

\* What WriteLog does.
LEMMA WroteLog ==
  ASSUME ~Torn, NEW b, NEW f, FileOK(b, f), Active.size \in Nat, Active.size <= Len(f.log),
         NEW o \in Nat, TailOK(Active, f.log, o), NEW v \in Values,
         NEW m \in Stops(f.log, Active.size, Cells(o, v)),
         NEW f2, f2 = WriteLog(f, Cells(o, v), m)
  PROVE  /\ Wrote(f, f2, Active.size, o, v)
         /\ m = Size(v) => InFull(f2.log, Active.size, o, v)
<1> PICK e \in Nat : e = Active.size
  OBVIOUS
<1> PICK r : r = Cells(o, v)
  OBVIOUS
<1>1. /\ f \in [log: Seq(Cell), disk: SUBSET Seq(Cell), idx: Seq(Nat)] /\ f.log \in f.disk
      /\ f.log \in Seq(Cell)
  BY DEF FileOK
<1>2. \A i \in e + Header + 1 .. Len(f.log) : f.log[i] # Magic
  BY <1>1, TailRest
<1> DEFINE After(k) == Overwrite(f.log, e, SubSeq(r, 1, k))
<1>3. ASSUME NEW k \in Stops(f.log, e, r)
      PROVE  /\ Begins(f.log, e, After(k))
             /\ k # Size(v) => CutShort(f.log, e, After(k))
             /\ k = Size(v) => InFull(After(k), e, o, v)
  <2>1. PICK c : c = After(k)
    OBVIOUS
  <2>2. c = Overwrite(f.log, e, SubSeq(Cells(o, v), 1, k)) /\ k \in Stops(f.log, e, Cells(o, v))
    BY <2>1
  <2>3. /\ Begins(f.log, e, c) /\ (k # Size(v) => CutShort(f.log, e, c))
        /\ (k = Size(v) => InFull(c, e, o, v))
    BY <1>1, <1>2, <2>2, WriteStops
  <2> QED
    BY <2>1, <2>3
<1> DEFINE more == {After(k) : k \in {k \in Stops(f.log, e, r) : k <= m}}
<1>4. m \in Stops(f.log, e, r) /\ m \in Nat
  BY StopsFacts
<1>5. f2 = [f EXCEPT !.log = After(m), !.disk = f.disk \cup more]
  BY DEF WriteLog
<1> HIDE DEF After
<1>6. After(m) \in more
  BY <1>4
<1>7. After(m) \in Seq(Cell) /\ \A c \in more : c \in Seq(Cell)
  BY <1>3, <1>4 DEF Begins
<1>8. /\ f2 \in [log: Seq(Cell), disk: SUBSET Seq(Cell), idx: Seq(Nat)]
      /\ f2.log = After(m) /\ f2.disk = f.disk \cup more /\ f2.idx = f.idx
  <2> PICK x, d : x = After(m) /\ d = f.disk \cup more
    OBVIOUS
  <2>1. f2 = [f EXCEPT !.log = x, !.disk = d] /\ x \in Seq(Cell) /\ d \in SUBSET Seq(Cell)
    BY <1>1, <1>5, <1>7
  <2>2. /\ f2 \in [log: Seq(Cell), disk: SUBSET Seq(Cell), idx: Seq(Nat)]
        /\ f2.log = x /\ f2.disk = d /\ f2.idx = f.idx
    BY ONLY <1>1, <2>1
  <2> QED
    BY <2>2
<1>9. ASSUME NEW c \in f2.disk, c \notin f.disk
      PROVE  /\ Begins(f.log, e, c)
             /\ CutShort(f.log, e, c) \/ (InFull(c, e, o, v) /\ InFull(f2.log, e, o, v))
  <2>1. c \in more
    BY <1>8, <1>9
  <2>2. PICK k \in Stops(f.log, e, r) : k <= m /\ c = After(k)
    BY <2>1
  <2>3. k = Size(v) => m = Size(v)
    <3>1. m \in 0 .. Len(r) /\ k \in 0 .. Len(r)
      BY <1>4 DEF Stops
    <3>2. Len(r) = Size(v) /\ Size(v) \in Nat
      BY CellsFacts, SizeType
    <3> QED
      BY <2>2, <3>1, <3>2
  <2> QED
    BY <1>3, <1>4, <1>8, <2>2, <2>3
<1>10. /\ Begins(f.log, e, f2.log)
       /\ CutShort(f.log, e, f2.log) \/ InFull(f2.log, e, o, v)
       /\ m = Size(v) => InFull(f2.log, e, o, v)
  BY <1>3, <1>4, <1>8
<1> QED
  BY <1>6, <1>8, <1>9, <1>10 DEF Wrote

\* What was written, or cut short, is a log.
LEMMA WrittenIsLog ==
  ASSUME NEW b \in Nat, NEW f, FileOK(b, f), NEW w, NEW s, Laid(f.log, b, w, s),
         NEW e, e = s[Len(w) + 1], NEW v \in Values,
         NEW c, Begins(f.log, e, c),
         CutShort(f.log, e, c) \/ InFull(c, e, b + Len(w), v)
  PROVE  IsLog(c, b)
<1> PICK n \in Nat : n = Len(w)
  BY DEF Laid
<1>1. f.log \in Seq(Cell) /\ c \in Seq(Cell) /\ Agree(c, f.log, e) /\ e \in Nat /\ f.log \in f.disk
  BY DEF FileOK, Begins, Laid
<1>2. Laid(c, b, w, s)
  BY <1>1, LaidStays
<1>3. CASE c = f.log
  BY <1>3, <1>1 DEF FileOK
<1>4. CASE Len(c) < e + Header
  <2>1. ~StartsAt(c, e)
    BY <1>1, <1>4, NoMagicNoStart
  <2> QED
    BY <1>2, <2>1 DEF IsLog
<1>5. CASE InFull(c, e, b + n, v)
  <2>1. RecordAt(c, e, b + n, v) /\ NoMagic(c, e + Size(v)) /\ e + Size(v) \in Nat
    BY <1>1, <1>5, SizeType DEF InFull
  <2>2. n = Len(w) /\ b \in Nat /\ v \in Values /\ e = s[Len(w) + 1] /\ RecordAt(c, e, b + Len(w), v)
    BY <2>1
  <2> PICK x, t : OneMore(c, b, w, s, v, x, t)
    BY ONLY <1>2, <2>2, LaidOneMore
  <2>3. Laid(c, b, x, t) /\ Len(x) = Len(w) + 1 /\ t[Len(w) + 2] = s[Len(w) + 1] + Size(v)
    BY DEF OneMore
  <2>4. ~StartsAt(c, t[Len(x) + 1])
    <3>1. Len(x) + 1 = n + 2
      BY <2>3
    <3> QED
      BY <1>1, <2>1, <2>3, <3>1, NoMagicNoStart
  <2> QED
    BY <2>3, <2>4 DEF IsLog
<1> QED
  BY <1>3, <1>4, <1>5 DEF CutShort

\* Agreement carries over.
LEMMA AgreeVia ==
  ASSUME NEW c, NEW d, NEW x, NEW i \in Nat, NEW j \in Nat, i <= j, Len(x) \in Nat,
         Agree(c, d, i), Agree(x, d, j)
  PROVE  Agree(c, x, i)
BY DEF Agree

\* What follows from a write, whether it succeeds or not.
LEMMA WroteFacts ==
  ASSUME WALInv, NEW a, a = Active.base, NEW f, f = files[a],
         NEW w, NEW s, Indexed(Active, f, w, s),
         NEW v \in Values, NEW f2, Wrote(f, f2, Active.size, nextOffset, v)
  PROVE  /\ FileOK(a, f2) /\ Indexed(Active, f2, w, s)
         /\ acked > a => \A c \in f2.disk : Agree(c, f2.log, EndIn(Active, f, acked - a))
<1> PICK e : e = Active.size
  OBVIOUS
<1>1. /\ Active \in [base: Nat, size: Nat, idxSize: Nat] /\ FileOK(a, f)
      /\ a + Active.idxSize = nextOffset /\ nextOffset \in Nat /\ a \in Nat
  BY ActiveFacts DEF WALInv
<1>2. /\ Laid(f.log, a, w, s) /\ e = s[Len(w) + 1] /\ Active.idxSize = Len(w) /\ w \in Seq(Values)
      /\ nextOffset = a + Len(w)
  BY <1>1 DEF Indexed, Laid
<1>3. /\ f2 \in [log: Seq(Cell), disk: SUBSET Seq(Cell), idx: Seq(Nat)]
      /\ f2.idx = f.idx /\ f2.log \in f2.disk
      /\ Begins(f.log, e, f2.log)
  BY DEF Wrote
<1>4. f.log \in Seq(Cell) /\ f2.log \in Seq(Cell) /\ Agree(f2.log, f.log, e)
  BY <1>1, <1>3 DEF FileOK, Begins
<1>5. ASSUME NEW c \in f2.disk
      PROVE  IsLog(c, a)
  <2>1. CASE c \in f.disk
    BY <1>1, <2>1 DEF FileOK
  <2>2. CASE c \notin f.disk
    <3>1. Begins(f.log, e, c) /\ (CutShort(f.log, e, c) \/ InFull(c, e, a + Len(w), v))
      BY <1>2, <2>2 DEF Wrote
    <3> QED
      BY <1>1, <1>2, <3>1, WrittenIsLog
  <2> QED
    BY <2>1, <2>2
<1>6. FileOK(a, f2)
  BY <1>3, <1>5 DEF FileOK
<1>7. Laid(f2.log, a, w, s)
  BY <1>2, <1>4, LaidStays
<1>8. Indexed(Active, f2, w, s)
  BY <1>2, <1>3, <1>7 DEF Indexed
<1>9. ASSUME acked > a, NEW c \in f2.disk
      PROVE  Agree(c, f2.log, EndIn(Active, f, acked - a))
  <2>1. acked \in Nat /\ acked <= nextOffset
    BY DEF WALInv, AckedOK
  <2>2. acked - a \in 0 .. Len(w)
    BY <1>1, <1>2, <1>9, <2>1
  <2> PICK i : i = EndIn(Active, f, acked - a)
    OBVIOUS
  <2>3. i \in Nat /\ i <= e /\ e \in Nat
    BY <2>2, EndFacts
  <2>4. Len(f2.log) \in Nat
    BY <1>4
  <2>5. CASE c \in f.disk
    <3>1. Agree(c, f.log, i)
      BY <1>9, <2>5 DEF WALInv, AckedOK
    <3> QED
      BY <1>4, <2>3, <2>4, <3>1, AgreeVia
  <2>6. CASE c \notin f.disk
    <3>1. Agree(c, f.log, e)
      BY <2>6 DEF Wrote, Begins
    <3>2. Agree(c, f.log, i)
      BY <2>3, <3>1 DEF Agree
    <3> QED
      BY <1>4, <2>3, <2>4, <3>2, AgreeVia
  <2> QED
    BY <2>5, <2>6
<1> QED
  BY <1>6, <1>8, <1>9

\* What WriteIndex does.
LEMMA WroteIndex ==
  ASSUME NEW f, f \in [log: Seq(Cell), disk: SUBSET Seq(Cell), idx: Seq(Nat)],
         NEW m, m = Len(f.idx), Active.idxSize = m, Active.size \in Nat,
         NEW g, g = WriteIndex(f)
  PROVE  /\ g \in [log: Seq(Cell), disk: SUBSET Seq(Cell), idx: Seq(Nat)]
         /\ g.log = f.log /\ g.disk = f.disk
         /\ Len(g.idx) = m + 1 /\ g.idx[m + 1] = Active.size
         /\ \A k \in 1 .. m : g.idx[k] = f.idx[k]
<1> PICK e \in Nat : e = Active.size
  OBVIOUS
<1>1. m \in Nat /\ f.idx \in Seq(Nat)
  OBVIOUS
<1>2. PICK c : c = <<e>> /\ c \in Seq(Nat) /\ Len(c) = 1 /\ c[1] = e
  <2>1. <<e>> \in Seq(Nat) /\ Len(<<e>>) = 1 /\ <<e>>[1] = e
    OBVIOUS
  <2> QED
    BY <2>1, Zenon
<1>3. PICK w : w = Overwrite(f.idx, m, c)
  OBVIOUS
<1>4. /\ w \in Seq(Nat) /\ Len(w) = m + 1
      /\ \A i \in 1 .. m : w[i] = f.idx[i]
      /\ w[m + 1] = e
  <2> PICK T, x : T = Nat /\ x = f.idx
    OBVIOUS
  <2>0. m \in Nat /\ m <= Len(x) /\ x \in Seq(T) /\ c \in Seq(T) /\ w = Overwrite(x, m, c)
    BY <1>1, <1>2, <1>3
  <2>1. /\ w \in Seq(T)
        /\ Len(w) = IF m + Len(c) <= Len(x) THEN Len(x) ELSE m + Len(c)
        /\ \A i \in 1 .. m : w[i] = x[i]
        /\ \A i \in 1 .. Len(c) : w[m + i] = c[i]
        /\ \A i \in m + Len(c) + 1 .. Len(x) : w[i] = x[i]
    <3>1. Overwritten(T, x, m, c, w)
      BY ONLY <2>0, OverwriteFacts
    <3> QED
      BY ONLY <3>1 DEF Overwritten
  <2>2. Len(w) = m + 1
    BY ONLY <2>1, <1>1, <1>2, m = Len(f.idx), x = f.idx
  <2>3. 1 \in 1 .. Len(c)
    BY <1>2
  <2> QED
    BY <2>1, <2>2, <2>3, <1>2
<1>5. g = [f EXCEPT !.idx = w]
  BY <1>2, <1>3 DEF WriteIndex
<1> QED
  BY <1>4, <1>5

\* Where Append is when it writes.
LEMMA WriteState ==
  ASSUME WALInv, AppendWrite
  PROVE  /\ value \in Values /\ value' = None /\ Active.size < MaxSegment
         /\ UNCHANGED <<sync, closed, appends, restarts, acked>>
         /\ DOMAIN files = Bases
<1>1. pc = "write" /\ value' = None /\ UNCHANGED <<sync, closed, appends, restarts, acked>>
  BY DEF AppendWrite
<1>2. value \in Values /\ Active.size < MaxSegment
  BY <1>1 DEF WALInv, ControlOK
<1>3. Active.size \in Nat
  BY ActiveFacts DEF WALInv
<1>4. DOMAIN files = Bases
  BY <1>2, <1>3, WalConstantsOK DEF WALInv, OrphanOK
<1> QED
  BY <1>1, <1>2, <1>4

\* A write fails: the log file becomes that of f2.
WriteFailed(f2) ==
  /\ Wrote(files[Active.base], f2, Active.size, nextOffset, value)
  /\ files' = [files EXCEPT ![Active.base] = f2]
  /\ pc' = "ready" /\ UNCHANGED <<segments, nextOffset>>

\* A write succeeds: the log file becomes that of f2, and with the index it is g.
WriteDone(f2, g) ==
  /\ Wrote(files[Active.base], f2, Active.size, nextOffset, value)
  /\ InFull(f2.log, Active.size, nextOffset, value)
  /\ g \in [log: Seq(Cell), disk: SUBSET Seq(Cell), idx: Seq(Nat)]
  /\ g.log = f2.log /\ g.disk = f2.disk
  /\ Len(g.idx) = Active.idxSize + 1 /\ g.idx[Active.idxSize + 1] = Active.size
  /\ \A k \in 1 .. Active.idxSize : g.idx[k] = f2.idx[k]
  /\ files' = [files EXCEPT ![Active.base] = g]
  /\ segments' = [segments EXCEPT ![Len(segments)] =
                    [base |-> Active.base, size |-> @.size + Size(value),
                     idxSize |-> @.idxSize + 1]]
  /\ nextOffset' = nextOffset + 1 /\ pc' = "sync"

\* Append's writes succeed or fail.
LEMMA AppendWriteCases ==
  ASSUME WALInv, AppendWrite, ~Torn
  PROVE  \E f2, g : WriteFailed(f2) \/ WriteDone(f2, g)
<1> PICK a, f, v : a = Active.base /\ f = files[a] /\ v = value
  OBVIOUS
<1> PICK r : r = Cells(nextOffset, v)
  OBVIOUS
<1>1. /\ Active \in [base: Nat, size: Nat, idxSize: Nat] /\ a \in DOMAIN files
      /\ SegOK(Active, f) /\ FileOK(a, f) /\ nextOffset \in Nat
  BY ActiveFacts DEF WALInv
<1>2. PICK w, s : Indexed(Active, f, w, s)
  BY <1>1 DEF SegOK
<1>3. /\ Active.size \in Nat /\ Active.size <= Len(f.log) /\ Len(f.idx) = Active.idxSize
      /\ Active.idxSize \in Nat
  <2>1. Len(w) \in 0 .. Len(w) /\ Len(f.idx) = Len(w) /\ Active.idxSize = Len(w)
    BY <1>2 DEF Indexed, Laid
  <2>2. Active.size \in Nat /\ Active.size <= Len(f.log)
    BY <1>2, <2>1, EndFacts
  <2>3. Active.idxSize \in Nat
    BY <1>1
  <2> QED
    BY ONLY <2>1, <2>2, <2>3
<1>4. TailOK(Active, f.log, nextOffset) /\ v \in Values
  BY WriteState DEF WALInv
<1>5. ASSUME NEW m \in Stops(f.log, Active.size, r)
      PROVE  /\ Wrote(f, WriteLog(f, r, m), Active.size, nextOffset, v)
             /\ m = Size(v) => InFull(WriteLog(f, r, m).log, Active.size, nextOffset, v)
  <2>1. PICK f2 : f2 = WriteLog(f, r, m)
    OBVIOUS
  <2>2. f2 = WriteLog(f, Cells(nextOffset, v), m) /\ m \in Stops(f.log, Active.size, Cells(nextOffset, v))
    BY <2>1
  <2>3. Wrote(f, f2, Active.size, nextOffset, v) /\ (m = Size(v) => InFull(f2.log, Active.size, nextOffset, v))
    BY <1>1, <1>3, <1>4, <2>2, WroteLog
  <2> QED
    BY <2>1, <2>3
<1>6. CASE /\ \E m \in Stops(f.log, Active.size, r) : files' = [files EXCEPT ![a] = WriteLog(@, r, m)]
           /\ pc' = "ready" /\ UNCHANGED <<segments, nextOffset>>
  <2>1. PICK m \in Stops(f.log, Active.size, r) : files' = [files EXCEPT ![a] = WriteLog(@, r, m)]
    BY <1>6
  <2>2. PICK f2 : f2 = WriteLog(f, r, m)
    OBVIOUS
  <2>3. files' = [files EXCEPT ![a] = f2] /\ Wrote(f, f2, Active.size, nextOffset, v)
    BY <1>5, <2>1, <2>2
  <2>4. WriteFailed(f2)
    BY <1>6, <2>3 DEF WriteFailed
  <2> QED
    BY <2>4
<1>7. CASE /\ files' = [files EXCEPT ![a] = WriteIndex(WriteLog(@, r, Len(r)))]
           /\ segments' = [segments EXCEPT ![Len(segments)] =
                             [base |-> a, size |-> @.size + Len(r), idxSize |-> @.idxSize + 1]]
           /\ nextOffset' = nextOffset + 1 /\ pc' = "sync"
  <2>1. Len(r) = Size(v) /\ Len(r) \in Nat
    BY <1>1, <1>4, CellsFacts, SizeType
  <2>2. Len(r) \in Stops(f.log, Active.size, r)
    BY <2>1 DEF Stops
  <2>3. PICK f2 : f2 = WriteLog(f, r, Len(r))
    OBVIOUS
  <2>4. Wrote(f, f2, Active.size, nextOffset, v) /\ InFull(f2.log, Active.size, nextOffset, v)
    BY <1>5, <2>1, <2>2, <2>3
  <2>5. PICK g : g = WriteIndex(f2)
    OBVIOUS
  <2>6. f2 \in [log: Seq(Cell), disk: SUBSET Seq(Cell), idx: Seq(Nat)] /\ f2.idx = f.idx
    BY <2>4 DEF Wrote
  <2>7. /\ g \in [log: Seq(Cell), disk: SUBSET Seq(Cell), idx: Seq(Nat)]
        /\ g.log = f2.log /\ g.disk = f2.disk
        /\ Len(g.idx) = Active.idxSize + 1 /\ g.idx[Active.idxSize + 1] = Active.size
        /\ \A k \in 1 .. Active.idxSize : g.idx[k] = f2.idx[k]
    <3>1. PICK m : m = Active.idxSize
      OBVIOUS
    <3>2. m = Len(f2.idx) /\ Active.idxSize = m /\ Active.size \in Nat
      BY <1>3, <2>6, <3>1
    <3>3. /\ g \in [log: Seq(Cell), disk: SUBSET Seq(Cell), idx: Seq(Nat)]
          /\ g.log = f2.log /\ g.disk = f2.disk
          /\ Len(g.idx) = m + 1 /\ g.idx[m + 1] = Active.size
          /\ \A k \in 1 .. m : g.idx[k] = f2.idx[k]
      BY ONLY <2>5, <2>6, <3>2, WroteIndex, SMTT(30)
    <3> QED
      BY <3>1, <3>3
  <2>8. files' = [files EXCEPT ![a] = g]
    BY <1>7, <2>3, <2>5
  <2>9. segments' = [segments EXCEPT ![Len(segments)] =
                       [base |-> Active.base, size |-> @.size + Size(value), idxSize |-> @.idxSize + 1]]
    BY <1>7, <2>1
  <2>10. WriteDone(f2, g)
    BY <1>7, <2>4, <2>7, <2>8, <2>9 DEF WriteDone
  <2> QED
    BY <2>10
<1> QED
  BY <1>6, <1>7 DEF AppendWrite

\* A write that fails leaves the records as they are.
LEMMA WriteFails ==
  ASSUME WALInv, AppendWrite, NEW f2, WriteFailed(f2)
  PROVE  WALInv'
<1> PICK a, f, v, fs : a = Active.base /\ f = files[a] /\ v = value /\ fs = files'
  OBVIOUS
<1> PICK n : n = Len(segments)
  OBVIOUS
<1>1. /\ Active \in [base: Nat, size: Nat, idxSize: Nat] /\ a \in DOMAIN files
      /\ SegOK(Active, f) /\ FileOK(a, f) /\ nextOffset \in Nat /\ a + Active.idxSize = nextOffset
      /\ Good(segments, files, nextOffset)
  BY ActiveFacts DEF WALInv
<1>2. PICK w, s : Indexed(Active, f, w, s)
  BY <1>1 DEF SegOK
<1>3. /\ v \in Values /\ value' = None /\ Active.size < MaxSegment
      /\ UNCHANGED <<sync, closed, appends, restarts, acked>> /\ DOMAIN files = Bases
  BY WriteState
<1>4. /\ Wrote(f, f2, Active.size, nextOffset, v) /\ fs = [files EXCEPT ![a] = f2]
      /\ pc' = "ready" /\ UNCHANGED <<segments, nextOffset>>
  BY DEF WriteFailed
<1>5. /\ FileOK(a, f2) /\ Indexed(Active, f2, w, s)
      /\ acked > a => \A c \in f2.disk : Agree(c, f2.log, EndIn(Active, f, acked - a))
  BY <1>2, <1>3, <1>4, WroteFacts
<1>6. Active' = Active /\ Bases' = Bases /\ n \in Nat /\ n >= 1
  BY <1>1, <1>4, LastFacts DEF Active, Bases
<1>7. RewritesLast(segments, n, a, f2, segments, nextOffset)
  <2>1. SegOK(Active, f2)
    BY <1>5 DEF SegOK
  <2> QED
    BY <1>1, <1>5, <2>1 DEF RewritesLast, Active, Good
<1>8. Good(segments, fs, nextOffset)
  BY ONLY <1>1, <1>4, <1>7, GoodLast
<1>9. fs[a] = f2 /\ DOMAIN fs = DOMAIN files
  BY <1>1, <1>4
<1>10. TailOK(Active, f2.log, nextOffset)
  <2>1. CASE CutShort(f.log, Active.size, f2.log)
    <3>1. f2.log = f.log \/ Len(f2.log) < Active.size + Header
      BY <2>1 DEF CutShort
    <3> QED
      BY <3>1 DEF WALInv, TailOK
  <2>2. CASE InFull(f2.log, Active.size, nextOffset, v)
    BY <1>3, <2>2 DEF InFull, TailOK, Leftover
  <2> QED
    BY <1>4, <2>1, <2>2 DEF Wrote
<1>11. OrphanOK'
  BY <1>3, <1>6, <1>9 DEF OrphanOK
<1>12. AckedOK'
  <2>1. EndIn(Active, f2, acked - a) = EndIn(Active, f, acked - a)
    BY <1>4 DEF EndIn, Wrote
  <2> QED
    BY <1>3, <1>4, <1>5, <1>6, <1>9, <2>1 DEF AckedOK, WALInv
<1>13. ControlOK'
  BY <1>3, <1>4 DEF WALInv, ControlOK
<1> QED
  BY <1>4, <1>6, <1>8, <1>9, <1>10, <1>11, <1>12, <1>13 DEF WALInv

\* A write that succeeds adds the record to the segment.
LEMMA WriteSucceeds ==
  ASSUME WALInv, AppendWrite, NEW f2, NEW g, WriteDone(f2, g)
  PROVE  WALInv'
<1> PICK a, f, v, fs, segs : a = Active.base /\ f = files[a] /\ v = value /\ fs = files' /\ segs = segments'
  OBVIOUS
<1> PICK n, e, next, z : n = Len(segments) /\ e = Active.size /\ next = nextOffset /\ z = Size(v)
  OBVIOUS
<1>1. /\ Active \in [base: Nat, size: Nat, idxSize: Nat] /\ a \in DOMAIN files
      /\ SegOK(Active, f) /\ FileOK(a, f) /\ next \in Nat /\ a + Active.idxSize = next
      /\ Good(segments, files, next)
  BY ActiveFacts DEF WALInv
<1>2. PICK w, s : Indexed(Active, f, w, s)
  BY <1>1 DEF SegOK
<1>3. /\ v \in Values /\ value' = None /\ Active.size < MaxSegment
      /\ UNCHANGED <<sync, closed, appends, restarts, acked>> /\ DOMAIN files = Bases
  BY WriteState
<1>4. /\ Wrote(f, f2, e, next, v) /\ InFull(f2.log, e, next, v)
      /\ g \in [log: Seq(Cell), disk: SUBSET Seq(Cell), idx: Seq(Nat)]
      /\ g.log = f2.log /\ g.disk = f2.disk
      /\ Len(g.idx) = Active.idxSize + 1 /\ g.idx[Active.idxSize + 1] = e
      /\ \A k \in 1 .. Active.idxSize : g.idx[k] = f2.idx[k]
      /\ fs = [files EXCEPT ![a] = g]
  BY DEF WriteDone
<1>5. /\ segs = [segments EXCEPT ![n] =
                    [base |-> a, size |-> @.size + z, idxSize |-> @.idxSize + 1]]
      /\ nextOffset' = next + 1 /\ pc' = "sync"
  BY DEF WriteDone
<1>6. /\ FileOK(a, f2) /\ Indexed(Active, f2, w, s)
      /\ acked > a => \A c \in f2.disk : Agree(c, f2.log, EndIn(Active, f, acked - a))
  <2>1. /\ WALInv /\ a = Active.base /\ f = files[a] /\ Indexed(Active, f, w, s)
        /\ v \in Values /\ Wrote(f, f2, Active.size, nextOffset, v)
    BY <1>2, <1>3, <1>4
  <2> QED
    BY ONLY <2>1, WroteFacts
<1>7. FileOK(a, g)
  <2>1. f2.log \in f2.disk /\ \A c \in f2.disk : IsLog(c, a)
    BY <1>6 DEF FileOK
  <2> QED
    BY <1>4, <2>1 DEF FileOK
<1>8. n \in Nat /\ n >= 1 /\ z \in Nat /\ e \in Nat /\ a \in Nat /\ Active.idxSize \in Nat
  BY <1>1, <1>3, LastFacts, SizeType
<1> PICK m \in Nat : m = Active.idxSize
  BY <1>8
<1>9. PICK h : h = [base |-> a, size |-> e + z, idxSize |-> m + 1]
  OBVIOUS
<1>10. /\ segs = [segments EXCEPT ![n] = h]
       /\ segs \in Seq([base: Nat, size: Nat, idxSize: Nat]) /\ Len(segs) = n
       /\ \A i \in 1 .. n : i # n => segs[i] = segments[i]
       /\ segs[n] = h
  <2>1. h \in [base: Nat, size: Nat, idxSize: Nat]
    BY <1>8, <1>9
  <2>2. segments \in Seq([base: Nat, size: Nat, idxSize: Nat]) /\ n \in 1 .. Len(segments)
    BY <1>1, <1>8 DEF Good
  <2>3. segs = [segments EXCEPT ![n] = h]
    BY <1>5, <1>9 DEF Active
  <2> HIDE DEF Active
  <2> QED
    BY ONLY <2>1, <2>2, <2>3, n = Len(segments)
<1>11. Active' = h
  BY <1>10 DEF Active
<1>12. PICK x, t : OneMore(f2.log, a, w, s, v, x, t)
  <2>1. Laid(f2.log, a, w, s) /\ e = s[Len(w) + 1] /\ next = a + Len(w)
    BY <1>1, <1>6 DEF Indexed
  <2>2. RecordAt(f2.log, e, next, v) /\ a \in Nat /\ v \in Values
    BY <1>3, <1>4, <1>8 DEF InFull
  <2> QED
    BY ONLY <2>1, <2>2, LaidOneMore
<1>13. Indexed(h, g, x, t)
  <2>1. /\ Laid(f2.log, a, x, t) /\ Len(x) = Len(w) + 1 /\ t[Len(w) + 2] = s[Len(w) + 1] + z
        /\ \A k \in 1 .. Len(w) + 1 : t[k] = s[k]
    BY <1>12 DEF OneMore
  <2>2. /\ m = Len(w) /\ e = s[m + 1]
        /\ \A k \in 1 .. m : f2.idx[k] = s[k]
    BY <1>6 DEF Indexed
  <2>3. /\ Laid(g.log, a, x, t) /\ Len(x) = m + 1 /\ t[m + 2] = e + z
        /\ \A k \in 1 .. m + 1 : t[k] = s[k]
    BY <1>4, <2>1, <2>2
  <2>4. \A k \in 1 .. Len(x) : g.idx[k] = t[k]
    <3> SUFFICES ASSUME NEW k \in 1 .. m + 1
                 PROVE  g.idx[k] = s[k]
      BY <2>3
    <3>1. CASE k = m + 1
      BY <1>4, <2>2, <3>1
    <3>2. CASE k # m + 1
      <4>1. k \in 1 .. m
        BY <3>2
      <4> QED
        BY <1>4, <2>2, <4>1
    <3> QED
      BY <3>1, <3>2
  <2>5. Len(g.idx) = Len(x) /\ g.idx \in Seq(Nat)
    BY <1>4, <2>3
  <2>6. m + 1 + 1 = m + 2
    OBVIOUS
  <2> QED
    BY <1>9, <2>3, <2>4, <2>5, <2>6 DEF Indexed
<1>14. RewritesLast(segments, n, a, g, segs, next + 1)
  <2>1. SegOK(h, g)
    BY <1>13 DEF SegOK
  <2>2. h.base = a /\ a + h.idxSize = next + 1
    <3>1. h.base = a /\ h.idxSize = m + 1
      BY ONLY <1>9
    <3>2. a + m = next
      BY <1>1
    <3> QED
      BY ONLY <3>1, <3>2, <1>8, m \in Nat
  <2> QED
    BY <1>7, <1>10, <2>1, <2>2 DEF RewritesLast, Active
<1>15. Good(segs, fs, next + 1)
  BY ONLY <1>1, <1>4, <1>14, GoodLast
<1>16. fs[a] = g /\ DOMAIN fs = DOMAIN files
  BY <1>1, <1>4
<1>17. TailOK(h, g.log, next + 1)
  BY <1>4, <1>9 DEF InFull, TailOK
<1>18. Bases' = Bases
  <2>1. \A i \in 1 .. n : segs[i].base = segments[i].base
    BY <1>9, <1>10 DEF Active
  <2>2. Bases' = {segs[i].base : i \in 1 .. n}
    BY <1>10 DEF Bases
  <2>3. Bases = {segments[i].base : i \in 1 .. n}
    BY DEF Bases
  <2> QED
    BY ONLY <2>1, <2>2, <2>3
<1>19. OrphanOK'
  BY <1>3, <1>16, <1>18 DEF OrphanOK
<1>20. AckedOK'
  <2>0. acked' = acked /\ acked \in Nat /\ acked <= next
    BY <1>3 DEF WALInv, AckedOK
  <2>1. ASSUME acked > a, NEW c \in g.disk
        PROVE  Agree(c, g.log, EndIn(h, g, acked - a))
    <3>1. acked - a \in 0 .. m
      BY <1>1, <1>8, <2>0, <2>1
    <3>2. EndIn(Active, f, acked - a) = EndIn(h, g, acked - a)
      <4>1. f2.idx = f.idx
        BY <1>4 DEF Wrote
      <4>2. CASE acked - a < m
        <5>1. acked - a + 1 \in 1 .. m /\ acked - a < m + 1
          BY <3>1, <4>2
        <5>2. g.idx[acked - a + 1] = f.idx[acked - a + 1]
          BY <1>4, <4>1, <5>1
        <5>3. EndIn(Active, f, acked - a) = f.idx[acked - a + 1]
          BY <4>2 DEF EndIn
        <5>4. EndIn(h, g, acked - a) = g.idx[acked - a + 1]
          BY <1>9, <5>1 DEF EndIn
        <5> QED
          BY <5>2, <5>3, <5>4
      <4>3. CASE acked - a = m
        BY <1>4, <1>9, <3>1, <4>3 DEF EndIn
      <4> QED
        BY <3>1, <4>2, <4>3
    <3> QED
      BY <1>4, <1>6, <2>1, <3>2
  <2>2. Active'.base = a /\ files'[Active'.base] = g
    BY <1>9, <1>11, <1>16
  <2> QED
    BY <1>5, <1>8, <1>11, <1>1, <2>0, <2>1, <2>2 DEF AckedOK
<1>21. ControlOK'
  BY <1>1, <1>3, <1>5 DEF WALInv, ControlOK
<1> QED
  BY <1>5, <1>9, <1>11, <1>15, <1>16, <1>17, <1>19, <1>20, <1>21 DEF WALInv

\* Append's writes keep the invariant.
LEMMA AppendWriteKeeps ==
  ASSUME WALInv, AppendWrite, ~Torn
  PROVE  WALInv'
BY AppendWriteCases, WriteFails, WriteSucceeds

-----------------------------------------------------------------------------
(* Recovery *)

\* What NewWAL may find of the files f.
LeftFile(f, d) ==
  /\ d \in [log: Seq(Cell), disk: SUBSET Seq(Cell), idx: Seq(Nat)]
  /\ d.log \in f.disk /\ d.log \in d.disk /\ d.disk \subseteq f.disk

\* The files d of a segment at b, with the records w at s, are r after recovery.
RecoveredAs(d, r, b, w, s) ==
  /\ Laid(d.log, b, w, s) /\ ~StartsAt(d.log, s[Len(w) + 1])
  /\ FileOK(b, r) /\ Indexed(Segment(b, r), r, w, s)
  /\ Len(r.log) = s[Len(w) + 1] /\ Agree(r.log, d.log, s[Len(w) + 1])
  /\ r.disk = d.disk \cup {r.log}

\* What truncation leaves of a log.
LEMMA TruncatedFacts ==
  ASSUME NEW file \in Seq(Cell), NEW b, NEW w, NEW s, Laid(file, b, w, s),
         ~StartsAt(file, s[Len(w) + 1]), NEW e, e = s[Len(w) + 1], NEW cut, cut = Truncated(file)
  PROVE  /\ cut \in Seq(Cell) /\ Len(cut) = e /\ Agree(cut, file, e)
         /\ Laid(cut, b, w, s) /\ ~StartsAt(cut, e)
<1>1. ScanEnd(file) = e
  BY ScanFinds
<1>2. e \in Nat /\ e <= Len(file) /\ Len(file) \in Nat
  <2>1. Len(w) \in Nat /\ Len(w) + 1 \in 1 .. Len(s) /\ s \in Seq(Nat)
    BY DEF Laid
  <2> QED
    BY <2>1 DEF Laid
<1>0. file \in Seq(Cell) /\ Laid(file, b, w, s) /\ e = s[Len(w) + 1] /\ ~StartsAt(file, e)
  OBVIOUS
<1>3. CASE e < Len(file)
  <2>1. cut = SubSeq(file, 1, e)
    BY <1>1, <1>3 DEF Truncated
  <2>2. /\ SubSeq(file, 1, e) \in Seq(Cell) /\ Len(SubSeq(file, 1, e)) = e
        /\ \A i \in 1 .. e : SubSeq(file, 1, e)[i] = file[i]
    BY <1>2, PrefixSeq
  <2>3. cut \in Seq(Cell) /\ Len(cut) = e /\ \A i \in 1 .. e : cut[i] = file[i]
    BY <2>1, <2>2, Zenon
  <2>4. Agree(cut, file, e)
    BY <1>2, <2>3 DEF Agree
  <2>5. Laid(cut, b, w, s)
    BY <2>3, <2>4, LaidStays
  <2>6. ~StartsAt(cut, e)
    BY <1>2, <2>3 DEF StartsAt, Header
  <2> QED
    BY <2>3, <2>4, <2>5, <2>6
<1>4. CASE e = Len(file)
  <2>1. cut = file
    BY <1>1, <1>4 DEF Truncated
  <2> QED
    BY <2>1, <1>2, <1>4 DEF Agree
<1> QED
  BY <1>2, <1>3, <1>4

\* Recovery keeps the records it finds, and the index says where they are.
LEMMA RecoveredFile ==
  ASSUME NEW b \in Nat, NEW f, FileOK(b, f), NEW d, LeftFile(f, d), NEW r, r = Recovered(d)
  PROVE  \E w, s : RecoveredAs(d, r, b, w, s)
<1>1. /\ d \in [log: Seq(Cell), disk: SUBSET Seq(Cell), idx: Seq(Nat)]
      /\ d.log \in f.disk /\ d.log \in d.disk /\ d.disk \subseteq f.disk /\ d.log \in Seq(Cell)
  BY DEF LeftFile
<1>2. \A c \in f.disk : IsLog(c, b)
  BY DEF FileOK
<1>3. PICK w, s : Laid(d.log, b, w, s) /\ ~StartsAt(d.log, s[Len(w) + 1])
  BY <1>1, <1>2 DEF IsLog
<1> PICK cut, at, e : cut = Truncated(d.log) /\ at = Positions(d.log) /\ e = s[Len(w) + 1]
  OBVIOUS
<1>4. /\ cut \in Seq(Cell) /\ Len(cut) = e /\ Agree(cut, d.log, e)
      /\ Laid(cut, b, w, s) /\ ~StartsAt(cut, e)
  BY <1>1, <1>3, TruncatedFacts
<1>5. at = SubSeq(s, 1, Len(w))
  BY <1>1, <1>3, ScanFinds
<1>6. Len(w) \in Nat /\ s \in Seq(Nat) /\ Len(s) = Len(w) + 1
  BY <1>3 DEF Laid
<1>7. at \in Seq(Nat) /\ Len(at) = Len(w) /\ \A k \in 1 .. Len(w) : at[k] = s[k]
  <2>1. PICK m \in Nat : m = Len(w) /\ m <= Len(s)
    BY <1>6
  <2>2. /\ SubSeq(s, 1, m) \in Seq(Nat) /\ Len(SubSeq(s, 1, m)) = m
        /\ \A k \in 1 .. m : SubSeq(s, 1, m)[k] = s[k]
    BY <1>6, <2>1, PrefixSeq
  <2> QED
    BY <1>5, <2>1, <2>2
<1>8. r = [log |-> cut, disk |-> d.disk \cup {cut}, idx |-> at]
  BY DEF Recovered, VerifiedIndex
<1>9. r.log = cut /\ r.disk = d.disk \cup {cut} /\ r.idx = at
  BY <1>8
<1>10. r \in [log: Seq(Cell), disk: SUBSET Seq(Cell), idx: Seq(Nat)]
  <2>1. d.disk \cup {cut} \in SUBSET Seq(Cell)
    BY <1>1, <1>4
  <2> QED
    BY <1>4, <1>7, <1>8, <2>1
<1>11. FileOK(b, r)
  <2>1. IsLog(cut, b)
    BY <1>4 DEF IsLog
  <2>2. \A c \in r.disk : IsLog(c, b)
    BY <1>1, <1>2, <1>9, <2>1
  <2> QED
    BY <1>9, <1>10, <2>2 DEF FileOK
<1>12. Indexed(Segment(b, r), r, w, s)
  <2>1. /\ Segment(b, r).base = b /\ Segment(b, r).size = Len(r.log)
        /\ Segment(b, r).idxSize = Len(r.idx)
    BY DEF Segment
  <2> QED
    BY <2>1, <1>4, <1>7, <1>9 DEF Indexed
<1>13. RecoveredAs(d, r, b, w, s)
  BY <1>3, <1>4, <1>9, <1>11, <1>12 DEF RecoveredAs
<1> QED
  BY <1>13

\* The offset after the last of the records.
LEMMA NextFound ==
  ASSUME NEW b \in Nat, NEW d, NEW r, NEW w, NEW s, RecoveredAs(d, r, b, w, s)
  PROVE  RecoveredNext(b, r) = b + Len(w)
<1>1. Laid(r.log, b, w, s) /\ Len(r.idx) = Len(w) /\ \A k \in 1 .. Len(w) : r.idx[k] = s[k]
  BY DEF RecoveredAs, Indexed, Segment
<1>2. r.log \in Seq(Cell) /\ r.idx \in Seq(Nat) /\ w \in Seq(Values) /\ s \in Seq(Nat)
  BY <1>1 DEF RecoveredAs, FileOK, Laid
<1>3. CASE r.idx = <<>>
  <2>1. Len(w) = 0
    BY <1>1, <1>3
  <2> QED
    BY <1>3, <2>1 DEF RecoveredNext
<1>4. CASE r.idx # <<>>
  <2>1. PICK k \in Nat : k = Len(w) /\ k = Len(r.idx) /\ k >= 1
    BY <1>1, <1>2, <1>4
  <2>2. RecordAt(r.log, s[k], b + k - 1, w[k]) /\ w[k] \in Values /\ s[k] \in Nat
    <3>1. k \in 1 .. Len(w) /\ k \in 1 .. Len(s)
      BY <1>1, <2>1 DEF Laid
    <3>2. w[k] \in Values /\ s[k] \in Nat
      BY <1>2, <3>1
    <3>3. RecordAt(r.log, s[k], b + k - 1, w[k])
      BY <1>1, <3>1 DEF Laid
    <3> QED
      BY <3>2, <3>3
  <2>3. r.log[s[k] + 2] = [piece |-> 1, off |-> b + k - 1, val |-> w[k]]
    BY <1>2, <2>2, RecordStarts, SMTT(30)
  <2>4. OffsetIn(r.log[s[k] + 2]) = b + k - 1
    BY <2>3 DEF OffsetIn
  <2>5. r.idx[k] = s[k]
    BY <1>1, <2>1
  <2>6. RecoveredNext(b, r) = OffsetIn(r.log[s[k] + 2]) + 1
    BY <1>4, <2>1, <2>5 DEF RecoveredNext
  <2> QED
    BY <2>1, <2>4, <2>6
<1> QED
  BY <1>3, <1>4

\* A segment and its files as they were before recovery.
Carried(g, f, h) ==
  /\ Segment(g.base, h) = g /\ SegOK(g, h) /\ Settled(g, h) /\ FileOK(g.base, h)
  /\ Agree(h.log, f.log, g.size) /\ h.idx = f.idx

\* A segment that was settled has the same records after recovery.
LEMMA SettledKept ==
  ASSUME NEW g, g \in [base: Nat, size: Nat, idxSize: Nat], NEW f, FileOK(g.base, f), SegOK(g, f),
         Settled(g, f), NEW d, LeftFile(f, d), NEW h, h = Recovered(d)
  PROVE  Carried(g, f, h)
<1> PICK b, z : b = g.base /\ z = g.size
  OBVIOUS
<1>0. b \in Nat /\ z \in Nat
  OBVIOUS
<1>1. PICK x, t : Indexed(g, f, x, t)
  BY DEF SegOK
<1>2. PICK w, s : RecoveredAs(d, h, b, w, s)
  BY <1>0, RecoveredFile
<1>3. /\ Laid(d.log, b, w, s) /\ ~StartsAt(d.log, s[Len(w) + 1])
      /\ FileOK(b, h) /\ Indexed(Segment(b, h), h, w, s)
      /\ Len(h.log) = s[Len(w) + 1] /\ Agree(h.log, d.log, s[Len(w) + 1])
      /\ h.disk = d.disk \cup {h.log}
  BY <1>2 DEF RecoveredAs
<1>4. /\ d.log \in f.disk /\ d.disk \subseteq f.disk /\ d.log \in Seq(Cell) /\ f.log \in Seq(Cell)
      /\ h.log \in Seq(Cell)
  BY <1>3 DEF LeftFile, FileOK
<1>5. Agree(d.log, f.log, z) /\ ~StartsAt(d.log, z) /\ g.idxSize > 0
  BY <1>4 DEF Settled
<1>6. /\ Laid(f.log, b, x, t) /\ z = t[Len(x) + 1] /\ g.idxSize = Len(x) /\ Len(f.idx) = Len(x)
      /\ f.idx \in Seq(Nat) /\ \A k \in 1 .. Len(x) : f.idx[k] = t[k]
  BY <1>1 DEF Indexed
<1>7. Laid(d.log, b, x, t)
  BY <1>4, <1>5, <1>6, LaidStays
<1>8. Found(d.log) = x /\ Positions(d.log) = SubSeq(t, 1, Len(x)) /\ ScanEnd(d.log) = z
  BY <1>4, <1>5, <1>6, <1>7, ScanFinds
<1>9. Found(d.log) = w /\ Positions(d.log) = SubSeq(s, 1, Len(w)) /\ ScanEnd(d.log) = s[Len(w) + 1]
  BY <1>3, <1>4, ScanFinds
<1>10. x = w /\ z = s[Len(w) + 1]
  BY <1>8, <1>9
<1>11. /\ Len(h.idx) = Len(w) /\ h.idx \in Seq(Nat) /\ \A k \in 1 .. Len(w) : h.idx[k] = s[k]
       /\ Laid(h.log, b, w, s)
  BY <1>3 DEF Indexed, Segment
<1>12. \A k \in 1 .. Len(w) : s[k] = t[k]
  <2>1. PICK m \in Nat : m = Len(w) /\ m <= Len(s) /\ m <= Len(t) /\ s \in Seq(Nat) /\ t \in Seq(Nat)
    BY <1>6, <1>7, <1>10, <1>11 DEF Laid
  <2>2. SubSeq(s, 1, m) = SubSeq(t, 1, m)
    BY <1>8, <1>9, <1>10, <2>1
  <2>3. \A k \in 1 .. m : SubSeq(s, 1, m)[k] = s[k]
    BY <2>1, PrefixSeq
  <2>4. \A k \in 1 .. m : SubSeq(t, 1, m)[k] = t[k]
    BY <2>1, PrefixSeq
  <2> QED
    BY <2>1, <2>2, <2>3, <2>4
<1>13. h.idx = f.idx
  <2>1. PICK m \in Nat : m = Len(w)
    BY <1>11
  <2>2. /\ h.idx \in Seq(Nat) /\ f.idx \in Seq(Nat) /\ Len(h.idx) = m /\ Len(f.idx) = m
        /\ \A k \in 1 .. m : h.idx[k] = f.idx[k]
    BY <1>6, <1>10, <1>11, <1>12, <2>1
  <2> QED
    BY ONLY <2>2, SeqEqual
<1>14. Segment(b, h) = g
  <2>1. Segment(b, h) = [base |-> b, size |-> z, idxSize |-> Len(w)]
    BY <1>3, <1>10, <1>11 DEF Segment
  <2> QED
    BY <2>1, <1>6, <1>10
<1>15. SegOK(g, h)
  BY <1>3, <1>14 DEF SegOK
<1>16. Agree(h.log, d.log, z) /\ Len(h.log) = z
  BY <1>3, <1>10
<1>17. Agree(h.log, f.log, z)
  BY <1>5, <1>16 DEF Agree
<1>18. Settled(g, h)
  <2> SUFFICES ASSUME NEW c \in h.disk
               PROVE  Agree(c, h.log, z) /\ ~StartsAt(c, z)
    BY <1>5 DEF Settled
  <2>1. CASE c = h.log
    BY <1>0, <1>16, <2>1 DEF Agree, StartsAt, Header
  <2>2. CASE c \in f.disk
    <3>1. Agree(c, f.log, z) /\ ~StartsAt(c, z)
      BY <2>2 DEF Settled
    <3> QED
      BY <3>1, <1>17 DEF Agree
  <2> QED
    BY <1>3, <1>4, <2>1, <2>2
<1> QED
  BY <1>3, <1>13, <1>14, <1>15, <1>17, <1>18 DEF Carried

\* A segment and its files, after recovery.
Whole(g, h) ==
  g \in [base: Nat, size: Nat, idxSize: Nat] /\ FileOK(g.base, h) /\ SegOK(g, h)

\* What recovery does to segments: all but the last are as before.
RecoversTo(segs, n, b, fs, hs, segs2, g) ==
  /\ n = Len(segs) /\ b = segs[n].base
  /\ segs2 = [i \in 1 .. n |-> Segment(segs[i].base, hs[segs[i].base])]
  /\ \A i \in 1 .. n - 1 : Carried(segs[i], fs[segs[i].base], hs[segs[i].base])
  /\ g = Segment(b, hs[b]) /\ g.base = b /\ Whole(g, hs[b])

\* Segments that recovery has made are good, and every file is one's.
LEMMA GoodRecovered ==
  ASSUME NEW segs, NEW fs, NEW next, Good(segs, fs, next),
         NEW n, NEW b, NEW hs, NEW segs2, NEW g, RecoversTo(segs, n, b, fs, hs, segs2, g),
         hs = [c \in DOMAIN hs |-> hs[c]], DOMAIN hs = {segs[i].base : i \in 1 .. Len(segs)}
  PROVE  /\ Good(segs2, hs, g.base + g.idxSize) /\ Len(segs2) = n /\ segs2[n] = g
         /\ \A i \in 1 .. n : segs2[i].base = segs[i].base
         /\ \A i \in 1 .. n - 1 : segs2[i] = segs[i]
<1> DEFINE Shape == [base: Nat, size: Nat, idxSize: Nat]
<1>1. /\ n = Len(segs) /\ b = segs[n].base
      /\ segs2 = [i \in 1 .. n |-> Segment(segs[i].base, hs[segs[i].base])]
      /\ \A i \in 1 .. n - 1 : Carried(segs[i], fs[segs[i].base], hs[segs[i].base])
      /\ g = Segment(b, hs[b]) /\ g.base = b /\ Whole(g, hs[b])
  BY SMTT(30) DEF RecoversTo
<1>2. n \in Nat /\ n >= 1 /\ n \in 1 .. n
  BY <1>1, LastFacts, SMTT(30)
<1>3. ASSUME NEW i \in 1 .. n
      PROVE  segs[i] \in Shape
  <2>1. i \in 1 .. Len(segs)
    BY DEF RecoversTo
  <2> QED
    BY <2>1, SegmentFacts
<1>4. segs2[n] = g /\ g \in Shape /\ g.base \in Nat /\ g.idxSize \in Nat
  BY <1>1, <1>2, ZenonT(60) DEF Whole
<1>5. \A i \in 1 .. n : i # n => i \in 1 .. n - 1 /\ segs2[i] = segs[i]
  <2>1. \A i \in 1 .. n - 1 : i \in 1 .. n /\ Segment(segs[i].base, hs[segs[i].base]) = segs[i]
    <3>1. \A i \in 1 .. n - 1 : i \in 1 .. n
      BY <1>2
    <3>2. \A i \in 1 .. n - 1 : Segment(segs[i].base, hs[segs[i].base]) = segs[i]
      BY <1>1, ZenonT(60) DEF Carried
    <3> QED
      BY <3>1, <3>2
  <2> QED
    BY <1>1, <1>2, <2>1, SMTT(30)
<1>6. \A i \in 1 .. n : segs2[i].base = segs[i].base
  BY <1>1, <1>4, <1>5
<1>7. segs2 \in Seq(Shape) /\ Len(segs2) = n
  <2>1. \A i \in 1 .. n : segs2[i] \in Shape
    BY <1>3, <1>4, <1>5, SMTT(30)
  <2>2. segs2 = [i \in 1 .. n |-> segs2[i]]
    BY <1>1
  <2> HIDE DEF Shape
  <2>3. segs2 \in [1 .. n -> Shape]
    BY <2>1, <2>2
  <2> QED
    BY <2>3, <1>2
<1>8. ASSUME NEW i \in 1 .. n
      PROVE  Whole(segs2[i], hs[segs2[i].base])
  <2>1. CASE i = n
    <3>1. segs2[i] = g /\ segs2[i].base = b
      BY <2>1, <1>1, <1>4
    <3> QED
      BY <3>1, <1>1, ZenonT(60)
  <2>2. CASE i # n
    <3>1. i \in 1 .. n - 1 /\ segs2[i] = segs[i]
      BY <2>2, <1>5, SMTT(30)
    <3>2. Carried(segs[i], fs[segs[i].base], hs[segs[i].base])
      BY <3>1, <1>1, SMTT(30)
    <3> QED
      BY <3>1, <3>2, <1>3 DEF Carried, Whole
  <2> QED
    BY <2>1, <2>2
<1>9. segs2[1].base = 0 /\ \A i \in 1 .. n : segs2[i].base \in DOMAIN hs
  <2>1. 1 \in 1 .. n /\ segs[1].base = 0
    BY <1>2 DEF Good
  <2>2. \A i \in 1 .. n : segs[i].base \in DOMAIN hs
    BY <1>1
  <2> QED
    BY <2>1, <2>2, <1>6, Zenon
<1>10. \A c \in DOMAIN hs : c \in Nat /\ FileOK(c, hs[c])
  <2> SUFFICES ASSUME NEW i \in 1 .. n
               PROVE  segs[i].base \in Nat /\ FileOK(segs[i].base, hs[segs[i].base])
    BY <1>1
  <2> QED
    BY <1>3, <1>6, <1>8 DEF Whole
<1>11. \A i \in 1 .. n : SegOK(segs2[i], hs[segs2[i].base])
  BY <1>8, SMTT(30) DEF Whole
<1>12. \A i \in 1 .. n - 1 : Settled(segs2[i], hs[segs2[i].base])
  <2>1. \A i \in 1 .. n - 1 : i \in 1 .. n /\ i # n
    BY <1>2
  <2>2. \A i \in 1 .. n - 1 : Settled(segs[i], hs[segs[i].base])
    BY <1>1 DEF Carried
  <2> QED
    BY <2>1, <2>2, <1>5
<1>13. ASSUME NEW i \in 1 .. n
       PROVE  segs2[i].base + segs2[i].idxSize
                = IF i = n THEN g.base + g.idxSize ELSE segs2[i + 1].base
  <2>1. CASE i = n
    BY <2>1, <1>4
  <2>2. CASE i # n
    <3>1. i + 1 \in 1 .. n
      BY <2>2, <1>2, SMTT(30)
    <3>2. segs[i].base + segs[i].idxSize = segs[i + 1].base
      BY <2>2, <1>1, SMTT(30) DEF Good
    <3> QED
      BY <2>2, <3>1, <3>2, <1>5, <1>6
  <2> QED
    BY <2>1, <2>2
<1>14. \A i, j \in 1 .. n : i < j => segs2[i].base < segs2[j].base
  BY <1>1, <1>6 DEF Good
<1>15. Len(segs2) > 0
  BY <1>2, <1>7
<1>16. Good(segs2, hs, g.base + g.idxSize)
  BY <1>7, <1>9, <1>10, <1>11, <1>12, <1>13, <1>14, <1>15 DEF Good
<1>17. \A i \in 1 .. n - 1 : segs2[i] = segs[i]
  <2>1. \A i \in 1 .. n - 1 : i \in 1 .. n /\ i # n
    BY <1>2
  <2> QED
    BY <2>1, <1>5
<1> QED
  BY <1>4, <1>6, <1>7, <1>16, <1>17, SMTT(30)

\* The segments segs are all that is in the directory.
Directory(segs) ==
  /\ Good(segs, files, nextOffset) /\ DOMAIN files = {segs[i].base : i \in 1 .. Len(segs)}
  /\ \/ segs = segments
     \/ segs = Append(segments, Extra) /\ files[nextOffset] = NoFile

\* What loadSegments finds in the directory.
LEMMA DirectoryFound ==
  ASSUME WALInv
  PROVE  \E segs : Directory(segs)
<1> USE DEF WALInv
<1>1. CASE DOMAIN files = Bases
  BY <1>1 DEF Bases, Directory
<1>2. CASE DOMAIN files # Bases
  <2>1. PICK segs : segs = Append(segments, Extra)
    OBVIOUS
  <2>2. /\ DOMAIN files = Bases \cup {nextOffset} /\ Good(segs, files, nextOffset)
        /\ files[nextOffset] = NoFile
    BY <1>2, <2>1 DEF OrphanOK
  <2>3. PICK n \in Nat : n = Len(segments) /\ n >= 1
    BY LastFacts
  <2>4. /\ Len(segs) = n + 1 /\ segs[n + 1] = Extra
        /\ \A i \in 1 .. n : segs[i] = segments[i]
    BY <2>1, <2>3 DEF Good
  <2>5. Extra.base = nextOffset
    BY DEF Extra, Segment
  <2>6. DOMAIN files = {segs[i].base : i \in 1 .. Len(segs)}
    <3>1. Bases = {segments[i].base : i \in 1 .. n}
      BY <2>3 DEF Bases
    <3>2. ASSUME NEW y \in {segs[i].base : i \in 1 .. n + 1}
          PROVE  y \in Bases \cup {nextOffset}
      <4>1. PICK i \in 1 .. n + 1 : y = segs[i].base
        OBVIOUS
      <4>2. i \in 1 .. n \/ i = n + 1
        OBVIOUS
      <4> QED
        BY <4>1, <4>2, <3>1, <2>4, <2>5
    <3>3. ASSUME NEW y \in Bases
          PROVE  y \in {segs[i].base : i \in 1 .. n + 1}
      <4>1. PICK i \in 1 .. n : y = segments[i].base
        BY <3>1
      <4>2. i \in 1 .. n + 1 /\ y = segs[i].base
        BY <4>1, <2>4
      <4> QED
        BY <4>2
    <3>4. n + 1 \in 1 .. n + 1 /\ segs[n + 1].base = nextOffset
      BY <2>4, <2>5
    <3> QED
      BY <2>2, <2>4, <3>2, <3>3, <3>4
  <2>7. Directory(segs)
    BY <2>1, <2>2, <2>6 DEF Directory
  <2> QED
    BY <2>7
<1> QED
  BY <1>1, <1>2

\* What NewWAL may find of the files.
Left(found) ==
  /\ DOMAIN found = DOMAIN files
  /\ \A b \in DOMAIN files : LeftFile(files[b], found[b])

\* What NewWAL makes of the segments segs when it finds these files: the records of the last
\* one, at b, are w.
OpensTo(found, segs, n, b, w, s) ==
  /\ Directory(segs) /\ n = Len(segs) /\ n \in Nat /\ n >= 1 /\ b = segs[n].base /\ b \in Nat
  /\ LeftFile(files[b], found[b]) /\ RecoveredAs(found[b], files'[b], b, w, s)
  /\ \A i \in 1 .. n - 1 : /\ segments'[i] = segs[i]
                           /\ Carried(segs[i], files[segs[i].base], files'[segs[i].base])
  /\ Good(segments', files', b + Len(w)) /\ Len(segments') = n
  /\ segments'[n] = Segment(b, files'[b])
  /\ \A i \in 1 .. n : segments'[i].base = segs[i].base
  /\ DOMAIN files' = {segs[i].base : i \in 1 .. n} /\ nextOffset' = b + Len(w)

\* NewWAL on what it may find.
LEMMA OpenFinds ==
  ASSUME WALInv, NEW found, Left(found), Open(found)
  PROVE  \E segs, n, b, w, s : OpensTo(found, segs, n, b, w, s)
<1> USE DEF WALInv
<1>1. PICK segs : Directory(segs)
  BY DirectoryFound
<1>2. Good(segs, files, nextOffset) /\ DOMAIN files = {segs[i].base : i \in 1 .. Len(segs)}
  BY <1>1 DEF Directory
<1>3. PICK n : n = Len(segs) /\ n \in Nat /\ n >= 1 /\ n \in 1 .. n
  BY <1>2, LastFacts
<1>4. PICK b : b = segs[n].base
  OBVIOUS
<1>5. PICK hs : hs = [c \in DOMAIN found |-> Recovered(found[c])]
  OBVIOUS
<1>6. /\ DOMAIN found = DOMAIN files
      /\ \A c \in DOMAIN files : LeftFile(files[c], found[c]) /\ hs[c] = Recovered(found[c])
      /\ hs = [c \in DOMAIN hs |-> hs[c]] /\ DOMAIN hs = {segs[i].base : i \in 1 .. Len(segs)}
  BY <1>2, <1>5 DEF Left
<1>7. \A i \in 1 .. n : /\ segs[i] \in [base: Nat, size: Nat, idxSize: Nat]
                        /\ segs[i].base \in DOMAIN files /\ FileOK(segs[i].base, files[segs[i].base])
                        /\ SegOK(segs[i], files[segs[i].base])
  BY <1>2, <1>3, SegmentFacts
<1>8. PICK w, s : RecoveredAs(found[b], hs[b], b, w, s)
  <2>1. PICK f, d, h : f = files[b] /\ d = found[b] /\ h = hs[b]
    OBVIOUS
  <2>2. b \in Nat /\ FileOK(b, f) /\ LeftFile(f, d) /\ h = Recovered(d)
    BY <1>3, <1>4, <1>6, <1>7, <2>1
  <2>3. \E w, s : RecoveredAs(d, h, b, w, s)
    BY ONLY <2>2, RecoveredFile
  <2> QED
    BY <2>1, <2>3
<1>9. ASSUME NEW i \in 1 .. n - 1
      PROVE  Carried(segs[i], files[segs[i].base], hs[segs[i].base])
  <2>1. i \in 1 .. n
    BY <1>3
  <2>2. PICK g, f, d, h : g = segs[i] /\ f = files[g.base] /\ d = found[g.base] /\ h = hs[g.base]
    OBVIOUS
  <2>3. Settled(g, f)
    BY <1>2, <1>3, <2>2 DEF Good
  <2>4. /\ g \in [base: Nat, size: Nat, idxSize: Nat] /\ FileOK(g.base, f) /\ SegOK(g, f)
        /\ LeftFile(f, d) /\ h = Recovered(d)
    BY <1>6, <1>7, <2>1, <2>2
  <2>5. Carried(g, f, h)
    BY ONLY <2>3, <2>4, SettledKept
  <2> QED
    BY <2>2, <2>5
<1>10. PICK g, segs2 : /\ g = Segment(b, hs[b])
                       /\ segs2 = [i \in 1 .. n |-> Segment(segs[i].base, hs[segs[i].base])]
  OBVIOUS
<1>11. Whole(g, hs[b]) /\ g.base = b /\ g.idxSize = Len(w) /\ b \in Nat
  <2>1. b \in Nat
    BY <1>3, <1>4, <1>7
  <2>2. FileOK(b, hs[b]) /\ Indexed(g, hs[b], w, s)
    BY <1>8, <1>10 DEF RecoveredAs
  <2>3. hs[b].log \in Seq(Cell) /\ hs[b].idx \in Seq(Nat)
    BY <2>2 DEF FileOK
  <2>4. g = [base |-> b, size |-> Len(hs[b].log), idxSize |-> Len(hs[b].idx)]
    BY <1>10 DEF Segment
  <2>5. g \in [base: Nat, size: Nat, idxSize: Nat] /\ g.base = b
    BY <2>1, <2>3, <2>4
  <2>6. SegOK(g, hs[b]) /\ g.idxSize = Len(w)
    BY <2>2 DEF SegOK, Indexed
  <2> QED
    BY <2>1, <2>2, <2>5, <2>6 DEF Whole
<1>12. RecoversTo(segs, n, b, files, hs, segs2, g)
  BY <1>3, <1>4, <1>9, <1>10, <1>11 DEF RecoversTo
<1>13. /\ Good(segs2, hs, g.base + g.idxSize) /\ Len(segs2) = n /\ segs2[n] = g
       /\ \A i \in 1 .. n : segs2[i].base = segs[i].base
       /\ \A i \in 1 .. n - 1 : segs2[i] = segs[i]
  <2>1. PICK fs, next : fs = files /\ next = nextOffset
    OBVIOUS
  <2>2. /\ Good(segs, fs, next) /\ RecoversTo(segs, n, b, fs, hs, segs2, g)
        /\ hs = [c \in DOMAIN hs |-> hs[c]] /\ DOMAIN hs = {segs[i].base : i \in 1 .. Len(segs)}
    BY <2>1, <1>2, <1>12, <1>6, Zenon
  <2> QED
    BY ONLY <2>2, GoodRecovered
<1>14. SortedBases(DOMAIN found) = [i \in 1 .. n |-> segs[i].base]
  <2>1. PICK t : t = [i \in 1 .. n |-> segs[i].base]
    OBVIOUS
  <2>2. \A i \in 1 .. n : t[i] \in Nat
    BY <2>1, <1>7
  <2>3. \A i, j \in 1 .. n : i < j => t[i] < t[j]
    BY <2>1, <1>2, <1>3 DEF Good
  <2>4. SortedBases({t[i] : i \in 1 .. n}) = [i \in 1 .. n |-> t[i]]
    BY <2>2, <2>3, <1>3, SortedAscending
  <2>5. {t[i] : i \in 1 .. n} = DOMAIN found
    BY <2>1, <1>2, <1>3, <1>6
  <2> QED
    BY <2>1, <2>4, <2>5
<1>15. PICK bases : /\ bases = SortedBases(DOMAIN found) /\ Len(bases) = n
                    /\ \A i \in 1 .. n : bases[i] = segs[i].base
  <2>1. PICK t : t = [i \in 1 .. n |-> segs[i].base] /\ t = SortedBases(DOMAIN found)
    BY <1>14
  <2>2. t \in [1 .. n -> Nat]
    BY <2>1, <1>7
  <2>3. Len(t) = n
    BY <2>2, <1>3
  <2> QED
    BY <2>1, <2>3
<1>16. bases[n] = b
  BY <1>3, <1>4, <1>15
<1>17. /\ files' = hs
       /\ segments' = [i \in 1 .. Len(bases) |-> Segment(bases[i], files'[bases[i]])]
       /\ nextOffset' = RecoveredNext(bases[Len(bases)], files'[bases[Len(bases)]])
  BY <1>5, <1>15 DEF Open
<1>18. segments' = segs2
  <2>1. segments' = [i \in 1 .. n |-> Segment(bases[i], hs[bases[i]])]
    BY <1>15, <1>17
  <2> QED
    BY <2>1, <1>10, <1>15
<1>19. nextOffset' = b + Len(w)
  <2>1. nextOffset' = RecoveredNext(b, hs[b])
    BY <1>15, <1>16, <1>17
  <2> QED
    BY <2>1, <1>8, <1>11, NextFound
<1>20. LeftFile(files[b], found[b])
  BY <1>3, <1>4, <1>6, <1>7
<1>21. OpensTo(found, segs, n, b, w, s)
  <2>1. Good(segs2, hs, b + Len(w))
    BY <1>11, <1>13
  <2>2. DOMAIN hs = {segs[i].base : i \in 1 .. n}
    BY <1>3, <1>6
  <2> QED
    BY <2>1, <2>2, <1>1, <1>3, <1>4, <1>8, <1>9, <1>10, <1>11, <1>13, <1>17, <1>18, <1>19, <1>20,
       Zenon DEF OpensTo
<1> QED
  BY <1>21

\* What a syncing Append acknowledged is found, and no power loss takes it.
LEMMA AckedFound ==
  ASSUME WALInv, NEW a, a = Active.base, NEW f, f = files[a], NEW d, LeftFile(f, d),
         NEW r, NEW w, NEW s, RecoveredAs(d, r, a, w, s)
  PROVE  /\ acked <= a + Len(w)
         /\ acked > a => \A c \in r.disk : Agree(c, r.log, EndIn(Segment(a, r), r, acked - a))
<1>1. /\ Active \in [base: Nat, size: Nat, idxSize: Nat] /\ FileOK(a, f) /\ SegOK(Active, f)
      /\ a + Active.idxSize = nextOffset /\ nextOffset \in Nat /\ a \in Nat
  BY ActiveFacts DEF WALInv
<1>2. acked \in Nat /\ acked <= nextOffset
  BY DEF WALInv, AckedOK
<1>3. PICK x, t : Indexed(Active, f, x, t)
  BY <1>1 DEF SegOK
<1>4. /\ Laid(f.log, a, x, t) /\ Active.idxSize = Len(x)
  BY <1>3 DEF Indexed
<1>5. /\ Laid(d.log, a, w, s) /\ ~StartsAt(d.log, s[Len(w) + 1])
      /\ FileOK(a, r) /\ Indexed(Segment(a, r), r, w, s)
      /\ Len(r.log) = s[Len(w) + 1] /\ Agree(r.log, d.log, s[Len(w) + 1])
      /\ r.disk = d.disk \cup {r.log}
  BY DEF RecoveredAs
<1>6. /\ d.log \in f.disk /\ d.disk \subseteq f.disk /\ d.log \in Seq(Cell) /\ f.log \in Seq(Cell)
      /\ r.log \in Seq(Cell)
  BY <1>1, <1>5 DEF LeftFile, FileOK
<1>7. Len(w) \in Nat
  BY <1>5 DEF Laid
<1>8. CASE acked <= a
  BY <1>1, <1>2, <1>7, <1>8
<1>9. CASE acked > a
  <2>1. PICK n : n = acked - a
    OBVIOUS
  <2>2. n \in 0 .. Len(x)
    BY <1>1, <1>2, <1>4, <1>9, <2>1
  <2>3. PICK i : i = t[n + 1]
    OBVIOUS
  <2>4. EndIn(Active, f, n) = i /\ i \in Nat
    BY <1>3, <2>2, <2>3, EndFacts
  <2>5. \A c \in f.disk : Agree(c, f.log, i)
    BY <1>9, <2>1, <2>4 DEF WALInv, AckedOK
  <2>6. Agree(d.log, f.log, t[n + 1])
    BY <1>6, <2>3, <2>5
  <2>7. n <= Len(w) /\ \A k \in 1 .. n + 1 : s[k] = t[k]
    <3> PICK file, other : file = f.log /\ other = d.log
      OBVIOUS
    <3>1. /\ file \in Seq(Cell) /\ other \in Seq(Cell) /\ a \in Nat /\ Laid(file, a, x, t)
          /\ Laid(other, a, w, s) /\ ~StartsAt(other, s[Len(w) + 1]) /\ n \in 0 .. Len(x)
          /\ Agree(other, file, t[n + 1])
      BY <1>1, <1>4, <1>5, <1>6, <2>2, <2>6
    <3>2. /\ n <= Len(w) /\ \A k \in 1 .. n + 1 : s[k] = t[k]
          /\ \A k \in 1 .. n : w[k] = x[k]
      BY ONLY <3>1, LaidSame, SMTT(60)
    <3> QED
      BY <3>2
  <2>8. n \in Nat /\ n \in 0 .. Len(w) /\ s[n + 1] = i
    BY <1>7, <2>2, <2>3, <2>7
  <2>9. EndIn(Segment(a, r), r, n) = i /\ i <= Len(r.log)
    <3>1. PICK g : g = Segment(a, r)
      OBVIOUS
    <3>2. EndIn(g, r, n) = s[n + 1] /\ s[n + 1] <= g.size /\ g.size <= Len(r.log) /\ g.size \in Nat
      BY <1>5, <2>8, <3>1, EndFacts
    <3>3. Len(r.log) \in Nat
      BY <1>6
    <3> QED
      BY <2>4, <2>8, <3>1, <3>2, <3>3
  <2>10. Agree(r.log, f.log, i)
    <3>1. Agree(r.log, d.log, Len(r.log)) /\ Len(r.log) \in Nat
      BY <1>5, <1>6
    <3> QED
      BY <2>3, <2>4, <2>6, <2>9, <3>1 DEF Agree
  <2>11. ASSUME NEW c \in r.disk
         PROVE  Agree(c, r.log, i)
    <3>1. CASE c = r.log
      BY <2>9, <3>1 DEF Agree
    <3>2. CASE c \in f.disk
      <4>1. Agree(c, f.log, i)
        BY <2>5, <3>2
      <4> QED
        BY <2>10, <4>1 DEF Agree
    <3> QED
      BY <1>5, <1>6, <3>1, <3>2
  <2>12. acked <= a + Len(w)
    BY <1>1, <1>2, <1>7, <2>1, <2>8
  <2> QED
    BY <2>1, <2>9, <2>11, <2>12
<1> QED
  BY <1>1, <1>2, <1>8, <1>9

\* NewWAL keeps the invariant.
LEMMA OpenKeeps ==
  ASSUME WALInv, restarts < MaxRestarts, NEW found, Left(found), Open(found)
  PROVE  WALInv'
<1> USE DEF WALInv
<1>1. PICK segs, n, b, w, s : OpensTo(found, segs, n, b, w, s)
  BY OpenFinds
<1>2. PICK r, g, hs, segs2 : hs = files' /\ segs2 = segments' /\ r = hs[b] /\ g = Segment(b, r)
  OBVIOUS
<1>3. /\ Directory(segs) /\ n = Len(segs) /\ n \in Nat /\ n >= 1 /\ b = segs[n].base /\ b \in Nat
      /\ LeftFile(files[b], found[b]) /\ RecoveredAs(found[b], r, b, w, s)
      /\ Good(segs2, hs, b + Len(w)) /\ Len(segs2) = n /\ segs2[n] = g
      /\ \A i \in 1 .. n : segs2[i].base = segs[i].base
      /\ DOMAIN hs = {segs[i].base : i \in 1 .. n} /\ nextOffset' = b + Len(w)
  BY <1>1, <1>2, Zenon DEF OpensTo
<1>4. /\ sync' \in SyncModes /\ closed' = FALSE /\ pc' = "ready" /\ value' = None
      /\ restarts' = restarts + 1 /\ UNCHANGED <<appends, acked>>
  BY DEF Open
<1>5. Active' = g /\ g.base = b /\ g.size = Len(r.log)
  <2>1. Active' = segments'[Len(segments')]
    BY DEF Active
  <2>2. segments'[Len(segments')] = g
    BY <1>2, <1>3
  <2> QED
    BY <1>2, <2>1, <2>2 DEF Segment
<1>6. Good(segments', files', nextOffset')
  BY <1>2, <1>3
<1>7. TailOK(Active', files'[Active'.base].log, nextOffset')
  <2>1. r.log \in Seq(Cell)
    BY <1>3 DEF RecoveredAs, FileOK
  <2>2. NoMagic(r.log, Len(r.log))
    BY <2>1 DEF NoMagic
  <2> QED
    BY <1>2, <1>5, <2>2 DEF TailOK
<1>8. OrphanOK'
  <2>1. Bases' = {segs2[i].base : i \in 1 .. n}
    BY <1>2, <1>3 DEF Bases
  <2>2. Bases' = {segs[i].base : i \in 1 .. n}
    BY <2>1, <1>3
  <2>3. DOMAIN files' = Bases'
    BY <2>2, <1>2, <1>3
  <2> QED
    BY <2>3 DEF OrphanOK
<1>9. acked \in Nat /\ acked <= nextOffset /\ Len(w) \in Nat
  BY <1>3 DEF AckedOK, RecoveredAs, Laid
<1>10. /\ acked <= b + Len(w)
       /\ acked > b => \A c \in r.disk : Agree(c, r.log, EndIn(g, r, acked - b))
  <2>1. CASE segs = segments
    <3>1. b = Active.base
      BY <1>3, <2>1 DEF Active
    <3>2. PICK f, d : f = files[b] /\ d = found[b]
      OBVIOUS
    <3>3. LeftFile(f, d) /\ RecoveredAs(d, r, b, w, s)
      BY <1>3, <3>2
    <3> QED
      BY <1>2, <3>1, <3>2, <3>3, AckedFound
  <2>2. CASE segs = Append(segments, Extra)
    <3>1. segments \in Seq([base: Nat, size: Nat, idxSize: Nat]) /\ Len(segments) \in Nat
      BY DEF Good
    <3>2. Len(segs) = Len(segments) + 1 /\ segs[Len(segments) + 1] = Extra
      BY <2>2, <3>1, AppendProperties
    <3>3. b = nextOffset
      <4>1. n = Len(segments) + 1 /\ b = segs[n].base
        BY <1>3, <3>2
      <4>2. b = Extra.base
        BY ONLY <3>2, <4>1
      <4> QED
        BY ONLY <4>2 DEF Extra, Segment
    <3> QED
      BY <1>3, <1>9, <3>3
  <2> QED
    BY <1>3, <2>1, <2>2 DEF Directory
<1>11. AckedOK'
  BY <1>2, <1>3, <1>4, <1>5, <1>9, <1>10 DEF AckedOK
<1>12. ControlOK'
  <2>1. nextOffset' \in Nat
    BY <1>3, <1>9
  <2>2. sync' \in BOOLEAN /\ closed' \in BOOLEAN /\ restarts' \in 0 .. MaxRestarts
    <3>1. sync' \in BOOLEAN /\ closed' \in BOOLEAN
      BY <1>4, WalConstantsOK, Zenon
    <3>2. restarts' \in 0 .. MaxRestarts
      BY <1>4, WalConstantsOK DEF ControlOK
    <3> QED
      BY <3>1, <3>2
  <2> QED
    BY <2>1, <2>2, <1>4 DEF ControlOK
<1> QED
  BY <1>6, <1>7, <1>8, <1>11, <1>12

\* Closed or not, the files are found as the process left them.
LEMMA ReopenFinds ==
  ASSUME WALInv, Reopen
  PROVE  restarts < MaxRestarts /\ Left(files) /\ Open(files)
<1>1. \A b \in DOMAIN files : FileOK(b, files[b])
  BY DEF WALInv, Good
<1>2. \A b \in DOMAIN files : LeftFile(files[b], files[b])
  BY <1>1 DEF FileOK, LeftFile
<1> QED
  BY <1>2 DEF Reopen, Left

\* After a power loss, they are as some write or sync left them.
LEMMA PowerLossFinds ==
  ASSUME WALInv, PowerLoss
  PROVE  /\ restarts < MaxRestarts
         /\ \E found : /\ Left(found) /\ Open(found)
                       /\ \A b \in DOMAIN files : found[b].disk = {found[b].log}
<1>1. PICK left \in [DOMAIN files -> UNION {files[b].disk : b \in DOMAIN files}],
           noIndex \in SUBSET DOMAIN files :
        /\ \A b \in DOMAIN files : left[b] \in files[b].disk
        /\ Open([b \in DOMAIN files |->
                   [log |-> left[b], disk |-> {left[b]},
                    idx |-> IF b \in noIndex THEN <<>> ELSE files[b].idx]])
  BY DEF PowerLoss
<1>2. PICK found : found = [b \in DOMAIN files |->
                              [log |-> left[b], disk |-> {left[b]},
                               idx |-> IF b \in noIndex THEN <<>> ELSE files[b].idx]]
  OBVIOUS
<1>3. ASSUME NEW b \in DOMAIN files
      PROVE  LeftFile(files[b], found[b]) /\ found[b].disk = {found[b].log}
  <2>1. PICK c, x : c = left[b] /\ x = IF b \in noIndex THEN <<>> ELSE files[b].idx
    OBVIOUS
  <2>2. FileOK(b, files[b])
    BY DEF WALInv, Good
  <2>3. c \in files[b].disk /\ files[b].disk \subseteq Seq(Cell) /\ files[b].idx \in Seq(Nat)
    BY <1>1, <2>1, <2>2 DEF FileOK
  <2>4. x \in Seq(Nat)
    <3>1. << >> \in Seq(Nat)
      OBVIOUS
    <3> QED
      BY <2>1, <2>3, <3>1
  <2>5. found[b] = [log |-> c, disk |-> {c}, idx |-> x]
    BY <1>2, <2>1
  <2> QED
    BY <2>3, <2>4, <2>5 DEF LeftFile
<1>4. DOMAIN found = DOMAIN files
  BY <1>2
<1>5. Left(found)
  BY <1>3, <1>4 DEF Left
<1>6. Open(found)
  BY <1>1, <1>2
<1>7. restarts < MaxRestarts
  BY DEF PowerLoss
<1> QED
  BY <1>3, <1>5, <1>6, <1>7

\* A new log satisfies the invariant.
LEMMA InitHolds ==
  ASSUME Init
  PROVE  WALInv
<1> DEFINE Shape == [base: Nat, size: Nat, idxSize: Nat]
<1> USE DEF Init
<1>1. PICK g \in Shape : /\ g = Segment(0, NoFile) /\ g.base = 0 /\ g.size = 0 /\ g.idxSize = 0
                         /\ SegOK(g, NoFile)
  BY EmptySegment
<1>2. FileOK(0, NoFile) /\ NoMagic(NoFile.log, 0)
  BY EmptySegment
<1>3. segments \in Seq(Shape) /\ Len(segments) = 1 /\ segments[1] = g
  <2>1. segments = <<g>>
    BY <1>1
  <2> HIDE DEF Shape
  <2> QED
    BY <2>1
<1>4. DOMAIN files = {0} /\ files[0] = NoFile /\ files = [b \in DOMAIN files |-> files[b]]
  OBVIOUS
<1>5. Good(segments, files, nextOffset)
  <2>1. \A i \in 1 .. 1 : segments[i] = g /\ i = 1
    BY <1>3
  <2>2. \A i \in 1 .. Len(segments) : /\ segments[i].base \in DOMAIN files
                                      /\ SegOK(segments[i], files[segments[i].base])
                                      /\ i = Len(segments) /\ segments[i].base + segments[i].idxSize = nextOffset
    BY <2>1, <1>1, <1>3, <1>4
  <2>3. \A i \in 1 .. Len(segments) - 1 : Settled(segments[i], files[segments[i].base])
    BY <1>3
  <2>4. \A i, j \in 1 .. Len(segments) : i < j => segments[i].base < segments[j].base
    BY <1>3
  <2>5. \A b \in DOMAIN files : b \in Nat /\ FileOK(b, files[b])
    BY <1>2, <1>4
  <2> QED
    BY <1>1, <1>3, <1>4, <2>2, <2>3, <2>4, <2>5 DEF Good
<1>6. Active = g
  BY <1>3 DEF Active
<1>7. TailOK(Active, files[Active.base].log, nextOffset)
  BY <1>1, <1>2, <1>4, <1>6 DEF TailOK
<1>8. OrphanOK
  <2>1. Bases = {0}
    BY <1>1, <1>3 DEF Bases
  <2> QED
    BY <2>1, <1>4 DEF OrphanOK
<1>9. AckedOK
  BY <1>1, <1>4, <1>6 DEF AckedOK
<1>10. ControlOK
  <2>1. sync \in BOOLEAN /\ closed \in BOOLEAN
    BY WalConstantsOK, Zenon
  <2>2. appends \in 0 .. MaxAppends /\ restarts \in 0 .. MaxRestarts /\ nextOffset \in Nat
    BY WalConstantsOK
  <2> QED
    BY <2>1, <2>2 DEF ControlOK
<1> QED
  BY <1>5, <1>7, <1>8, <1>9, <1>10 DEF WALInv

\* A step that changes nothing.
LEMMA StutterKeeps ==
  ASSUME WALInv, UNCHANGED vars
  PROVE  WALInv'
BY DEF WALInv, vars, TailOK, OrphanOK, AckedOK, ControlOK, Active, Bases, Extra

\* If no record is torn, whatever Append, the flush loop, Close, a failed write, a failed
\* roll, a restart or a power loss does: in whatever a power loss may leave of a segment the
\* records stand end to end, its index says where they are in its file, behind the last record
\* there is only what a failed write left, every file is a segment's or was left by a failed
\* roll, and what a syncing Append acknowledged is in whatever a power loss may leave.
THEOREM WALInvHolds ==
  ASSUME ~Torn
  PROVE  Spec => []WALInv
<1>1. Init => WALInv
  BY InitHolds
<1>2. WALInv /\ [Next]_vars => WALInv'
  <2> SUFFICES ASSUME WALInv, [Next]_vars
               PROVE  WALInv'
    OBVIOUS
  <2>1. ASSUME NEW v \in Values, AppendBegin(v)
        PROVE  WALInv'
    BY <2>1, AppendBeginKeeps
  <2>2. CASE AppendWrite
    BY <2>2, AppendWriteKeeps
  <2>3. CASE AppendSync
    BY <2>3, AppendSyncKeeps
  <2>4. CASE Flush \/ Close
    BY <2>4, FlushKeeps
  <2>5. CASE Reopen
    BY <2>5, ReopenFinds, OpenKeeps
  <2>6. CASE PowerLoss
    BY <2>6, PowerLossFinds, OpenKeeps
  <2>7. CASE UNCHANGED vars
    BY <2>7, StutterKeeps
  <2> QED
    BY <2>1, <2>2, <2>3, <2>4, <2>5, <2>6, <2>7 DEF Next
<1> QED
  BY <1>1, <1>2, PTL DEF Spec

-----------------------------------------------------------------------------
(* What the invariant says of the log *)

\* findSegment finds the one segment that has an offset.
LEMMA SegmentFound ==
  ASSUME WALInv, NEW i \in 1 .. Len(segments), NEW o \in Nat, segments[i].base <= o,
         o < segments[i].base + segments[i].idxSize
  PROVE  FindSegment(o) = segments[i]
<1> PICK n \in Nat : n = Len(segments)
  BY LastFacts DEF WALInv
<1>1. \A j \in 1 .. n : segments[j].base \in Nat /\ segments[j].idxSize \in Nat
  BY SegmentFacts DEF WALInv
<1>2. \A j, k \in 1 .. n : j < k => segments[j].base < segments[k].base
  BY DEF WALInv, Good
<1>3. ASSUME NEW j \in i + 1 .. n
      PROVE  segments[j].base > o
  <2>1. i + 1 \in 1 .. n /\ i # n /\ j \in 1 .. n
    OBVIOUS
  <2>2. segments[i].base + segments[i].idxSize = segments[i + 1].base
    BY <2>1 DEF WALInv, Good
  <2>3. j = i + 1 \/ segments[i + 1].base < segments[j].base
    BY <2>1, <1>2
  <2> QED
    BY <2>1, <2>2, <2>3, <1>1
<1>4. ASSUME NEW k \in 1 .. n, segments[k].base <= o,
             \A j \in k + 1 .. n : segments[j].base > o
      PROVE  k = i
  <2>1. CASE k < i
    <3>1. i \in k + 1 .. n
      BY <2>1
    <3>2. segments[i].base > o
      BY <3>1, <1>4
    <3> QED
      BY <3>2, <1>1
  <2>2. CASE i < k
    <3>1. k \in i + 1 .. n
      BY <2>2
    <3>2. segments[k].base > o
      BY <3>1, <1>3
    <3> QED
      BY <3>2, <1>1, <1>4
  <2> QED
    BY <2>1, <2>2
<1>5. (CHOOSE k \in 1 .. n : segments[k].base <= o /\ \A j \in k + 1 .. n : segments[j].base > o) = i
  BY <1>3, <1>4
<1> QED
  BY <1>5 DEF FindSegment

\* Every offset below nextOffset is in a segment.
LEMMA OffsetHasSegment ==
  ASSUME NEW segs, NEW fs, NEW next, Good(segs, fs, next), NEW o \in Nat, o < next
  PROVE  \E i \in 1 .. Len(segs) :
           segs[i].base <= o /\ o < segs[i].base + segs[i].idxSize
<1> PICK n \in Nat : n = Len(segs) /\ n >= 1
  BY LastFacts
<1>1. \A j \in 1 .. n : segs[j].base \in Nat /\ segs[j].idxSize \in Nat
  BY SegmentFacts
<1>2. segs[1].base = 0
  BY DEF Good
<1> DEFINE T == {i \in 1 .. n : segs[i].base <= o}
<1>3. 1 \in T /\ T \subseteq Nat /\ \A i \in T : i <= n
  BY <1>2
<1> HIDE DEF T
<1>4. PICK i \in T : \A j \in T : j <= i
  BY <1>3, GreatestNumber
<1>5. i \in 1 .. n /\ segs[i].base <= o
  BY <1>4 DEF T
<1>6. CASE i = n
  <2>1. segs[i].base + segs[i].idxSize = next
    BY <1>5, <1>6 DEF Good
  <2> QED
    BY <1>5, <2>1
<1>7. CASE i # n
  <2>1. i + 1 \in 1 .. n
    BY <1>5, <1>7
  <2>2. i + 1 \notin T
    BY <1>4, <1>5
  <2>3. segs[i + 1].base > o
    BY <2>1, <2>2, <1>1 DEF T
  <2>4. segs[i].base + segs[i].idxSize = segs[i + 1].base
    BY <1>5, <1>7 DEF Good
  <2> QED
    BY <1>5, <2>3, <2>4, <2>1, <1>1
<1> QED
  BY <1>6, <1>7

\* The k-th record of the files f is that of offset o, with value v.
IsRecord(f, k, o, v) ==
  /\ f.idx[k] \in Nat /\ v \in Values /\ f.log \in Seq(Cell)
  /\ RecordAt(f.log, f.idx[k], o, v)
  /\ StartsAt(f.log, f.idx[k]) /\ EndOf(f.log, f.idx[k]) = f.idx[k] + Size(v)
  /\ f.log[f.idx[k] + 2] = [piece |-> 1, off |-> o, val |-> v]

\* The record of an offset: where it is and what its header says.
LEMMA RecordFound ==
  ASSUME NEW g, g \in [base: Nat, size: Nat, idxSize: Nat], NEW f, FileOK(g.base, f),
         NEW w, NEW s, Indexed(g, f, w, s), NEW k \in 1 .. Len(w), NEW o, o = g.base + k - 1
  PROVE  /\ IsRecord(f, k, o, w[k]) /\ o \in Nat /\ o < g.base + g.idxSize
         /\ EndOf(f.log, f.idx[k]) = EndIn(g, f, k)
<1>1. /\ Laid(f.log, g.base, w, s) /\ g.idxSize = Len(w) /\ f.idx[k] = s[k]
      /\ g.size = s[Len(w) + 1] /\ \A j \in 1 .. Len(w) : f.idx[j] = s[j]
  BY DEF Indexed
<1>2. f.log \in Seq(Cell) /\ w \in Seq(Values) /\ s \in Seq(Nat) /\ Len(s) = Len(w) + 1 /\ g.base \in Nat
  BY <1>1, SMTT(30) DEF FileOK, Laid
<1>3. k \in 1 .. Len(s) /\ s[k] \in Nat /\ w[k] \in Values /\ Len(w) \in Nat
  BY <1>2, SMTT(30)
<1>4. RecordAt(f.log, s[k], o, w[k]) /\ s[k + 1] = s[k] + Size(w[k])
  BY <1>1 DEF Laid
<1>5. o \in Nat /\ o < g.base + g.idxSize
  BY <1>1, <1>2, <1>3, SMTT(30)
<1>6. /\ StartsAt(f.log, s[k]) /\ EndOf(f.log, s[k]) = s[k] + Size(w[k])
      /\ f.log[s[k] + 2] = [piece |-> 1, off |-> o, val |-> w[k]]
  <2> PICK l, p, v : l = f.log /\ p = s[k] /\ v = w[k]
    OBVIOUS
  <2>1. l \in Seq(Cell) /\ p \in Nat /\ v \in Values /\ RecordAt(l, p, o, v)
    BY <1>2, <1>3, <1>4
  <2>2. /\ StartsAt(l, p) /\ EndOf(l, p) = p + Size(v)
        /\ l[p + 2] = [piece |-> 1, off |-> o, val |-> v]
    BY ONLY <2>1, RecordStarts
  <2> QED
    BY <2>2
<1>7. IsRecord(f, k, o, w[k])
  BY <1>1, <1>2, <1>3, <1>4, <1>6 DEF IsRecord
<1>8. EndOf(f.log, f.idx[k]) = EndIn(g, f, k)
  <2>1. k \in 0 .. Len(w)
    BY <1>3
  <2>2. EndIn(g, f, k) = s[k + 1]
    BY <2>1, EndFacts
  <2> QED
    BY <1>1, <1>4, <1>6, <2>2
<1> QED
  BY <1>5, <1>7, <1>8

\* The records of a segment, and the one of an offset in it.
LEMMA RecordsOf ==
  ASSUME WALInv, NEW i \in 1 .. Len(segments), NEW g, g = segments[i], NEW f, f = files[g.base]
  PROVE  \E w, s : Indexed(g, f, w, s) /\ Len(w) = g.idxSize
BY SegmentFacts DEF WALInv, SegOK, Indexed

\* A record is durable when no power loss touches the file up to its end.
LEMMA DurableBy ==
  ASSUME WALInv, NEW i \in 1 .. Len(segments), NEW g, g = segments[i], NEW f, f = files[g.base],
         NEW o \in Nat, g.base <= o, o < g.base + g.idxSize,
         \A c \in f.disk : Agree(c, f.log, EndIn(g, f, o - g.base + 1))
  PROVE  IsDurable(o)
<1>1. FindSegment(o) = g
  BY SegmentFound
<1>2. g \in [base: Nat, size: Nat, idxSize: Nat] /\ FileOK(g.base, f)
  BY SegmentFacts DEF WALInv
<1>3. PICK w, s : Indexed(g, f, w, s) /\ Len(w) = g.idxSize
  BY RecordsOf
<1>4. PICK k : k = o - g.base + 1
  OBVIOUS
<1>5. k \in 1 .. Len(w) /\ k \in 0 .. Len(w) /\ o = g.base + k - 1
  BY <1>2, <1>3, <1>4
<1>6. EndOf(f.log, f.idx[k]) = EndIn(g, f, k)
  BY <1>2, <1>3, <1>5, RecordFound
<1>7. EndIn(g, f, k) \in Nat
  BY <1>3, <1>5, EndFacts
<1>8. PICK e \in Nat : e = EndIn(g, f, k)
  BY <1>7
<1>9. f.log \in Seq(Cell) /\ \A c \in f.disk : c \in Seq(Cell) /\ Agree(c, f.log, e)
  BY <1>2, <1>4, <1>8 DEF FileOK
<1>10. ASSUME NEW c \in f.disk
       PROVE  e <= Len(c) /\ SubSeq(c, 1, e) = SubSeq(f.log, 1, e)
  <2> PICK l : l = f.log
    OBVIOUS
  <2>1. c \in Seq(Cell) /\ l \in Seq(Cell) /\ e <= Len(c) /\ e <= Len(l)
        /\ \A j \in 1 .. e : c[j] = l[j]
    BY <1>9 DEF Agree
  <2>2. PICK x, y : x = SubSeq(c, 1, e) /\ y = SubSeq(l, 1, e)
    OBVIOUS
  <2>3. x \in Seq(Cell) /\ Len(x) = e /\ \A j \in 1 .. e : x[j] = c[j]
    BY <1>8, <2>1, <2>2, PrefixSeq, SMTT(30)
  <2>4. y \in Seq(Cell) /\ Len(y) = e /\ \A j \in 1 .. e : y[j] = l[j]
    BY <1>8, <2>1, <2>2, PrefixSeq, SMTT(30)
  <2>5. \A j \in 1 .. e : x[j] = y[j]
    BY <2>1, <2>3, <2>4
  <2>6. x = y
    BY ONLY <2>3, <2>4, <2>5, SeqEqual
  <2> QED
    BY <2>1, <2>2, <2>6
<1>11. EndOf(files[g.base].log, files[g.base].idx[o - g.base + 1]) = e
  BY <1>4, <1>6, <1>8
<1> QED
  BY <1>1, <1>10, <1>11, Zenon DEF IsDurable

\* A record outside the active segment is durable.
LEMMA SettledDurable ==
  ASSUME WALInv, NEW i \in 1 .. Len(segments), i # Len(segments), NEW o \in Nat,
         segments[i].base <= o, o < segments[i].base + segments[i].idxSize
  PROVE  IsDurable(o)
<1> PICK g, f : g = segments[i] /\ f = files[g.base]
  OBVIOUS
<1>1. i \in 1 .. Len(segments) - 1
  BY LastFacts DEF WALInv
<1>2. Settled(g, f)
  BY <1>1 DEF WALInv, Good
<1>3. g \in [base: Nat, size: Nat, idxSize: Nat] /\ FileOK(g.base, f)
  BY SegmentFacts DEF WALInv
<1>4. PICK w, s : Indexed(g, f, w, s) /\ Len(w) = g.idxSize
  BY RecordsOf
<1>5. PICK k : k = o - g.base + 1
  OBVIOUS
<1>6. k \in 0 .. Len(w)
  BY <1>3, <1>4, <1>5
<1>7. EndIn(g, f, k) \in Nat /\ EndIn(g, f, k) <= g.size
  BY <1>4, <1>6, EndFacts
<1>8. \A c \in f.disk : Agree(c, f.log, EndIn(g, f, k))
  BY <1>2, <1>3, <1>7 DEF Settled, Agree
<1> QED
  BY <1>5, <1>8, DurableBy

\* So is one that was acknowledged.
LEMMA AckedIsDurable ==
  ASSUME WALInv, NEW o \in Nat, o < acked
  PROVE  IsDurable(o)
<1>1. acked \in Nat /\ nextOffset \in Nat /\ acked <= nextOffset
  BY DEF WALInv, AckedOK, ControlOK
<1>2. o < nextOffset
  BY <1>1
<1>3. PICK i \in 1 .. Len(segments) : segments[i].base <= o /\ o < segments[i].base + segments[i].idxSize
  BY <1>2, OffsetHasSegment DEF WALInv
<1>4. CASE i # Len(segments)
  BY <1>3, <1>4, SettledDurable
<1>5. CASE i = Len(segments)
  <2> PICK g, f : g = segments[i] /\ f = files[g.base]
    OBVIOUS
  <2>1. g = Active /\ g.base \in Nat /\ g.base <= o /\ o < g.base + g.idxSize
    BY <1>3, <1>5, SegmentFacts DEF Active, WALInv
  <2>2. g \in [base: Nat, size: Nat, idxSize: Nat] /\ FileOK(g.base, f) /\ g.base + g.idxSize = nextOffset
    BY <2>1, ActiveFacts DEF WALInv
  <2>3. PICK w, s : Indexed(g, f, w, s) /\ Len(w) = g.idxSize
    BY RecordsOf
  <2>4. PICK k, n : k = o - g.base + 1 /\ n = acked - g.base
    OBVIOUS
  <2>5. /\ k \in 0 .. Len(w) /\ n \in 0 .. Len(w) /\ k <= n
        /\ k + 1 \in 1 .. Len(w) + 1 /\ n + 1 \in 1 .. Len(w) + 1 /\ k + 1 <= n + 1
    <3> PICK b, m : b = g.base /\ m = Len(w)
      OBVIOUS
    <3>1. b \in Nat /\ m \in Nat /\ b + m = nextOffset /\ b <= o /\ k = o - b + 1 /\ n = acked - b
      BY <2>1, <2>2, <2>3, <2>4
    <3>2. k \in Nat /\ n \in Nat /\ k <= n /\ n <= m
      BY ONLY <3>1, <1>1, o \in Nat, o < acked
    <3>3. /\ k \in 0 .. m /\ n \in 0 .. m
          /\ k + 1 \in 1 .. m + 1 /\ n + 1 \in 1 .. m + 1 /\ k + 1 <= n + 1
      BY ONLY <3>1, <3>2
    <3>4. m = Len(w)
      OBVIOUS
    <3> QED
      BY ONLY <3>2, <3>3, <3>4
  <2>6. \A c \in f.disk : Agree(c, f.log, EndIn(g, f, n))
    BY <1>1, <2>1, <2>4 DEF WALInv, AckedOK
  <2>7. EndIn(g, f, n) = s[n + 1] /\ EndIn(g, f, k) = s[k + 1] /\ s[k + 1] \in Nat /\ s[n + 1] \in Nat
    BY <2>3, <2>5, EndFacts
  <2>8. s[k + 1] <= s[n + 1]
    BY <2>3, <2>5, LaidOrder DEF Indexed
  <2>9. \A c \in f.disk : Agree(c, f.log, EndIn(g, f, k))
    BY <2>6, <2>7, <2>8 DEF Agree
  <2> QED
    BY <2>1, <2>4, <2>9, DurableBy
<1> QED
  BY <1>4, <1>5

\* The cells of a record are those that Append laid out.
LEMMA CellsStand ==
  ASSUME NEW l \in Seq(Cell), NEW p \in Nat, NEW o \in Nat, NEW v \in Values, RecordAt(l, p, o, v)
  PROVE  SubSeq(l, p + 1, p + Size(v)) = Cells(o, v)
<1>1. PICK z \in Nat : z = Size(v) /\ z >= 3
  BY SizeType
<1>2. p + z <= Len(l) /\ l[p + 1] = Magic
      /\ \A j \in 1 .. z - 1 : l[p + 1 + j] = [piece |-> j, off |-> o, val |-> v]
  BY <1>1 DEF RecordAt
<1>3. PICK c : /\ c = Cells(o, v) /\ c \in Seq(Cell) /\ Len(c) = z /\ c[1] = Magic
               /\ \A j \in 1 .. z - 1 : c[1 + j] = [piece |-> j, off |-> o, val |-> v]
  <2>1. /\ Cells(o, v) \in Seq(Cell) /\ Len(Cells(o, v)) = Size(v) /\ Cells(o, v)[1] = Magic
        /\ \A j \in 1 .. Size(v) - 1 : Cells(o, v)[1 + j] = [piece |-> j, off |-> o, val |-> v]
    BY CellsFacts
  <2> QED
    BY <2>1, <1>1, Zenon
<1>4. /\ SubSeq(l, p + 1, p + z) \in Seq(Cell) /\ Len(SubSeq(l, p + 1, p + z)) = z
      /\ \A j \in 1 .. z : SubSeq(l, p + 1, p + z)[j] = l[p + j]
  <2>1. \A j \in p + 1 .. p + z : l[j] \in Cell
    BY <1>2
  <2>2. p + 1 \in Int /\ p + z \in Int /\ (p + z) - (p + 1) + 1 = z /\ p + 1 <= p + z
    BY <1>1
  <2>3. \A j \in 1 .. z : p + 1 + j - 1 = p + j
    OBVIOUS
  <2> QED
    BY <2>1, <2>2, <2>3, <1>1, SubSeqProperties, SMTT(30)
<1>5. PICK d : /\ d = SubSeq(l, p + 1, p + z) /\ d \in Seq(Cell) /\ Len(d) = z
               /\ \A j \in 1 .. z : d[j] = l[p + j]
  BY <1>4, Zenon
<1>6. d = c
  <2>1. d \in Seq(Cell) /\ c \in Seq(Cell) /\ Len(d) = z /\ Len(c) = z
    BY <1>3, <1>5
  <2>2. ASSUME NEW j \in 1 .. z
        PROVE  d[j] = c[j]
    <3>1. CASE j = 1
      BY <3>1, <1>1, <1>2, <1>3, <1>5
    <3>2. CASE j # 1
      <4>1. PICK h \in 1 .. z - 1 : j = 1 + h
        <5>1. j - 1 \in 1 .. z - 1 /\ j = 1 + (j - 1)
          BY <3>2
        <5> QED
          BY <5>1
      <4>2. p + j = p + 1 + h
        BY <4>1
      <4> QED
        BY <4>1, <4>2, <1>2, <1>3, <1>5, ZenonT(60)
    <3> QED
      BY <3>1, <3>2
  <2> QED
    BY <2>1, <2>2, SeqEqual
<1> QED
  BY <1>1, <1>3, <1>5, <1>6, Zenon

\* Read of an offset below nextOffset returns its record.
LEMMA ReadsRecord ==
  ASSUME WALInv, NEW i \in 1 .. Len(segments), NEW g, g = segments[i], NEW o \in Nat,
         g.base <= o, o < g.base + g.idxSize, NEW k, k = o - g.base + 1, NEW v,
         IsRecord(files[g.base], k, o, v)
  PROVE  Read(o) = [off |-> o, val |-> v]
<1> PICK f : f = files[g.base]
  OBVIOUS
<1> PICK p, l : p = f.idx[k] /\ l = f.log
  OBVIOUS
<1>1. FindSegment(o) = g
  BY SegmentFound
<1>2. /\ p \in Nat /\ v \in Values /\ l \in Seq(Cell) /\ RecordAt(l, p, o, v)
      /\ StartsAt(l, p) /\ EndOf(l, p) = p + Size(v)
      /\ l[p + 2] = [piece |-> 1, off |-> o, val |-> v]
  BY Zenon DEF IsRecord
<1>3. SubSeq(l, p + 1, p + Size(v)) = Cells(o, v)
  <2>1. l \in Seq(Cell) /\ p \in Nat /\ v \in Values /\ RecordAt(l, p, o, v)
    BY <1>2, Zenon
  <2> QED
    BY ONLY <2>1, o \in Nat, CellsStand
<1>4. l[p + 2].off = o /\ l[p + 2].val = v
  <2> PICK c : c = l[p + 2]
    OBVIOUS
  <2>1. c = [piece |-> 1, off |-> o, val |-> v]
    BY <1>2, Zenon
  <2>2. c.off = o /\ c.val = v
    BY ONLY <2>1
  <2> QED
    BY <2>2, Zenon
<1>5. SubSeq(l, p + 1, EndOf(l, p)) = Cells(l[p + 2].off, l[p + 2].val)
  BY <1>2, <1>3, <1>4, Zenon
<1>6. EndOf(l, p) <= Len(l)
  BY <1>2, Zenon DEF RecordAt
<1>7. o - g.base < g.idxSize
  <2>1. g \in [base: Nat, size: Nat, idxSize: Nat]
    BY SegmentFacts DEF WALInv
  <2> QED
    BY <2>1
<1>8. Read(o) = [off |-> l[p + 2].off, val |-> l[p + 2].val]
  BY <1>1, <1>2, <1>5, <1>6, <1>7, Zenon DEF Read
<1> QED
  BY <1>4, <1>8, Zenon

\* The values of a segment are what Read returns.
View ==
  \A i \in 1 .. Len(segments) : \A w, s :
    Indexed(segments[i], files[segments[i].base], w, s)
      => \A k \in 1 .. Len(w) : /\ Read(segments[i].base + k - 1)
                                     = [off |-> segments[i].base + k - 1, val |-> w[k]]
                                /\ ValueAt(segments[i].base + k - 1) = w[k]

\* It is so in every state of the log.
LEMMA ViewHolds == WALInv => View
<1> SUFFICES ASSUME WALInv, NEW i \in 1 .. Len(segments), NEW w, NEW s,
                    Indexed(segments[i], files[segments[i].base], w, s), NEW k \in 1 .. Len(w)
             PROVE  /\ Read(segments[i].base + k - 1)
                         = [off |-> segments[i].base + k - 1, val |-> w[k]]
                    /\ ValueAt(segments[i].base + k - 1) = w[k]
  BY DEF View
<1> PICK g, f, o, v : g = segments[i] /\ f = files[g.base] /\ o = g.base + k - 1 /\ v = w[k]
  OBVIOUS
<1>1. g \in [base: Nat, size: Nat, idxSize: Nat] /\ FileOK(g.base, f)
  BY SegmentFacts DEF WALInv
<1>2. IsRecord(f, k, o, v) /\ o \in Nat /\ o < g.base + g.idxSize
  BY <1>1, RecordFound
<1>3. g.base <= o /\ k = o - g.base + 1
  BY <1>1
<1>4. Read(o) = [off |-> o, val |-> v]
  BY <1>2, <1>3, ReadsRecord, ZenonT(60)
<1>5. ValueAt(o) = v
  BY <1>4 DEF ValueAt
<1> QED
  BY <1>4, <1>5

\* The types of the log's state, if no record is torn.
THEOREM WALTypeCorrect ==
  ASSUME ~Torn
  PROVE  Spec => []TypeOK
<1>1. WALInv => TypeOK
  <2> SUFFICES ASSUME WALInv
               PROVE  TypeOK
    OBVIOUS
  <2> DEFINE Shape == [base: DOMAIN files, size: Nat, idxSize: Nat]
  <2>1. ASSUME NEW b \in DOMAIN files
        PROVE  /\ b \in Nat
               /\ files[b].log \in Seq(Cell) /\ files[b].idx \in Seq(Nat)
               /\ files[b].log \in files[b].disk /\ \A c \in files[b].disk : c \in Seq(Cell)
    <3>1. b \in Nat /\ FileOK(b, files[b])
      BY DEF WALInv, Good
    <3> QED
      BY <3>1 DEF FileOK
  <2>2. segments \in Seq(Shape) /\ segments # <<>>
    <3>1. \A i \in 1 .. Len(segments) : segments[i] \in Shape
      BY SegmentFacts DEF WALInv
    <3>2. PICK n \in Nat : n = Len(segments) /\ segments # <<>>
      BY LastFacts DEF WALInv
    <3>3. segments = [i \in 1 .. n |-> segments[i]]
      BY <3>2 DEF WALInv, Good
    <3> HIDE DEF Shape
    <3>4. segments \in [1 .. n -> Shape]
      BY <3>1, <3>2, <3>3
    <3> QED
      BY <3>2, <3>4
  <2>3. /\ nextOffset \in Nat /\ acked \in Nat
        /\ pc \in {"ready", "write", "sync"}
        /\ value \in Values \cup {None}
        /\ appends \in 0 .. MaxAppends /\ restarts \in 0 .. MaxRestarts
    BY DEF WALInv, ControlOK, AckedOK
  <2>4. {sync, closed} \subseteq BOOLEAN
    BY Zenon DEF WALInv, ControlOK
  <2> QED
    BY <2>1, <2>2, <2>3, <2>4 DEF TypeOK
<1> QED
  BY <1>1, WALInvHolds, PTL

\* The segments tile the offsets, whatever failed and whenever it crashed: each begins
\* where the one before it ends, the last ends at nextOffset, and all records outside the
\* active one are durable.
THEOREM WALSegmentsTile ==
  ASSUME ~Torn
  PROVE  Spec => []SegmentsTile
<1>1. WALInv => SegmentsTile
  <2> SUFFICES ASSUME WALInv
               PROVE  SegmentsTile
    OBVIOUS
  <2>1. \A i \in 1 .. Len(segments) :
          segments[i].base + segments[i].idxSize
            = IF i = Len(segments) THEN nextOffset ELSE segments[i + 1].base
    BY DEF WALInv, Good
  <2>2. ASSUME NEW i \in 1 .. Len(segments) - 1,
               NEW o \in segments[i].base .. segments[i + 1].base - 1
        PROVE  IsDurable(o)
    <3>1. i \in 1 .. Len(segments) /\ i # Len(segments) /\ i + 1 \in 1 .. Len(segments)
      BY LastFacts DEF WALInv
    <3>2. segments[i].base \in Nat /\ segments[i + 1].base \in Nat
      BY <3>1, SegmentFacts DEF WALInv
    <3>3. segments[i].base + segments[i].idxSize = segments[i + 1].base
      BY <2>1, <3>1
    <3>4. o \in Nat /\ segments[i].base <= o /\ o < segments[i].base + segments[i].idxSize
      BY <3>2, <3>3
    <3> QED
      BY <3>1, <3>4, SettledDurable
  <2> QED
    BY <2>1, <2>2 DEF SegmentsTile
<1> QED
  BY <1>1, WALInvHolds, PTL

\* With sync-every-write, what Append acknowledged is durable.
THEOREM WALAckedDurable ==
  ASSUME ~Torn
  PROVE  Spec => []AckedDurable
<1>1. WALInv => AckedDurable
  <2> SUFFICES ASSUME WALInv
               PROVE  AckedDurable
    OBVIOUS
  <2>1. acked \in Nat /\ acked <= nextOffset
    BY DEF WALInv, AckedOK
  <2>2. \A o \in 0 .. acked - 1 : o \in Nat /\ o < acked
    BY <2>1
  <2> QED
    BY <2>1, <2>2, AckedIsDurable DEF AckedDurable
<1> QED
  BY <1>1, WALInvHolds, PTL

\* If no record is torn, every offset below nextOffset can be read after any number of
\* failed writes, failed rolls, restarts and power losses.
THEOREM WALReadable ==
  ASSUME ~Torn
  PROVE  Spec => []EveryRecordReadable
<1>1. WALInv => EveryRecordReadable
  <2> SUFFICES ASSUME WALInv, NEW o \in 0 .. nextOffset - 1
               PROVE  Read(o) # Corrupt
    BY DEF EveryRecordReadable
  <2>1. o \in Nat /\ o < nextOffset
    BY DEF WALInv, ControlOK
  <2>2. PICK i \in 1 .. Len(segments) : segments[i].base <= o /\ o < segments[i].base + segments[i].idxSize
    BY <2>1, OffsetHasSegment DEF WALInv
  <2>3. PICK g, k : g = segments[i] /\ k = o - g.base + 1
    OBVIOUS
  <2>4. PICK w, s : Indexed(g, files[g.base], w, s) /\ Len(w) = g.idxSize
    BY <2>3, RecordsOf
  <2>5. g.base \in Nat /\ g.idxSize \in Nat
    BY <2>3, SegmentFacts DEF WALInv
  <2>6. k \in 1 .. Len(w) /\ o = g.base + k - 1
    BY <2>1, <2>2, <2>3, <2>4, <2>5
  <2>7. Read(o) = [off |-> o, val |-> w[k]]
    <3>1. Indexed(segments[i], files[segments[i].base], w, s) /\ o = segments[i].base + k - 1
      BY <2>3, <2>4, <2>6
    <3> QED
      BY <2>6, <3>1, ViewHolds, ZenonT(60) DEF View
  <2>8. w[k] \in Values
    BY <2>4, <2>6 DEF Indexed, Laid
  <2> QED
    BY <2>7, <2>8, WalConstantsOK DEF Corrupt
<1> QED
  BY <1>1, WALInvHolds, PTL

-----------------------------------------------------------------------------
(* The refinement of DurableLog *)

\* The log, the file and the disk of DurableLog.
LogView == [i \in 1 .. nextOffset |-> ValueAt(i - 1)]
FileView == LogWith(files[Active.base].log)
DiskView == {LogWith(c) : c \in files[Active.base].disk}

\* The values in front of the active segment.
Old == [i \in 1 .. Active.base |-> ValueAt(i - 1)]

\* The files h have the records of g that the files f have.
Keeps(g, f, h) == h.log \in Seq(Cell) /\ Agree(h.log, f.log, g.size) /\ h.idx = f.idx

\* They have the same index of them.
LEMMA KeptIndexed ==
  ASSUME NEW g, NEW f, f.log \in Seq(Cell), NEW w, NEW s, Indexed(g, f, w, s),
         NEW h, Keeps(g, f, h)
  PROVE  Indexed(g, h, w, s)
<1> PICK l, c, b : l = f.log /\ c = h.log /\ b = g.base
  OBVIOUS
<1>1. Laid(l, b, w, s) /\ g.size = s[Len(w) + 1]
  BY DEF Indexed
<1>2. l \in Seq(Cell) /\ c \in Seq(Cell) /\ Agree(c, l, s[Len(w) + 1])
  BY <1>1 DEF Keeps
<1>3. Laid(c, b, w, s)
  BY ONLY <1>1, <1>2, LaidStays
<1> QED
  BY <1>3 DEF Indexed, Keeps

\* Append to a sequence that two make.
LEMMA JoinAppend ==
  ASSUME NEW S, NEW a \in Seq(S), NEW c \in Seq(S), NEW v \in S
  PROVE  a \o Append(c, v) = Append(a \o c, v)
<1> PICK m \in Nat : m = Len(a)
  OBVIOUS
<1> PICK n \in Nat : n = Len(c)
  OBVIOUS
<1>1. PICK d : d = a \o c
  OBVIOUS
<1>2. d \in Seq(S) /\ Len(d) = m + n /\ (\A i \in 1 .. m : d[i] = a[i]) /\ \A i \in 1 .. n : d[m + i] = c[i]
  BY <1>1, JoinSeq
<1>3. PICK e : e = Append(c, v)
  OBVIOUS
<1>4. e \in Seq(S) /\ Len(e) = n + 1 /\ e[n + 1] = v /\ \A i \in 1 .. n : e[i] = c[i]
  BY <1>3, AppendProperties
<1>5. PICK x, y : x = a \o e /\ y = Append(d, v)
  OBVIOUS
<1>6. /\ x \in Seq(S) /\ Len(x) = m + (n + 1) /\ \A i \in 1 .. m : x[i] = a[i]
      /\ \A i \in 1 .. n + 1 : x[m + i] = e[i]
  <2>1. a \in Seq(S) /\ e \in Seq(S) /\ x = a \o e
    BY <1>4, <1>5
  <2>2. /\ x \in Seq(S) /\ Len(x) = Len(a) + Len(e)
        /\ \A i \in 1 .. Len(a) : x[i] = a[i]
        /\ \A i \in 1 .. Len(e) : x[Len(a) + i] = e[i]
    BY ONLY <2>1, JoinSeq
  <2> QED
    BY <1>4, <2>2
<1>7. y \in Seq(S) /\ Len(y) = m + n + 1 /\ y[m + n + 1] = v /\ \A i \in 1 .. m + n : y[i] = d[i]
  BY <1>2, <1>5, AppendProperties
<1>8. ASSUME NEW i \in 1 .. Len(x)
      PROVE  x[i] = y[i]
  <2>1. CASE i <= m
    BY <1>2, <1>6, <1>7, <2>1
  <2>2. CASE i > m
    <3>1. PICK k \in 1 .. n + 1 : i = m + k
      <4>1. i - m \in 1 .. n + 1 /\ i = m + (i - m)
        BY <1>6, <2>2
      <4> QED
        BY <4>1
    <3>2. x[i] = e[k]
      BY <1>6, <3>1
    <3>3. CASE k = n + 1
      BY <1>4, <1>7, <3>1, <3>2, <3>3
    <3>4. CASE k # n + 1
      <4>1. k \in 1 .. n /\ i \in 1 .. m + n
        BY <3>1, <3>4
      <4> QED
        BY <1>2, <1>4, <1>7, <3>1, <3>2, <4>1
    <3> QED
      BY <3>3, <3>4
  <2> QED
    BY <1>6, <2>1, <2>2
<1>9. x \in Seq(S) /\ y \in Seq(S) /\ Len(x) = Len(y)
  BY <1>6, <1>7
<1>10. x = y
  BY ONLY <1>8, <1>9, SeqEqual
<1> QED
  BY <1>1, <1>3, <1>5, <1>10

\* The log is what is in front of the active segment and what is in it.
ActiveView ==
  /\ Old \in Seq(Values) /\ Len(Old) = Active.base
  /\ \A w, s : Indexed(Active, files[Active.base], w, s) => LogView = Old \o w

\* It is so in every state.
LEMMA ActiveViewHolds == WALInv => ActiveView
<1> SUFFICES ASSUME WALInv
             PROVE  ActiveView
  OBVIOUS
<1> PICK a, n, next : a = Active.base /\ n = Len(segments) /\ next = nextOffset
  OBVIOUS
<1>1. /\ Active \in [base: Nat, size: Nat, idxSize: Nat] /\ a \in Nat
      /\ a + Active.idxSize = next /\ next \in Nat /\ Active = segments[n] /\ n \in 1 .. n
  BY ActiveFacts, LastFacts DEF WALInv, Active
<1>2. ASSUME NEW o \in Nat, o < next
      PROVE  ValueAt(o) \in Values
  <2>1. PICK i \in 1 .. n : segments[i].base <= o /\ o < segments[i].base + segments[i].idxSize
    BY <1>2, OffsetHasSegment DEF WALInv
  <2>2. PICK g, k : g = segments[i] /\ k = o - g.base + 1
    OBVIOUS
  <2>3. PICK w, s : Indexed(g, files[g.base], w, s) /\ Len(w) = g.idxSize
    BY <2>2, RecordsOf
  <2>4. g.base \in Nat /\ g.idxSize \in Nat
    BY <2>2, SegmentFacts DEF WALInv
  <2>5. k \in 1 .. Len(w) /\ o = g.base + k - 1
    BY <2>1, <2>2, <2>3, <2>4
  <2>6. ValueAt(o) = w[k]
    <3>1. Indexed(segments[i], files[segments[i].base], w, s) /\ o = segments[i].base + k - 1
      BY <2>2, <2>3, <2>5
    <3> QED
      BY <2>5, <3>1, ViewHolds DEF View
  <2>7. w \in Seq(Values)
    BY <2>3 DEF Indexed, Laid
  <2> QED
    BY <2>5, <2>6, <2>7
<1>3. ASSUME NEW m \in Nat, m <= next, NEW x, x = [i \in 1 .. m |-> ValueAt(i - 1)]
      PROVE  x \in Seq(Values) /\ Len(x) = m /\ \A i \in 1 .. m : x[i] = ValueAt(i - 1)
  <2>1. ASSUME NEW i \in 1 .. m
        PROVE  x[i] \in Values /\ x[i] = ValueAt(i - 1)
    <3>1. i - 1 \in Nat /\ i - 1 < next
      BY <1>1, <1>3
    <3> QED
      BY <1>2, <1>3, <3>1
  <2>2. x = [i \in 1 .. m |-> x[i]]
    BY <1>3, <2>1
  <2>3. x \in [1 .. m -> Values]
    BY <2>1, <2>2
  <2> QED
    BY <2>1, <2>3
<1>4. Old \in Seq(Values) /\ Len(Old) = a /\ \A i \in 1 .. a : Old[i] = ValueAt(i - 1)
  BY <1>1, <1>3 DEF Old
<1>5. LogView \in Seq(Values) /\ Len(LogView) = next /\ \A i \in 1 .. next : LogView[i] = ValueAt(i - 1)
  <2> PICK l : l = LogView
    OBVIOUS
  <2>1. l = [i \in 1 .. next |-> ValueAt(i - 1)] /\ next <= next
    BY <1>1 DEF LogView
  <2>2. l \in Seq(Values) /\ Len(l) = next /\ \A i \in 1 .. next : l[i] = ValueAt(i - 1)
    BY <1>1, <1>3, <2>1
  <2> QED
    BY <2>2
<1>6. ASSUME NEW w, NEW s, Indexed(Active, files[a], w, s)
      PROVE  LogView = Old \o w
  <2>1. w \in Seq(Values) /\ Len(w) = Active.idxSize
    BY <1>6 DEF Indexed, Laid
  <2>2. \A k \in 1 .. Len(w) : ValueAt(a + k - 1) = w[k]
    <3>1. Indexed(segments[n], files[segments[n].base], w, s) /\ n \in 1 .. Len(segments)
          /\ segments[n].base = a
      BY <1>1, <1>6
    <3> QED
      BY <3>1, ViewHolds, ZenonT(60) DEF View
  <2> PICK x, old, m : x = Old \o w /\ old = Old /\ m = Len(w)
    OBVIOUS
  <2>3. /\ x \in Seq(Values) /\ Len(x) = a + m
        /\ \A i \in 1 .. a : x[i] = old[i]
        /\ \A i \in 1 .. m : x[a + i] = w[i]
    <3>1. old \in Seq(Values) /\ w \in Seq(Values) /\ x = old \o w
      BY <1>4, <2>1
    <3>2. /\ x \in Seq(Values) /\ Len(x) = Len(old) + Len(w)
          /\ \A i \in 1 .. Len(old) : x[i] = old[i]
          /\ \A i \in 1 .. Len(w) : x[Len(old) + i] = w[i]
      BY ONLY <3>1, JoinSeq
    <3>3. Len(old) = a /\ m = Len(w)
      BY <1>4
    <3> QED
      BY <3>2, <3>3
  <2>4. m \in Nat /\ a + m = next
    BY <1>1, <2>1
  <2>5. ASSUME NEW i \in 1 .. next
        PROVE  x[i] = ValueAt(i - 1)
    <3>1. CASE i <= a
      BY <1>4, <2>3, <3>1
    <3>2. CASE i > a
      <4>1. PICK k \in 1 .. m : i = a + k
        <5>1. i - a \in 1 .. m /\ i = a + (i - a)
          BY <1>1, <2>4, <3>2
        <5> QED
          BY <5>1
      <4>2. i - 1 = a + k - 1
        BY <1>1, <2>4, <4>1, SMTT(30)
      <4> QED
        BY <2>2, <2>3, <4>1, <4>2
    <3>3. i <= a \/ i > a
      BY <1>1
    <3> QED
      BY <3>1, <3>2, <3>3
  <2>6. PICK y : y = LogView
    OBVIOUS
  <2>7. y \in Seq(Values) /\ x \in Seq(Values) /\ Len(y) = next /\ Len(x) = next
        /\ \A i \in 1 .. next : y[i] = x[i]
    BY <1>5, <2>3, <2>4, <2>5, <2>6
  <2>8. y = x
    BY ONLY <2>7, SeqEqual
  <2> QED
    BY <2>6, <2>8
<1> QED
  BY <1>4, <1>6 DEF ActiveView

\* The same of the next state.
LEMMA ViewNext == WALInv' => View' /\ ActiveView'
BY ViewHolds, ActiveViewHolds, PTL

\* The segment i and its records stay.
Stays(i) ==
  /\ i \in 1 .. Len(segments') /\ segments'[i] = segments[i]
  /\ Keeps(segments[i], files[segments[i].base], files'[segments[i].base])

\* An offset in such a segment has the same value.
LEMMA ValueStays ==
  ASSUME WALInv, WALInv', NEW i \in 1 .. Len(segments), Stays(i), NEW o \in Nat,
         segments[i].base <= o, o < segments[i].base + segments[i].idxSize
  PROVE  ValueAt(o)' = ValueAt(o)
<1> PICK g, f, h, k : g = segments[i] /\ f = files[g.base] /\ h = files'[g.base] /\ k = o - g.base + 1
  OBVIOUS
<1>1. g \in [base: Nat, size: Nat, idxSize: Nat] /\ FileOK(g.base, f)
  BY SegmentFacts DEF WALInv
<1>2. PICK w, s : Indexed(g, f, w, s) /\ Len(w) = g.idxSize
  BY RecordsOf
<1>3. Keeps(g, f, h) /\ i \in 1 .. Len(segments') /\ segments'[i] = g
  BY DEF Stays
<1>4. Indexed(g, h, w, s)
  BY <1>1, <1>2, <1>3, KeptIndexed DEF FileOK
<1>5. k \in 1 .. Len(w) /\ o = g.base + k - 1
  BY <1>1, <1>2
<1>6. ValueAt(o) = w[k]
  <2>1. Indexed(segments[i], files[segments[i].base], w, s) /\ o = segments[i].base + k - 1
    BY <1>2, <1>5
  <2> QED
    BY <1>5, <2>1, ViewHolds, ZenonT(60) DEF View
<1>7. ValueAt(o)' = w[k]
  <2>1. Indexed(segments'[i], files'[segments'[i].base], w, s) /\ o = segments'[i].base + k - 1
    BY <1>3, <1>4, <1>5
  <2>2. View'
    BY ViewNext
  <2> QED
    BY <1>3, <1>5, <2>1, <2>2 DEF View
<1> QED
  BY <1>6, <1>7

\* If all segments but the last stay, so does what is in front of it.
LEMMA OldStays ==
  ASSUME WALInv, WALInv', \A i \in 1 .. Len(segments) - 1 : Stays(i), Active'.base = Active.base
  PROVE  Old' = Old
<1> PICK a, n : a = Active.base /\ n = Len(segments)
  OBVIOUS
<1>1. a \in Nat /\ a <= nextOffset /\ nextOffset \in Nat /\ n \in Nat /\ segments[n].base = a
  BY ActiveFacts, LastFacts DEF WALInv, Active
<1>2. ASSUME NEW j \in 1 .. a
      PROVE  ValueAt(j - 1)' = ValueAt(j - 1)
  <2>1. PICK o \in Nat : o = j - 1 /\ o < a /\ o < nextOffset
    <3>1. j - 1 \in Nat /\ j - 1 < a /\ j - 1 < nextOffset
      BY <1>1
    <3> QED
      BY <3>1
  <2>2. PICK i \in 1 .. n : segments[i].base <= o /\ o < segments[i].base + segments[i].idxSize
    BY <2>1, OffsetHasSegment DEF WALInv
  <2>3. segments[i].base \in Nat
    BY <2>2, SegmentFacts DEF WALInv
  <2>4. i \in 1 .. n - 1
    BY <1>1, <2>1, <2>2, <2>3
  <2> QED
    BY <2>1, <2>2, <2>4, ValueStays
<1> QED
  BY <1>2 DEF Old

\* If all stay and a new one begins behind them, they are what is in front of it.
LEMMA LogBecomesOld ==
  ASSUME WALInv, WALInv', \A i \in 1 .. Len(segments) : Stays(i), Active'.base = nextOffset
  PROVE  Old' = LogView
<1> PICK n : n = Len(segments)
  OBVIOUS
<1>1. nextOffset \in Nat
  BY ActiveFacts DEF WALInv
<1>2. ASSUME NEW j \in 1 .. nextOffset
      PROVE  ValueAt(j - 1)' = ValueAt(j - 1)
  <2>1. PICK o \in Nat : o = j - 1 /\ o < nextOffset
    <3>1. j - 1 \in Nat /\ j - 1 < nextOffset
      BY <1>1
    <3> QED
      BY <3>1
  <2>2. PICK i \in 1 .. n : segments[i].base <= o /\ o < segments[i].base + segments[i].idxSize
    BY <2>1, OffsetHasSegment DEF WALInv
  <2> QED
    BY <2>1, <2>2, ValueStays
<1> QED
  BY <1>2 DEF Old, LogView

\* What a write that was cut short leaves has the records of before.
LEMMA FoundCut ==
  ASSUME NEW file \in Seq(Cell), NEW b, NEW w, NEW s, Laid(file, b, w, s), NEW e, e = s[Len(w) + 1],
         NEW c, Begins(file, e, c), Len(c) < e + Header
  PROVE  Found(c) = w
<1>1. c \in Seq(Cell) /\ Agree(c, file, s[Len(w) + 1]) /\ e \in Nat
  <2>1. Len(w) + 1 \in 1 .. Len(s) /\ s \in Seq(Nat)
    BY DEF Laid
  <2> QED
    BY <2>1 DEF Begins
<1>2. Laid(c, b, w, s)
  BY <1>1, LaidStays
<1>3. ~StartsAt(c, s[Len(w) + 1])
  BY <1>1, NoMagicNoStart
<1> QED
  BY <1>1, <1>2, <1>3, ScanFinds

\* A whole record is found.
LEMMA FoundWhole ==
  ASSUME NEW file \in Seq(Cell), NEW b \in Nat, NEW w, NEW s, Laid(file, b, w, s),
         NEW e, e = s[Len(w) + 1], NEW v \in Values, NEW c, Begins(file, e, c),
         InFull(c, e, b + Len(w), v)
  PROVE  Found(c) = Append(w, v)
<1>1. c \in Seq(Cell) /\ Agree(c, file, s[Len(w) + 1]) /\ e \in Nat
  <2>1. Len(w) + 1 \in 1 .. Len(s) /\ s \in Seq(Nat)
    BY DEF Laid
  <2> QED
    BY <2>1 DEF Begins
<1>2. Laid(c, b, w, s)
  BY <1>1, LaidStays
<1> PICK o : o = b + Len(w)
  OBVIOUS
<1>3. RecordAt(c, e, o, v) /\ NoMagic(c, e + Size(v)) /\ e + Size(v) \in Nat
  BY <1>1, SizeType DEF InFull
<1>4. PICK x, t : OneMore(c, b, w, s, v, x, t)
  <2>1. b \in Nat /\ v \in Values /\ e = s[Len(w) + 1] /\ o = b + Len(w) /\ RecordAt(c, e, o, v)
    BY <1>3
  <2> QED
    BY ONLY <1>2, <2>1, LaidOneMore
<1>5. x = Append(w, v) /\ Laid(c, b, x, t) /\ Len(x) = Len(w) + 1 /\ t[Len(w) + 2] = e + Size(v)
  BY <1>4 DEF OneMore
<1>6. Len(x) + 1 = Len(w) + 2
  BY <1>2, <1>5 DEF Laid
<1>7. ~StartsAt(c, t[Len(x) + 1])
  BY <1>1, <1>3, <1>5, <1>6, NoMagicNoStart
<1> QED
  BY <1>1, <1>5, <1>7, ScanFinds

\* If recovery would find nothing behind the last record, the file is the log.
LEMMA FileIsLog ==
  ASSUME WALInv, NEW c \in files[Active.base].disk, Agree(c, files[Active.base].log, Active.size),
         ~StartsAt(c, Active.size)
  PROVE  LogWith(c) = LogView
<1> PICK a, f : a = Active.base /\ f = files[a]
  OBVIOUS
<1>1. FileOK(a, f) /\ SegOK(Active, f)
  BY ActiveFacts DEF WALInv
<1>2. PICK w, s : Indexed(Active, f, w, s)
  BY <1>1 DEF SegOK
<1>3. Laid(f.log, a, w, s) /\ Active.size = s[Len(w) + 1]
  BY <1>2 DEF Indexed
<1>4. c \in Seq(Cell) /\ f.log \in Seq(Cell) /\ Agree(c, f.log, s[Len(w) + 1])
  BY <1>1, <1>3 DEF FileOK
<1>5. Laid(c, a, w, s)
  BY <1>3, <1>4, LaidStays
<1>6. Found(c) = w
  BY <1>3, <1>4, <1>5, ScanFinds
<1>7. LogView = Old \o w
  BY <1>2, ActiveViewHolds DEF ActiveView
<1> QED
  BY <1>6, <1>7 DEF LogWith, Old

\* So it is when a write has to begin a new segment.
LEMMA FullFile ==
  ASSUME WALInv, Active.size >= MaxSegment
  PROVE  FileView = LogView
<1> PICK f, c : f = files[Active.base] /\ c = f.log
  OBVIOUS
<1>1. FileOK(Active.base, f) /\ SegOK(Active, f) /\ Active.size \in Nat
  BY ActiveFacts DEF WALInv
<1>2. PICK w, s : Indexed(Active, f, w, s)
  BY <1>1 DEF SegOK
<1>3. Active.size <= Len(c) /\ c \in f.disk
  BY <1>1, <1>2 DEF Indexed, Laid, FileOK
<1>4. Agree(c, f.log, Active.size)
  BY <1>3 DEF Agree
<1>5. ~StartsAt(c, Active.size)
  BY FullTail
<1> QED
  BY <1>3, <1>4, <1>5, FileIsLog DEF FileView

\* The files that a write of v leaves, as DurableLog sees them.
LEMMA WriteViews ==
  ASSUME WALInv, NEW f, f = files[Active.base], NEW v \in Values,
         NEW f2, Wrote(f, f2, Active.size, nextOffset, v)
  PROVE  /\ LogWith(f2.log) \in {FileView, Append(LogView, v)}
         /\ InFull(f2.log, Active.size, nextOffset, v) => LogWith(f2.log) = Append(LogView, v)
         /\ {LogWith(c) : c \in f2.disk} = DiskView \cup {LogWith(f2.log)}
<1> PICK a, e : a = Active.base /\ e = Active.size
  OBVIOUS
<1>1. /\ FileOK(a, f) /\ SegOK(Active, f) /\ a \in Nat /\ nextOffset \in Nat
      /\ a + Active.idxSize = nextOffset
  BY ActiveFacts DEF WALInv
<1>2. PICK w, s : Indexed(Active, f, w, s)
  BY <1>1 DEF SegOK
<1>3. /\ Laid(f.log, a, w, s) /\ e = s[Len(w) + 1] /\ f.log \in Seq(Cell) /\ w \in Seq(Values)
      /\ nextOffset = a + Len(w)
  BY <1>1, <1>2 DEF Indexed, Laid, FileOK
<1> PICK old : old = Old
  OBVIOUS
<1>4. old \in Seq(Values) /\ LogView = old \o w
  BY <1>2, ActiveViewHolds DEF ActiveView
<1>5. \A c : LogWith(c) = old \o Found(c)
  BY DEF LogWith, Old
<1>6. /\ f2.log \in f2.disk /\ f.disk \subseteq f2.disk /\ f.log \in f.disk
      /\ DiskView = {LogWith(c) : c \in f.disk} /\ FileView = LogWith(f.log)
  BY <1>1 DEF Wrote, FileOK, DiskView, FileView
<1>7. ASSUME NEW c, Begins(f.log, e, c), CutShort(f.log, e, c)
      PROVE  LogWith(c) = FileView
  <2>1. CASE c = f.log
    BY <1>6, <2>1
  <2>2. CASE Len(f.log) < e + Header /\ Len(c) < e + Header
    <3>1. Found(c) = w
      BY <1>3, <1>7, <2>2, FoundCut
    <3>2. Begins(f.log, e, f.log)
      BY <1>3 DEF Begins, Agree, Laid
    <3>3. Found(f.log) = w
      BY <1>3, <2>2, <3>2, FoundCut
    <3> QED
      BY <1>5, <1>6, <3>1, <3>3
  <2> QED
    BY <1>7, <2>1, <2>2 DEF CutShort
<1>8. ASSUME NEW c, Begins(f.log, e, c), InFull(c, e, nextOffset, v)
      PROVE  LogWith(c) = Append(LogView, v)
  <2>1. InFull(c, e, a + Len(w), v)
    BY <1>3, <1>8
  <2>2. Found(c) = Append(w, v)
    BY <1>1, <1>3, <1>8, <2>1, FoundWhole
  <2>3. old \o Append(w, v) = Append(old \o w, v)
    BY <1>3, <1>4, JoinAppend
  <2> QED
    BY <1>4, <1>5, <2>2, <2>3
<1>9. /\ Begins(f.log, e, f2.log)
      /\ CutShort(f.log, e, f2.log) \/ InFull(f2.log, e, nextOffset, v)
  BY DEF Wrote
<1>10. LogWith(f2.log) \in {FileView, Append(LogView, v)}
  BY <1>7, <1>8, <1>9
<1>11. InFull(f2.log, e, nextOffset, v) => LogWith(f2.log) = Append(LogView, v)
  BY <1>8, <1>9
<1>12. ASSUME NEW c \in f2.disk
       PROVE  LogWith(c) \in DiskView \cup {LogWith(f2.log)}
  <2>1. CASE c \in f.disk
    BY <1>6, <2>1
  <2>2. CASE c \notin f.disk
    <3>1. /\ Begins(f.log, e, c)
          /\ CutShort(f.log, e, c)
               \/ (InFull(c, e, nextOffset, v) /\ InFull(f2.log, e, nextOffset, v))
      BY <2>2 DEF Wrote
    <3>2. CASE CutShort(f.log, e, c)
      BY <1>6, <1>7, <3>1, <3>2
    <3>3. CASE InFull(c, e, nextOffset, v) /\ InFull(f2.log, e, nextOffset, v)
      BY <1>8, <1>11, <3>1, <3>3
    <3> QED
      BY <3>1, <3>2, <3>3
  <2> QED
    BY <2>1, <2>2
<1>13. {LogWith(c) : c \in f2.disk} = DiskView \cup {LogWith(f2.log)}
  BY <1>6, <1>12
<1> QED
  BY <1>10, <1>11, <1>13

\* The state of DurableLog, by its parts.
LEMMA AbstractStutters ==
  ASSUME LogView' = LogView, FileView' = FileView, DiskView' = DiskView, value' = value
  PROVE  UNCHANGED Abstract!vars
BY DEF Abstract!vars, LogView, FileView, DiskView

\* Its steps.
LEMMA AbstractBegins ==
  ASSUME value = None, NEW v, value' = v, LogView' = LogView, FileView' = FileView,
         DiskView' \in {DiskView, {FileView}}
  PROVE  Abstract!Begin(v)
BY DEF Abstract!Begin, LogView, FileView, DiskView

\* A sync.
LEMMA AbstractSyncs ==
  ASSUME LogView' = LogView, FileView' = FileView, DiskView' = {FileView}, value' = value
  PROVE  Abstract!Sync
BY DEF Abstract!Sync, LogView, FileView, DiskView

\* A write that succeeds.
LEMMA AbstractWrites ==
  ASSUME value # None, LogView' = Append(LogView, value), FileView' = LogView',
         DiskView' = DiskView \cup {LogView'}, value' = None
  PROVE  Abstract!Write
BY DEF Abstract!Write, LogView, FileView, DiskView

\* A write that fails.
LEMMA AbstractFails ==
  ASSUME value # None, LogView' = LogView, FileView' \in {FileView, Append(LogView, value)},
         DiskView' = DiskView \cup {FileView'}, value' = None
  PROVE  Abstract!WriteFails
BY DEF Abstract!WriteFails, LogView, FileView, DiskView

\* A restart of the process.
LEMMA AbstractReopens ==
  ASSUME LogView' = FileView, FileView' = FileView, DiskView' = DiskView, value' = None
  PROVE  Abstract!Reopen
BY DEF Abstract!Reopen, LogView, FileView, DiskView

\* A power loss.
LEMMA AbstractLoses ==
  ASSUME LogView' \in DiskView, FileView' = LogView', DiskView' = {LogView'}, value' = None
  PROVE  Abstract!PowerLoss
BY DEF Abstract!PowerLoss, LogView, FileView, DiskView

\* What is not written keeps its records.
LEMMA KeepsSame ==
  ASSUME NEW b, NEW f, FileOK(b, f), NEW g, SegOK(g, f), NEW h, h.log = f.log, h.idx = f.idx
  PROVE  Keeps(g, f, h)
<1>1. PICK w, s : Indexed(g, f, w, s)
  BY DEF SegOK
<1>2. f.log \in Seq(Cell) /\ g.size <= Len(f.log)
  BY <1>1 DEF Indexed, Laid, FileOK
<1> QED
  BY <1>2 DEF Keeps, Agree

\* A step that rewrites the files of the active segment leaves the others alone.
LEMMA OthersStay ==
  ASSUME WALInv, NEW g, files' = [files EXCEPT ![Active.base] = g],
         Len(segments') = Len(segments),
         \A i \in 1 .. Len(segments) - 1 : segments'[i] = segments[i]
  PROVE  \A i \in 1 .. Len(segments) - 1 : Stays(i)
<1> SUFFICES ASSUME NEW i \in 1 .. Len(segments) - 1
             PROVE  Stays(i)
  OBVIOUS
<1> PICK n, b : n = Len(segments) /\ b = segments[i].base
  OBVIOUS
<1>1. n \in Nat /\ n >= 1 /\ i \in 1 .. n /\ i < n
  BY LastFacts DEF WALInv
<1>2. segments[i] \in [base: Nat, size: Nat, idxSize: Nat] /\ b \in DOMAIN files
      /\ FileOK(b, files[b]) /\ SegOK(segments[i], files[b])
  BY <1>1, SegmentFacts DEF WALInv
<1>3. segments[i].base < segments[n].base /\ segments[n].base \in Nat
  <2>1. n \in 1 .. Len(segments)
    BY <1>1
  <2>2. segments[n].base \in Nat
    BY <2>1, SegmentFacts DEF WALInv
  <2>3. \A j, k \in 1 .. Len(segments) : j < k => segments[j].base < segments[k].base
    BY DEF WALInv, Good
  <2> QED
    BY <1>1, <2>1, <2>2, <2>3
<1>4. b # Active.base
  BY <1>2, <1>3 DEF Active
<1>5. files'[b] = files[b]
  BY <1>2, <1>4
<1>6. Keeps(segments[i], files[b], files'[b])
  BY <1>2, <1>5, KeepsSame
<1> QED
  BY <1>1, <1>6 DEF Stays

\* A file behind whose last record recovery would find nothing is the log.
EndedView ==
  \A c \in files[Active.base].disk :
    Agree(c, files[Active.base].log, Active.size) /\ ~StartsAt(c, Active.size)
      => LogWith(c) = LogView

\* It is so in every state, and in the next one.
LEMMA EndedNext == WALInv' => EndedView'
<1>1. WALInv => EndedView
  BY FileIsLog DEF EndedView
<1> QED
  BY <1>1, PTL

\* Where the segments in front of the active one stay, so does what a file stands for.
LEMMA LogWithStays ==
  ASSUME Old' = Old
  PROVE  \A c : LogWith(c)' = LogWith(c)
BY DEF LogWith, Old

\* A step that changes no log, no index and no segment.
LEMMA SameContents ==
  ASSUME WALInv, WALInv', UNCHANGED <<segments, nextOffset>>,
         \A b \in Bases : files'[b].log = files[b].log /\ files'[b].idx = files[b].idx
  PROVE  /\ LogView' = LogView /\ FileView' = FileView
         /\ DiskView' = {LogWith(c) : c \in files'[Active.base].disk}
<1> PICK a, n : a = Active.base /\ n = Len(segments)
  OBVIOUS
<1>1. Active' = Active /\ a \in Bases
  BY LastFacts DEF WALInv, Active, Bases
<1>2. \A i \in 1 .. n - 1 : Stays(i)
  <2> SUFFICES ASSUME NEW i \in 1 .. n - 1
               PROVE  Stays(i)
    OBVIOUS
  <2>1. i \in 1 .. Len(segments) /\ segments[i].base \in Bases
    BY LastFacts DEF WALInv, Bases
  <2>2. FileOK(segments[i].base, files[segments[i].base]) /\ SegOK(segments[i], files[segments[i].base])
    BY <2>1, SegmentFacts DEF WALInv
  <2>3. Keeps(segments[i], files[segments[i].base], files'[segments[i].base])
    BY <2>1, <2>2, KeepsSame
  <2> QED
    BY <2>1, <2>3 DEF Stays
<1>3. Old' = Old
  BY <1>1, <1>2, OldStays
<1>4. PICK w, s : Indexed(Active, files[a], w, s)
  BY ActiveFacts DEF WALInv, SegOK
<1>5. Indexed(Active, files'[a], w, s)
  BY <1>1, <1>4 DEF Indexed
<1>6. LogView = Old \o w
  BY <1>4, ActiveViewHolds DEF ActiveView
<1>7. LogView' = Old' \o w
  <2>1. ActiveView'
    BY ViewNext
  <2>2. Indexed(Active', files'[Active'.base], w, s)
    BY <1>1, <1>5
  <2> QED
    BY <2>1, <2>2 DEF ActiveView
<1>8. \A c : LogWith(c)' = LogWith(c)
  BY <1>3, LogWithStays
<1>9. FileView' = FileView
  BY <1>1, <1>8 DEF FileView
<1>10. DiskView' = {LogWith(c) : c \in files'[a].disk}
  BY <1>1, <1>8 DEF DiskView
<1> QED
  BY <1>3, <1>6, <1>7, <1>9, <1>10

\* fsync of the active segment, or of none.
LEMMA SyncedRefines ==
  ASSUME WALInv, WALInv', UNCHANGED <<segments, nextOffset>>, value' = value,
         \A b \in Bases : files'[b].log = files[b].log /\ files'[b].idx = files[b].idx,
         \/ files'[Active.base].disk = files[Active.base].disk
         \/ files'[Active.base].disk = {files[Active.base].log}
  PROVE  Abstract!Sync \/ UNCHANGED Abstract!vars
<1>1. /\ LogView' = LogView /\ FileView' = FileView
      /\ DiskView' = {LogWith(c) : c \in files'[Active.base].disk}
  BY SameContents
<1>2. CASE files'[Active.base].disk = files[Active.base].disk
  <2>1. DiskView' = DiskView
    BY <1>1, <1>2 DEF DiskView
  <2> QED
    BY <1>1, <2>1, AbstractStutters
<1>3. CASE files'[Active.base].disk = {files[Active.base].log}
  <2>1. DiskView' = {FileView}
    BY <1>1, <1>3 DEF FileView
  <2> QED
    BY <1>1, <2>1, AbstractSyncs
<1> QED
  BY <1>2, <1>3

\* What a sync of some files leaves of the segments' files.
LEMMA SyncedSome ==
  ASSUME WALInv, NEW D,
         files' = [b \in DOMAIN files |-> IF b \in D THEN Synced(files[b]) ELSE files[b]]
  PROVE  /\ \A b \in Bases : files'[b].log = files[b].log /\ files'[b].idx = files[b].idx
         /\ \/ files'[Active.base].disk = files[Active.base].disk
            \/ files'[Active.base].disk = {files[Active.base].log}
<1>1. \A b \in Bases : b \in DOMAIN files /\ FileOK(b, files[b])
  BY DEF WALInv, Good, Bases
<1>2. Active.base \in Bases
  BY LastFacts DEF WALInv, Active, Bases
<1>3. ASSUME NEW b \in Bases
      PROVE  /\ files'[b].log = files[b].log /\ files'[b].idx = files[b].idx
             /\ files'[b].disk = files[b].disk \/ files'[b].disk = {files[b].log}
  <2>1. CASE b \in D
    <3>1. files'[b] = Synced(files[b])
      BY <1>1, <2>1
    <3> PICK f, h : f = files[b] /\ h = files'[b]
      OBVIOUS
    <3>2. FileOK(b, f) /\ h = Synced(f)
      BY <1>1, <3>1
    <3>3. h.log = f.log /\ h.idx = f.idx /\ h.disk = {f.log}
      BY ONLY <3>2, SyncedFile
    <3> QED
      BY <3>3
  <2>2. CASE b \notin D
    <3>1. files'[b] = files[b]
      BY <1>1, <2>2
    <3> QED
      BY <3>1
  <2> QED
    BY <2>1, <2>2
<1> QED
  BY <1>2, <1>3

\* Append's end, the flush loop and Close.
LEMMA FlushRefines ==
  ASSUME WALInv, WALInv', AppendSync \/ Flush \/ Close
  PROVE  Abstract!Sync \/ UNCHANGED Abstract!vars
<1> PICK a : a = Active.base
  OBVIOUS
<1>1. UNCHANGED <<segments, nextOffset>> /\ value' = value
  BY DEF AppendSync, Flush, Close
<1>2. \E D : files' = [b \in DOMAIN files |-> IF b \in D THEN Synced(files[b]) ELSE files[b]]
  <2>1. a \in DOMAIN files /\ files = [b \in DOMAIN files |-> files[b]]
    BY ActiveFacts DEF WALInv, Good
  <2>2. CASE files' = files
    <3>1. PICK D : D = {}
      OBVIOUS
    <3>2. \A b : b \notin D
      BY <3>1
    <3>3. files' = [b \in DOMAIN files |-> IF b \in D THEN Synced(files[b]) ELSE files[b]]
      BY <2>1, <2>2, <3>2
    <3> QED
      BY <3>3
  <2>3. CASE files' = [files EXCEPT ![a] = Synced(@)]
    <3>1. files' = [b \in DOMAIN files |-> IF b \in {a} THEN Synced(files[b]) ELSE files[b]]
      BY <2>1, <2>3
    <3> QED
      BY <3>1
  <2>4. CASE Close
    BY <2>4, Zenon DEF Close
  <2>5. CASE AppendSync \/ Flush
    BY <2>2, <2>3, <2>5 DEF AppendSync, Flush
  <2> QED
    BY <2>4, <2>5
<1> QED
  BY <1>1, <1>2, SyncedSome, SyncedRefines

\* Nothing is left behind the last record of an empty segment's file.
LEMMA EmptyEnds ==
  ASSUME NEW c, c = <<>>
  PROVE  Agree(c, c, 0) /\ ~StartsAt(c, 0) /\ c \in Seq(Cell) /\ Len(c) = 0
<1>1. c \in Seq(Cell) /\ Len(c) = 0
  BY EmptySeq
<1> QED
  BY <1>1 DEF Agree, StartsAt, Header

\* When an empty segment begins behind the others, the log is what it was.
LEMMA EmptyView ==
  ASSUME WALInv, WALInv', \A i \in 1 .. Len(segments) : Stays(i), Active'.base = nextOffset,
         nextOffset' = nextOffset, Active'.size = 0,
         files'[nextOffset].log = <<>>, files'[nextOffset].disk = {<<>>}
  PROVE  LogView' = LogView /\ FileView' = LogView /\ DiskView' = {LogView}
<1>1. Old' = LogView
  BY LogBecomesOld
<1>2. LogView' = LogView
  BY <1>1 DEF Old, LogView
<1> PICK c : c = <<>>
  OBVIOUS
<1>3. files'[Active'.base].log = c /\ files'[Active'.base].disk = {c}
  OBVIOUS
<1>4. Agree(c, c, 0) /\ ~StartsAt(c, 0)
  BY EmptyEnds
<1>5. EndedView'
  BY EndedNext
<1>6. LogWith(c)' = LogView'
  BY <1>3, <1>4, <1>5 DEF EndedView
<1> QED
  BY <1>2, <1>3, <1>6 DEF FileView, DiskView

\* The fsyncs of a roll, whether it succeeds or not.
LEMMA AppendBeginRefines ==
  ASSUME WALInv, WALInv', NEW v \in Values, AppendBegin(v)
  PROVE  Abstract!Begin(v) \/ Abstract!Sync \/ UNCHANGED Abstract!vars
<1> PICK a : a = Active.base
  OBVIOUS
<1>1. pc = "ready" /\ value = None /\ nextOffset' = nextOffset
  BY DEF AppendBegin, WALInv, ControlOK
<1>2. a \in DOMAIN files /\ FileOK(a, files[a]) /\ files = [b \in DOMAIN files |-> files[b]]
  BY ActiveFacts DEF WALInv, Good
<1>3. CASE UNCHANGED <<files, segments>> /\ value' = v
  <2>1. /\ LogView' = LogView /\ FileView' = FileView
        /\ DiskView' = {LogWith(c) : c \in files'[Active.base].disk}
    BY <1>1, <1>3, SameContents
  <2>2. DiskView' = DiskView
    BY <1>3, <2>1 DEF DiskView
  <2> QED
    BY <1>1, <1>3, <2>1, <2>2, AbstractBegins
<1>4. CASE /\ Active.size >= MaxSegment /\ files' = Rolled
           /\ segments' = Append(segments, Extra) /\ value' = v
  <2>1. PICK n \in Nat : n = Len(segments) /\ n >= 1
    BY LastFacts DEF WALInv
  <2>2. /\ Len(segments') = n + 1 /\ segments'[n + 1] = Extra
        /\ \A i \in 1 .. n : segments'[i] = segments[i]
    BY <1>4, <2>1 DEF WALInv, Good
  <2>3. Active' = Extra
    BY <2>2 DEF Active
  <2>4. /\ Rolled[nextOffset] = NoFile
        /\ Rolled[a].log = files[a].log /\ Rolled[a].idx = files[a].idx
    BY <1>4, RolledFacts
  <2>5. ASSUME NEW i \in 1 .. n
        PROVE  Stays(i)
    <3>1. PICK b : b = segments[i].base
      OBVIOUS
    <3>2. b \in DOMAIN files /\ FileOK(b, files[b]) /\ SegOK(segments[i], files[b])
      BY <2>1, <3>1, SegmentFacts DEF WALInv
    <3>3. b # a => Rolled[b] = files[b]
      BY <3>2 DEF Rolled
    <3>4. Rolled[b].log = files[b].log /\ Rolled[b].idx = files[b].idx
      BY <2>4, <3>3
    <3>5. Keeps(segments[i], files[b], files'[b])
      BY <1>4, <3>2, <3>4, KeepsSame
    <3> QED
      BY <2>1, <2>2, <3>1, <3>5 DEF Stays
  <2>6. /\ Active'.base = nextOffset /\ Active'.size = 0
        /\ files'[nextOffset].log = <<>> /\ files'[nextOffset].disk = {<<>>}
    <3>1. nextOffset \in Nat
      BY ActiveFacts DEF WALInv
    <3>2. Extra = [base |-> nextOffset, size |-> 0, idxSize |-> 0]
      BY <3>1, EmptySegment DEF Extra
    <3>3. NoFile.log = <<>> /\ NoFile.disk = {<<>>}
      BY <3>1, EmptySegment
    <3> QED
      BY <1>4, <2>3, <2>4, <3>2, <3>3
  <2>7. LogView' = LogView /\ FileView' = LogView /\ DiskView' = {LogView}
    BY <1>1, <2>1, <2>5, <2>6, EmptyView
  <2>8. FileView = LogView
    BY <1>4, FullFile
  <2> QED
    BY <1>1, <1>4, <2>7, <2>8, AbstractBegins
<1>5. CASE /\ Active.size >= MaxSegment /\ UNCHANGED <<segments, value>>
           /\ files' \in {files, [files EXCEPT ![a] = Synced(@)], Rolled}
  <2>1. ASSUME NEW b \in Bases
        PROVE  /\ files'[b].log = files[b].log /\ files'[b].idx = files[b].idx
               /\ b # a => files'[b] = files[b]
    <3>1. b \in DOMAIN files /\ FileOK(b, files[b])
      BY DEF WALInv, Good, Bases
    <3>2. CASE files' = files
      BY <3>2
    <3>3. CASE files' = [files EXCEPT ![a] = Synced(@)]
      <4>1. b # a => files'[b] = files[b]
        BY <3>1, <3>3
      <4>2. files'[a] = Synced(files[a])
        BY <1>2, <3>3
      <4> PICK f, h : f = files[a] /\ h = files'[a]
        OBVIOUS
      <4>3. h.log = f.log /\ h.idx = f.idx
        <5>1. FileOK(a, f) /\ h = Synced(f)
          BY <1>2, <4>2
        <5> QED
          BY ONLY <5>1, SyncedFile
      <4> QED
        BY <4>1, <4>3
    <3>4. CASE files' = Rolled
      <4>1. b # a => Rolled[b] = files[b]
        BY <3>1 DEF Rolled
      <4>2. Rolled[a].log = files[a].log /\ Rolled[a].idx = files[a].idx
        BY <1>5, RolledFacts
      <4> QED
        BY <3>4, <4>1, <4>2
    <3> QED
      BY <1>5, <3>2, <3>3, <3>4
  <2>2. files'[a].disk = files[a].disk \/ files'[a].disk = {files[a].log}
    <3>1. CASE files' = files
      BY <3>1
    <3>2. CASE files' = [files EXCEPT ![a] = Synced(@)]
      <4> PICK f, h : f = files[a] /\ h = files'[a]
        OBVIOUS
      <4>1. FileOK(a, f) /\ h = Synced(f)
        BY <1>2, <3>2
      <4>2. h.disk = {f.log}
        BY ONLY <4>1, SyncedFile
      <4> QED
        BY <4>2
    <3>3. CASE files' = Rolled
      BY <1>5, <3>3, RolledFacts
    <3> QED
      BY <1>5, <3>1, <3>2, <3>3
  <2> QED
    BY <1>1, <1>5, <2>1, <2>2, SyncedRefines
<1> QED
  BY <1>3, <1>4, <1>5 DEF AppendBegin, Extra

\* The writes of Append, when they fail.
LEMMA FailRefines ==
  ASSUME WALInv, WALInv', AppendWrite, NEW f2, WriteFailed(f2)
  PROVE  Abstract!WriteFails
<1> PICK a, f, v : a = Active.base /\ f = files[a] /\ v = value
  OBVIOUS
<1>1. v \in Values /\ value' = None /\ v # None
  BY WriteState, WalConstantsOK
<1>2. /\ Wrote(f, f2, Active.size, nextOffset, v) /\ files' = [files EXCEPT ![a] = f2]
      /\ UNCHANGED <<segments, nextOffset>>
  BY DEF WriteFailed
<1>3. Active' = Active /\ a \in DOMAIN files /\ SegOK(Active, f)
  BY <1>2, ActiveFacts DEF WALInv, Active
<1>4. files'[a] = f2
  BY <1>2, <1>3
<1>5. \A i \in 1 .. Len(segments) - 1 : Stays(i)
  BY <1>2, OthersStay
<1>6. Old' = Old
  BY <1>3, <1>5, OldStays
<1>7. PICK w, s : Indexed(Active, f, w, s)
  BY <1>3 DEF SegOK
<1>8. Indexed(Active, f2, w, s)
  BY <1>1, <1>2, <1>7, WroteFacts
<1>9. LogView = Old \o w
  BY <1>7, ActiveViewHolds DEF ActiveView
<1>10. LogView' = Old' \o w
  <2>1. ActiveView'
    BY ViewNext
  <2>2. Indexed(Active', files'[Active'.base], w, s)
    BY <1>3, <1>4, <1>8
  <2> QED
    BY <2>1, <2>2 DEF ActiveView
<1>11. \A c : LogWith(c)' = LogWith(c)
  BY <1>6, LogWithStays
<1>12. /\ LogWith(f2.log) \in {FileView, Append(LogView, v)}
       /\ {LogWith(c) : c \in f2.disk} = DiskView \cup {LogWith(f2.log)}
  BY <1>1, <1>2, WriteViews
<1>13. FileView' = LogWith(f2.log) /\ DiskView' = {LogWith(c) : c \in f2.disk}
  BY <1>3, <1>4, <1>11 DEF FileView, DiskView
<1>14. LogView' = LogView
  BY <1>6, <1>9, <1>10
<1> QED
  BY <1>1, <1>12, <1>13, <1>14, AbstractFails

\* When they succeed.
LEMMA DoneRefines ==
  ASSUME WALInv, WALInv', AppendWrite, NEW f2, NEW g, WriteDone(f2, g)
  PROVE  Abstract!Write
<1> PICK a, f, v, n : a = Active.base /\ f = files[a] /\ v = value /\ n = Len(segments)
  OBVIOUS
<1> PICK e, z : e = Active.size /\ z = Size(v)
  OBVIOUS
<1>1. v \in Values /\ value' = None /\ v # None /\ e \in Nat /\ z \in Nat
  <2>1. value \in Values /\ value' = None
    BY WriteState
  <2>2. Active.size \in Nat
    BY ActiveFacts DEF WALInv
  <2> QED
    BY <2>1, <2>2, SizeType, WalConstantsOK
<1>2. /\ Wrote(f, f2, e, nextOffset, v) /\ InFull(f2.log, e, nextOffset, v)
      /\ g.log = f2.log /\ g.disk = f2.disk /\ files' = [files EXCEPT ![a] = g]
      /\ segments' = [segments EXCEPT ![n] = [base |-> a, size |-> @.size + z,
                                              idxSize |-> @.idxSize + 1]]
  BY DEF WriteDone
<1>3. n \in Nat /\ n >= 1 /\ a \in DOMAIN files
  BY LastFacts, ActiveFacts DEF WALInv
<1>4. /\ Len(segments') = n /\ Active'.base = a /\ Active'.size = e + z
      /\ \A i \in 1 .. n - 1 : segments'[i] = segments[i]
  <2>1. PICK h : h = [base |-> a, size |-> e + z, idxSize |-> Active.idxSize + 1]
    OBVIOUS
  <2>2. segments' = [segments EXCEPT ![n] = h]
    BY <1>2, <2>1 DEF Active
  <2>3. segments \in Seq([base: Nat, size: Nat, idxSize: Nat])
    BY DEF WALInv, Good
  <2> HIDE DEF Active
  <2>4. Len(segments') = n /\ segments'[n] = h /\ \A i \in 1 .. n - 1 : segments'[i] = segments[i]
    BY <1>3, <2>2, <2>3
  <2>5. Active' = h
    BY <2>4 DEF Active
  <2> QED
    BY <2>1, <2>4, <2>5
<1>5. files'[a] = g
  BY <1>2, <1>3
<1>6. \A i \in 1 .. n - 1 : Stays(i)
  BY <1>2, <1>4, OthersStay
<1>7. Old' = Old
  BY <1>4, <1>6, OldStays
<1>8. \A c : LogWith(c)' = LogWith(c)
  BY <1>7, LogWithStays
<1>9. /\ LogWith(f2.log) = Append(LogView, v)
      /\ {LogWith(c) : c \in f2.disk} = DiskView \cup {LogWith(f2.log)}
  BY <1>1, <1>2, WriteViews
<1>10. FileView' = LogWith(f2.log) /\ DiskView' = {LogWith(c) : c \in f2.disk}
  BY <1>2, <1>4, <1>5, <1>8 DEF FileView, DiskView
<1>11. LogView' = FileView'
  <2>1. PICK c : c = f2.log
    OBVIOUS
  <2>2. c \in Seq(Cell) /\ c \in f2.disk
    BY <1>2, <2>1 DEF Wrote
  <2>3. e + z <= Len(c) /\ NoMagic(c, e + z) /\ e + z \in Nat
    BY <1>1, <1>2, <2>1 DEF InFull, RecordAt
  <2>4. ~StartsAt(c, e + z) /\ Agree(c, c, e + z)
    BY <2>2, <2>3, NoMagicNoStart DEF Agree
  <2>5. EndedView'
    BY EndedNext
  <2>6. c \in files'[Active'.base].disk /\ files'[Active'.base].log = c
    BY <1>2, <1>4, <1>5, <2>1, <2>2
  <2>7. LogWith(c)' = LogView'
    BY <1>4, <2>4, <2>5, <2>6 DEF EndedView
  <2> QED
    BY <1>8, <1>10, <2>1, <2>7
<1> QED
  BY <1>1, <1>9, <1>10, <1>11, AbstractWrites

\* The writes of Append.
LEMMA AppendWriteRefines ==
  ASSUME WALInv, WALInv', AppendWrite, ~Torn
  PROVE  Abstract!Write \/ Abstract!WriteFails
BY AppendWriteCases, FailRefines, DoneRefines

\* When the last segment that was found was the active one, the log becomes what the file
\* that was found stands for.
LEMMA RestartSame ==
  ASSUME WALInv, WALInv', NEW found, NEW n, NEW b, NEW w, NEW s,
         OpensTo(found, segments, n, b, w, s)
  PROVE  /\ b = Active.base /\ LogView' = LogWith(found[b].log) /\ FileView' = LogView'
         /\ DiskView' = {LogWith(c) : c \in found[b].disk}
         /\ found[b].log \in found[b].disk /\ found[b].log \in files[b].disk
<1> PICK d, r : d = found[b] /\ r = files'[b]
  OBVIOUS
<1>1. /\ n = Len(segments) /\ n \in Nat /\ n >= 1 /\ b = segments[n].base
      /\ LeftFile(files[b], d) /\ RecoveredAs(d, r, b, w, s)
      /\ \A i \in 1 .. n - 1 : /\ segments'[i] = segments[i]
                               /\ Carried(segments[i], files[segments[i].base],
                                          files'[segments[i].base])
      /\ Len(segments') = n /\ segments'[n] = Segment(b, r)
  BY SMTT(60) DEF OpensTo
<1>2. b = Active.base /\ Active' = Segment(b, r) /\ Active'.base = b
  BY <1>1 DEF Active, Segment
<1>3. \A i \in 1 .. n - 1 : Stays(i)
  <2> SUFFICES ASSUME NEW i \in 1 .. n - 1
               PROVE  Stays(i)
    OBVIOUS
  <2> PICK h : h = files'[segments[i].base]
    OBVIOUS
  <2>1. Carried(segments[i], files[segments[i].base], h) /\ segments'[i] = segments[i]
    BY <1>1
  <2>2. h.log \in Seq(Cell)
    BY <2>1 DEF Carried, FileOK
  <2>3. i \in 1 .. Len(segments')
    BY <1>1
  <2> QED
    BY <2>1, <2>2, <2>3 DEF Stays, Keeps, Carried
<1>4. Old' = Old
  BY <1>1, <1>2, <1>3, OldStays
<1>5. \A c : LogWith(c)' = LogWith(c)
  BY <1>4, LogWithStays, ZenonT(60)
<1>6. /\ Laid(d.log, b, w, s) /\ ~StartsAt(d.log, s[Len(w) + 1])
      /\ Indexed(Segment(b, r), r, w, s) /\ r.disk = d.disk \cup {r.log}
      /\ Len(r.log) = s[Len(w) + 1] /\ r.log \in Seq(Cell)
  BY <1>1 DEF RecoveredAs, FileOK
<1>7. d.log \in Seq(Cell) /\ d.log \in d.disk /\ d.log \in files[b].disk
  BY <1>1 DEF LeftFile
<1>8. Found(d.log) = w
  BY <1>6, <1>7, ScanFinds
<1>9. LogView' = Old \o w
  <2>1. ActiveView'
    BY ViewNext
  <2>2. Indexed(Active', files'[Active'.base], w, s)
    BY <1>2, <1>6
  <2> QED
    BY <1>4, <2>1, <2>2 DEF ActiveView
<1>10. LogWith(d.log) = Old \o w
  BY <1>8 DEF LogWith, Old
<1>11. LogWith(r.log) = LogView'
  <2>1. PICK c, m : c = r.log /\ m = Len(c)
    OBVIOUS
  <2>2. c \in Seq(Cell) /\ m \in Nat
    BY <1>6, <2>1
  <2>3. Agree(c, c, m) /\ ~StartsAt(c, m)
    BY <2>1, <2>2 DEF Agree, StartsAt, Header
  <2>4. Active'.size = m
    BY <1>2, <2>1 DEF Segment
  <2>5. c \in files'[Active'.base].disk /\ files'[Active'.base].log = c
    BY <1>2, <1>6, <2>1
  <2>6. EndedView'
    BY EndedNext
  <2>7. LogWith(c)' = LogView'
    BY <2>3, <2>4, <2>5, <2>6 DEF EndedView
  <2> QED
    BY <1>5, <2>1, <2>7
<1>12. FileView' = LogWith(r.log) /\ DiskView' = {LogWith(c) : c \in r.disk}
  BY <1>2, <1>5 DEF FileView, DiskView
<1>13. DiskView' = {LogWith(c) : c \in d.disk}
  BY <1>6, <1>7, <1>9, <1>10, <1>11, <1>12
<1> QED
  BY <1>2, <1>7, <1>9, <1>10, <1>11, <1>12, <1>13

\* When it was the one that a failed roll left, the log stays what it was.
LEMMA RestartRolled ==
  ASSUME WALInv, WALInv', NEW found, NEW segs, segs = Append(segments, Extra),
         NEW n, NEW b, NEW w, NEW s, OpensTo(found, segs, n, b, w, s)
  PROVE  /\ FileView = LogView /\ DiskView = {LogView}
         /\ LogView' = LogView /\ FileView' = LogView /\ DiskView' = {LogView}
<1> PICK d, r, k, a : d = found[b] /\ r = files'[b] /\ k = Len(segments) /\ a = Active.base
  OBVIOUS
<1>1. /\ n = Len(segs) /\ n \in Nat /\ n >= 1 /\ b = segs[n].base
      /\ LeftFile(files[b], d) /\ RecoveredAs(d, r, b, w, s)
      /\ \A i \in 1 .. n - 1 : /\ segments'[i] = segs[i]
                               /\ Carried(segs[i], files[segs[i].base], files'[segs[i].base])
      /\ Len(segments') = n /\ segments'[n] = Segment(b, r)
      /\ nextOffset' = b + Len(w) /\ Directory(segs)
  BY SMTT(60) DEF OpensTo
<1>2. k \in Nat /\ k >= 1 /\ nextOffset \in Nat
  BY LastFacts DEF WALInv
<1>3. n = k + 1 /\ segs[n] = Extra /\ \A i \in 1 .. k : segs[i] = segments[i]
  BY <1>1, <1>2 DEF WALInv, Good
<1>4. b = nextOffset
  BY <1>1, <1>3 DEF Extra, Segment
<1>5. files[nextOffset] = NoFile /\ Good(segs, files, nextOffset)
      /\ DOMAIN files = {segs[i].base : i \in 1 .. Len(segs)}
  <2>1. segs # segments
    BY <1>1, <1>2, <1>3
  <2> QED
    BY <1>1, <2>1 DEF Directory
<1>6. Active.size >= MaxSegment
  <2>1. nextOffset \notin Bases
    <3> SUFFICES ASSUME NEW i \in 1 .. k, nextOffset = segments[i].base
                 PROVE  FALSE
      BY DEF Bases
    <3>1. segs[i].base < segs[n].base
      <4>1. i \in 1 .. Len(segs) /\ n \in 1 .. Len(segs) /\ i < n
        BY <1>1, <1>2, <1>3
      <4>2. \A j, m \in 1 .. Len(segs) : j < m => segs[j].base < segs[m].base
        BY <1>5 DEF Good
      <4> QED
        BY <4>1, <4>2
    <3> QED
      BY <1>1, <1>2, <1>3, <1>4, <3>1
  <2>2. nextOffset \in DOMAIN files
    <3>1. n \in 1 .. Len(segs)
      BY <1>1
    <3> QED
      BY <1>1, <1>4, <1>5, <3>1
  <2> QED
    BY <2>1, <2>2 DEF WALInv, OrphanOK
<1>7. FileView = LogView
  BY <1>6, FullFile
<1>8. DiskView = {LogView}
  <2>1. Settled(Active, files[a])
    <3>1. k \in 1 .. Len(segs) - 1 /\ segs[k] = Active
      BY <1>1, <1>2, <1>3 DEF Active
    <3> QED
      BY <1>5, <3>1 DEF Good
  <2>2. \A c \in files[a].disk : LogWith(c) = LogView
    BY <2>1, FileIsLog DEF Settled
  <2>3. files[a].log \in files[a].disk
    BY ActiveFacts DEF WALInv, FileOK
  <2> QED
    BY <2>2, <2>3 DEF DiskView
<1>9. d.log = <<>> /\ d.disk = {<<>>}
  <2>1. NoFile.disk = {<<>>}
    BY ONLY DEF NoFile
  <2>2. LeftFile(NoFile, d)
    BY <1>1, <1>4, <1>5
  <2>3. d.log \in {<<>>} /\ d.log \in d.disk /\ d.disk \subseteq {<<>>}
    BY ONLY <2>1, <2>2 DEF LeftFile
  <2> QED
    BY ONLY <2>3
<1>10. /\ Laid(d.log, b, w, s) /\ Len(r.log) = s[Len(w) + 1] /\ r.disk = d.disk \cup {r.log}
       /\ r.log \in Seq(Cell)
  BY <1>1 DEF RecoveredAs, FileOK
<1>11. Len(w) = 0 /\ s[Len(w) + 1] = 0
  <2>1. w \in Seq(Values) /\ s \in Seq(Nat) /\ Len(s) = Len(w) + 1 /\ s[1] = 0
    BY <1>10 DEF Laid
  <2>2. ASSUME Len(w) # 0
        PROVE  FALSE
    <3>1. 1 \in 1 .. Len(w) /\ w[1] \in Values
      BY <2>1, <2>2
    <3>2. RecordAt(d.log, s[1], b + 1 - 1, w[1])
      BY <1>10, <3>1 DEF Laid
    <3>3. 0 + Size(w[1]) <= Len(d.log)
      BY <2>1, <3>2 DEF RecordAt
    <3>4. Size(w[1]) \in Nat /\ Size(w[1]) >= 1 /\ Len(d.log) = 0
      BY <1>9, <3>1, SizeType, EmptyEnds
    <3> QED
      BY <3>3, <3>4
  <2> QED
    BY <2>1, <2>2
<1>12. r.log = <<>> /\ r.disk = {<<>>}
  <2>1. r.log = <<>>
    BY <1>10, <1>11
  <2> QED
    BY <1>9, <1>10, <2>1
<1>13. Active'.base = nextOffset /\ Active'.size = 0 /\ nextOffset' = nextOffset
  <2>1. Active' = Segment(b, r)
    BY <1>1 DEF Active
  <2>2. Active'.size = 0 /\ Active'.base = b
    BY <1>10, <1>11, <2>1 DEF Segment
  <2> QED
    BY <1>1, <1>2, <1>4, <1>11, <2>2
<1>14. \A i \in 1 .. k : Stays(i)
  <2> SUFFICES ASSUME NEW i \in 1 .. k
               PROVE  Stays(i)
    OBVIOUS
  <2> PICK h : h = files'[segments[i].base]
    OBVIOUS
  <2>1. i \in 1 .. n - 1 /\ segs[i] = segments[i] /\ i \in 1 .. Len(segments')
    BY <1>1, <1>2, <1>3
  <2>2. Carried(segments[i], files[segments[i].base], h) /\ segments'[i] = segments[i]
    BY <1>1, <2>1
  <2>3. h.log \in Seq(Cell)
    BY <2>2 DEF Carried, FileOK
  <2> QED
    BY <2>1, <2>2, <2>3 DEF Stays, Keeps, Carried
<1>15. LogView' = LogView /\ FileView' = LogView /\ DiskView' = {LogView}
  <2>1. files'[nextOffset].log = <<>> /\ files'[nextOffset].disk = {<<>>}
    BY <1>4, <1>12
  <2> QED
    BY <1>13, <1>14, <2>1, EmptyView
<1> QED
  BY <1>7, <1>8, <1>15

\* NewWAL, after the process ended or the machine went down.
LEMMA RestartRefines ==
  ASSUME WALInv, WALInv', Reopen \/ PowerLoss
  PROVE  Abstract!Reopen \/ Abstract!PowerLoss
<1>1. ASSUME NEW found, Open(found)
      PROVE  value' = None
  BY <1>1 DEF Open
<1>2. CASE Reopen
  <2>1. Left(files) /\ Open(files)
    BY <1>2, ReopenFinds
  <2>2. PICK segs, n, b, w, s : OpensTo(files, segs, n, b, w, s)
    BY <2>1, OpenFinds
  <2>3. segs = segments \/ segs = Append(segments, Extra)
    BY <2>2 DEF OpensTo, Directory
  <2>4. CASE segs = segments
    <3>1. /\ b = Active.base /\ LogView' = LogWith(files[b].log) /\ FileView' = LogView'
          /\ DiskView' = {LogWith(c) : c \in files[b].disk}
      BY <2>2, <2>4, RestartSame
    <3>2. LogView' = FileView /\ FileView' = FileView /\ DiskView' = DiskView
      BY <3>1 DEF FileView, DiskView
    <3> QED
      BY <1>1, <2>1, <3>2, AbstractReopens
  <2>5. CASE segs = Append(segments, Extra)
    <3>1. /\ FileView = LogView /\ DiskView = {LogView}
          /\ LogView' = LogView /\ FileView' = LogView /\ DiskView' = {LogView}
      BY <2>2, <2>5, RestartRolled
    <3> QED
      BY <1>1, <2>1, <3>1, AbstractReopens
  <2> QED
    BY <2>3, <2>4, <2>5
<1>3. CASE PowerLoss
  <2>1. PICK found : /\ Left(found) /\ Open(found)
                     /\ \A b \in DOMAIN files : found[b].disk = {found[b].log}
    BY <1>3, PowerLossFinds
  <2>2. PICK segs, n, b, w, s : OpensTo(found, segs, n, b, w, s)
    BY <2>1, OpenFinds
  <2>3. segs = segments \/ segs = Append(segments, Extra)
    BY <2>2 DEF OpensTo, Directory
  <2>4. CASE segs = segments
    <3>1. /\ b = Active.base /\ LogView' = LogWith(found[b].log) /\ FileView' = LogView'
          /\ DiskView' = {LogWith(c) : c \in found[b].disk}
          /\ found[b].log \in files[b].disk
      BY <2>2, <2>4, RestartSame
    <3>2. b \in DOMAIN files
      BY <3>1, ActiveFacts DEF WALInv
    <3>3. DiskView' = {LogView'}
      BY <2>1, <3>1, <3>2
    <3>4. LogView' \in DiskView
      BY <3>1 DEF DiskView
    <3> QED
      BY <1>1, <2>1, <3>1, <3>3, <3>4, AbstractLoses
  <2>5. CASE segs = Append(segments, Extra)
    <3>1. /\ FileView = LogView /\ DiskView = {LogView}
          /\ LogView' = LogView /\ FileView' = LogView /\ DiskView' = {LogView}
      BY <2>2, <2>5, RestartRolled
    <3> QED
      BY <1>1, <2>1, <3>1, AbstractLoses
  <2> QED
    BY <2>3, <2>4, <2>5
<1> QED
  BY <1>2, <1>3

\* A new log is DurableLog's.
LEMMA InitRefines ==
  ASSUME Init
  PROVE  Abstract!Init
<1>1. /\ nextOffset = 0 /\ value = None /\ files = [b \in {0} |-> NoFile]
      /\ segments = <<Segment(0, NoFile)>>
  BY DEF Init
<1>2. Segment(0, NoFile).base = 0 /\ NoFile.log = <<>> /\ NoFile.disk = {<<>>}
  BY DEF Segment, NoFile
<1>3. Active.base = 0 /\ files[Active.base] = NoFile
  <2>1. Active = Segment(0, NoFile)
    BY <1>1 DEF Active
  <2> QED
    BY <1>1, <1>2, <2>1
<1>4. \A n : n = 0 => [i \in 1 .. n |-> ValueAt(i - 1)] = <<>>
  <2>1. 1 .. 0 = {}
    OBVIOUS
  <2> QED
    BY <2>1
<1>5. LogView = <<>> /\ Old = <<>>
  BY <1>1, <1>3, <1>4 DEF LogView, Old
<1>6. LogWith(<<>>) = <<>>
  <2>1. WALInv
    BY InitHolds
  <2> PICK c : c = <<>>
    OBVIOUS
  <2>2. /\ c \in files[Active.base].disk /\ files[Active.base].log = c /\ Active.size = 0
    BY <1>1, <1>2, <1>3, EmptyEnds DEF Active, Segment
  <2>3. Agree(c, c, 0) /\ ~StartsAt(c, 0)
    BY EmptyEnds
  <2>4. LogWith(c) = LogView
    BY <2>1, <2>2, <2>3, FileIsLog
  <2> QED
    BY <1>5, <2>4
<1>7. LogView = <<>> /\ FileView = <<>> /\ DiskView = {<<>>}
  BY <1>2, <1>3, <1>5, <1>6 DEF FileView, DiskView
<1> QED
  BY <1>1, <1>7 DEF Abstract!Init, LogView, FileView, DiskView

\* If no record is torn, every step of the log is one of DurableLog, or none: an Append that
\* succeeds adds its value, one that fails adds nothing, but the file may have it; fsync, the
\* flush loop, the roll and Close take away what a power loss might bring back; and recovery
\* finds one of the states the active file was in since it was last synced.
THEOREM WALImplementsDurableLog ==
  ASSUME ~Torn
  PROVE  Spec => ImplementsDurableLog
<1>1. WALInv /\ WALInv' /\ [Next]_vars => [Abstract!Next]_Abstract!vars
  <2> SUFFICES ASSUME WALInv, WALInv', [Next]_vars
               PROVE  [Abstract!Next]_Abstract!vars
    OBVIOUS
  <2>1. ASSUME NEW v \in Values, AppendBegin(v)
        PROVE  [Abstract!Next]_Abstract!vars
    BY <2>1, AppendBeginRefines DEF Abstract!Next
  <2>2. CASE AppendWrite
    BY <2>2, AppendWriteRefines DEF Abstract!Next
  <2>3. CASE AppendSync \/ Flush \/ Close
    BY <2>3, FlushRefines DEF Abstract!Next
  <2>4. CASE Reopen \/ PowerLoss
    BY <2>4, RestartRefines DEF Abstract!Next
  <2>5. CASE UNCHANGED vars
    <3>1. UNCHANGED <<files, segments, nextOffset>> /\ value' = value
      BY <2>5 DEF vars
    <3>2. /\ LogView' = LogView /\ FileView' = FileView
          /\ DiskView' = {LogWith(c) : c \in files'[Active.base].disk}
      BY <3>1, SameContents
    <3>3. DiskView' = DiskView
      BY <3>1, <3>2 DEF DiskView
    <3> QED
      BY <3>1, <3>2, <3>3, AbstractStutters
  <2> QED
    BY <2>1, <2>2, <2>3, <2>4, <2>5 DEF Next
<1> QED
  BY <1>1, WALInvHolds, InitRefines, PTL DEF Spec, ImplementsDurableLog, Abstract!Spec
=============================================================================
