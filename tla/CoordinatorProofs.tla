------------------------- MODULE CoordinatorProofs -------------------------
(***************************************************************************)
(* Theorems about Coordinator for every set of clients, topics, groups and *)
(* requests and every bound.                                               *)
(***************************************************************************)
EXTENDS Coordinator, SequenceTheorems, WellFoundedInduction, TLAPS

-----------------------------------------------------------------------------
(***************************************************************************)
(* What the operations on a consumer group preserve, for every group: they *)
(* keep it well formed, and its leases a gapless window of offsets that    *)
(* starts at the committed one.                                            *)
(***************************************************************************)

\* The leases cover the offsets from the committed one up to n, and no other.
WindowTo(G, n) ==
  /\ n \in Nat /\ G.committed <= n
  /\ DOMAIN G.leases = G.committed .. (n - 1)

\* A set of naturals has a least element: the sort of the expired offsets in
\* fetchAvailable has a first one, and slideWindow's loop stops.
LEMMA LeastNatural ==
  ASSUME NEW S, S \subseteq Nat, S # {}
  PROVE  \E m \in S : \A p \in S : m <= p
<1> DEFINE R == OpToRel(<, Nat)
<1>1. \A p, m \in Nat : p < m => <<p, m>> \in R
  BY DEF OpToRel
<1>2. IsWellFoundedOn(R, Nat)
  BY NatLessThanWellFounded
<1> HIDE DEF R
<1>3. PICK m \in S : \A y \in S : ~ (<<y, m>> \in R)
  BY <1>2, WFMin
<1>4. ASSUME NEW p \in S
      PROVE  m <= p
  <2>1. p \in Nat /\ m \in Nat
    OBVIOUS
  <2>2. ~(p < m)
    BY <1>1, <1>3, <2>1, Zenon
  <2> QED
    BY <2>1, <2>2
<1> QED
  BY <1>4

\* The loop over the leases that computes the next offset (fetchAvailable)
\* ends one past the window.
LEMMA NextOffsetOfWindow ==
  ASSUME NEW G, IsGroup(G), NEW n, WindowTo(G, n)
  PROVE  NextOffset(G) = n
<1>1. n \in Bounds(G) /\ \A m \in Bounds(G) : m <= n
  BY DEF Bounds, WindowTo, IsGroup
<1>2. \A x \in Bounds(G) : x \in Nat
  BY DEF Bounds, IsGroup
<1>3. ASSUME NEW x \in Bounds(G), \A m \in Bounds(G) : m <= x
      PROVE  x = n
  <2>1. n <= x /\ x <= n
    BY <1>1, <1>3
  <2> QED
    BY <1>2, <2>1 DEF WindowTo
<1> QED
  BY <1>1, <1>3 DEF NextOffset

\* Replacing one lease of a group keeps it a group, with the same offsets.
LEMMA WithLeaseKeeps ==
  ASSUME NEW G, IsGroup(G), NEW o, NEW l, o \in DOMAIN G.leases => l \in Lease
  PROVE  /\ IsGroup(WithLease(G, o, l))
         /\ WithLease(G, o, l).committed = G.committed
         /\ DOMAIN WithLease(G, o, l).leases = DOMAIN G.leases
         /\ \A p \in DOMAIN G.leases :
              WithLease(G, o, l).leases[p] = IF p = o THEN l ELSE G.leases[p]
<1> DEFINE L == [G.leases EXCEPT ![o] = l]
<1>1. /\ L \in [DOMAIN G.leases -> Lease]
      /\ \A p \in DOMAIN G.leases : L[p] = IF p = o THEN l ELSE G.leases[p]
  BY DEF IsGroup
<1>2. WithLease(G, o, l) = [committed |-> G.committed, leases |-> L]
  BY DEF WithLease
<1> HIDE DEF L
<1> QED
  BY <1>1, <1>2 DEF IsGroup

\* Ack and dead-lettering mark one lease and leave the others as they are.
LEMMA MarkAckedKeeps ==
  ASSUME NEW G, IsGroup(G), NEW o
  PROVE  /\ IsGroup(MarkAcked(G, o))
         /\ MarkAcked(G, o).committed = G.committed
         /\ DOMAIN MarkAcked(G, o).leases = DOMAIN G.leases
         /\ \A p \in DOMAIN G.leases :
              MarkAcked(G, o).leases[p].acked <=> (p = o \/ G.leases[p].acked)
<1> DEFINE l == [G.leases[o] EXCEPT !.acked = TRUE]
<1>1. o \in DOMAIN G.leases => l \in Lease /\ l.acked = TRUE
  BY DEF IsGroup, Lease
<1>2. MarkAcked(G, o) = WithLease(G, o, l)
  BY DEF MarkAcked
<1> HIDE DEF l
<1> QED
  BY <1>1, <1>2, WithLeaseKeeps

\* The passing of a lease's time changes neither the offsets nor what is acked.
LEMMA ExpireKeeps ==
  ASSUME NEW G, IsGroup(G), NEW o
  PROVE  /\ IsGroup(Expire(G, o))
         /\ Expire(G, o).committed = G.committed
         /\ DOMAIN Expire(G, o).leases = DOMAIN G.leases
         /\ \A p \in DOMAIN G.leases :
              Expire(G, o).leases[p].acked = G.leases[p].acked
<1> DEFINE l == [G.leases[o] EXCEPT !.expired = TRUE]
<1>1. o \in DOMAIN G.leases => l \in Lease /\ l.acked = G.leases[o].acked
  BY DEF IsGroup, Lease
<1>2. Expire(G, o) = WithLease(G, o, l)
  BY DEF Expire
<1> HIDE DEF l
<1> QED
  BY <1>1, <1>2, WithLeaseKeeps

\* Nor does a redelivery.
LEMMA RedeliverKeeps ==
  ASSUME NEW G, IsGroup(G), NEW o
  PROVE  /\ IsGroup(Redeliver(G, o))
         /\ Redeliver(G, o).committed = G.committed
         /\ DOMAIN Redeliver(G, o).leases = DOMAIN G.leases
         /\ \A p \in DOMAIN G.leases :
              Redeliver(G, o).leases[p].acked = G.leases[p].acked
<1> DEFINE l == [expired      |-> FALSE,
                 redeliveries |-> G.leases[o].redeliveries + 1,
                 acked        |-> G.leases[o].acked]
<1>1. o \in DOMAIN G.leases => l \in Lease /\ l.acked = G.leases[o].acked
  BY DEF IsGroup, Lease
<1>2. Redeliver(G, o) = WithLease(G, o, l)
  BY DEF Redeliver
<1> HIDE DEF l
<1> QED
  BY <1>1, <1>2, WithLeaseKeeps

\* slideWindow's loop stops at an offset that is not acked, after acked ones
\* only.
LEMMA SlideToStops ==
  ASSUME NEW G, IsGroup(G), NEW n, WindowTo(G, n)
  PROVE  /\ SlideTo(G) \in G.committed .. n
         /\ \A o \in G.committed .. (SlideTo(G) - 1) : IsAcked(G, o)
<1> DEFINE S == {c \in G.committed .. n : ~IsAcked(G, c)}
<1>1. n \in S
  BY DEF WindowTo, IsGroup, IsAcked
<1>2. S \subseteq Nat
  BY DEF IsGroup, WindowTo
<1>3. PICK c \in S : \A p \in S : c <= p
  BY <1>1, <1>2, LeastNatural
<1>4. \A o \in G.committed .. (c - 1) : IsAcked(G, o)
  BY <1>2, <1>3 DEF IsGroup, WindowTo
<1>5. NextOffset(G) = n
  BY NextOffsetOfWindow
<1> QED
  BY <1>3, <1>4, <1>5 DEF SlideTo

\* slideWindow moves the window's start, deletes the acked leases it passes
\* and touches no other.
LEMMA SlideWindowKeeps ==
  ASSUME NEW G, IsGroup(G), NEW n, WindowTo(G, n)
  PROVE  /\ IsGroup(SlideWindow(G))
         /\ WindowTo(SlideWindow(G), n)
         /\ G.committed <= SlideWindow(G).committed
         /\ \A o \in G.committed .. (SlideWindow(G).committed - 1) : IsAcked(G, o)
         /\ \A o \in DOMAIN SlideWindow(G).leases :
              o \in DOMAIN G.leases /\ SlideWindow(G).leases[o] = G.leases[o]
<1> DEFINE c == SlideTo(G)
           D == DOMAIN G.leases \ (G.committed .. (c - 1))
           L == [o \in D |-> G.leases[o]]
<1>1. /\ c \in G.committed .. n
      /\ \A o \in G.committed .. (c - 1) : IsAcked(G, o)
  BY SlideToStops
<1>2. D = c .. (n - 1) /\ D \subseteq DOMAIN G.leases
  BY <1>1 DEF WindowTo, IsGroup
<1>3. L \in [D -> Lease] /\ DOMAIN L = D /\ \A o \in D : L[o] = G.leases[o]
  BY <1>2 DEF IsGroup
<1>4. SlideWindow(G) = [committed |-> c, leases |-> L]
  BY DEF SlideWindow
<1>5. c \in Nat /\ D \subseteq Nat
  BY <1>1, <1>2 DEF IsGroup, WindowTo
<1> HIDE DEF c, D, L
<1> QED
  BY <1>1, <1>2, <1>3, <1>4, <1>5 DEF IsGroup, WindowTo

\* Settling an offset keeps the window; what the committed offset passes was
\* acked before or is the offset itself, and so is what stays acked.
LEMMA SettleKeeps ==
  ASSUME NEW G, IsGroup(G), NEW n, WindowTo(G, n), NEW o
  PROVE  /\ IsGroup(Settle(G, o))
         /\ WindowTo(Settle(G, o), n)
         /\ G.committed <= Settle(G, o).committed
         /\ \A p \in G.committed .. (Settle(G, o).committed - 1) :
              p \in DOMAIN G.leases /\ (p = o \/ G.leases[p].acked)
         /\ \A p \in DOMAIN Settle(G, o).leases :
              /\ p \in DOMAIN G.leases
              /\ Settle(G, o).leases[p].acked => (p = o \/ G.leases[p].acked)
<1> DEFINE M == MarkAcked(G, o)
<1>1. /\ IsGroup(M) /\ M.committed = G.committed
      /\ DOMAIN M.leases = DOMAIN G.leases
      /\ \A p \in DOMAIN G.leases : M.leases[p].acked <=> (p = o \/ G.leases[p].acked)
  BY MarkAckedKeeps
<1>2. WindowTo(M, n)
  BY <1>1 DEF WindowTo
<1>3. Settle(G, o) = SlideWindow(M)
  BY DEF Settle
<1> HIDE DEF M
<1> QED
  BY <1>1, <1>2, <1>3, SlideWindowKeeps DEF IsAcked

\* Leasing the next k offsets extends the window by k and acks nothing.
LEMMA LeaseNewKeeps ==
  ASSUME NEW G, IsGroup(G), NEW n, WindowTo(G, n), NEW k \in Nat
  PROVE  /\ IsGroup(LeaseNew(G, k))
         /\ WindowTo(LeaseNew(G, k), n + k)
         /\ LeaseNew(G, k).committed = G.committed
         /\ \A p \in DOMAIN LeaseNew(G, k).leases :
              LeaseNew(G, k).leases[p].acked
                => p \in DOMAIN G.leases /\ G.leases[p].acked
<1> DEFINE F == n .. (n + k - 1)
           D == DOMAIN G.leases \cup F
           L == [o \in D |-> IF o \in F THEN NewLease ELSE G.leases[o]]
<1>1. D = G.committed .. (n + k - 1) /\ D \subseteq Nat
  BY DEF WindowTo, IsGroup
<1>2. L \in [D -> Lease] /\ DOMAIN L = D
  BY DEF IsGroup, Lease, NewLease
<1>3. \A p \in D : L[p].acked => p \in DOMAIN G.leases /\ G.leases[p].acked
  BY DEF NewLease
<1>4. LeaseNew(G, k) = [committed |-> G.committed, leases |-> L]
  BY NextOffsetOfWindow DEF LeaseNew
<1>5. n + k \in Nat /\ G.committed <= n + k
  BY DEF WindowTo, IsGroup
<1> HIDE DEF F, D, L
<1> QED
  BY <1>1, <1>2, <1>3, <1>4, <1>5 DEF IsGroup, WindowTo

-----------------------------------------------------------------------------
(* What the operations do to the single leases *)

\* What the group was given and has not settled.
Unsettled(G) == {o \in DOMAIN G.leases : ~G.leases[o].acked}

\* The passing of time leaves every lease its count and takes none away from
\* the offsets that are expired or not settled.
LEMMA ExpireLeases ==
  ASSUME NEW G, IsGroup(G), NEW o
  PROVE  /\ Unsettled(Expire(G, o)) = Unsettled(G)
         /\ ExpiredOffsets(G) \subseteq ExpiredOffsets(Expire(G, o))
         /\ o \in Unsettled(G) => o \in ExpiredOffsets(Expire(G, o))
         /\ \A p \in DOMAIN G.leases :
              Expire(G, o).leases[p].redeliveries = G.leases[p].redeliveries
<1> DEFINE l == [G.leases[o] EXCEPT !.expired = TRUE]
<1>1. o \in DOMAIN G.leases =>
        /\ l \in Lease /\ l.expired = TRUE /\ l.acked = G.leases[o].acked
        /\ l.redeliveries = G.leases[o].redeliveries
  BY DEF IsGroup, Lease
<1>2. Expire(G, o) = WithLease(G, o, l)
  BY DEF Expire
<1> HIDE DEF l
<1> QED
  BY <1>1, <1>2, WithLeaseKeeps DEF Unsettled, ExpiredOffsets

\* A redelivery counts for its own lease, which runs again.
LEMMA RedeliverLeases ==
  ASSUME NEW G, IsGroup(G), NEW o
  PROVE  /\ Unsettled(Redeliver(G, o)) = Unsettled(G)
         /\ ExpiredOffsets(Redeliver(G, o)) = ExpiredOffsets(G) \ {o}
         /\ \A p \in DOMAIN G.leases : p # o => Redeliver(G, o).leases[p] = G.leases[p]
<1> DEFINE l == [expired      |-> FALSE,
                 redeliveries |-> G.leases[o].redeliveries + 1,
                 acked        |-> G.leases[o].acked]
<1>1. o \in DOMAIN G.leases =>
        l \in Lease /\ l.expired = FALSE /\ l.acked = G.leases[o].acked
  BY DEF IsGroup, Lease
<1>2. Redeliver(G, o) = WithLease(G, o, l)
  BY DEF Redeliver
<1> HIDE DEF l
<1> QED
  BY <1>1, <1>2, WithLeaseKeeps DEF Unsettled, ExpiredOffsets

\* Settling an offset takes it, and nothing else, away from what is not
\* settled: slideWindow deletes acked leases only.
LEMMA SettleLeases ==
  ASSUME NEW G, IsGroup(G), NEW n, WindowTo(G, n), NEW o
  PROVE  /\ Unsettled(Settle(G, o)) = Unsettled(G) \ {o}
         /\ ExpiredOffsets(Settle(G, o)) = ExpiredOffsets(G) \ {o}
         /\ \A p \in DOMAIN Settle(G, o).leases :
              /\ p \in DOMAIN G.leases
              /\ Settle(G, o).leases[p].redeliveries = G.leases[p].redeliveries
<1> DEFINE M == MarkAcked(G, o)
           l == [G.leases[o] EXCEPT !.acked = TRUE]
<1>1. o \in DOMAIN G.leases =>
        /\ l \in Lease /\ l.acked = TRUE /\ l.expired = G.leases[o].expired
        /\ l.redeliveries = G.leases[o].redeliveries
  BY DEF IsGroup, Lease
<1>2. M = WithLease(G, o, l)
  BY DEF MarkAcked
<1> HIDE DEF l, M
<1>3. /\ IsGroup(M) /\ M.committed = G.committed
      /\ DOMAIN M.leases = DOMAIN G.leases
      /\ \A p \in DOMAIN G.leases : M.leases[p] = IF p = o THEN l ELSE G.leases[p]
  BY <1>1, <1>2, WithLeaseKeeps
<1>4. WindowTo(M, n)
  BY <1>3 DEF WindowTo
<1> DEFINE S == SlideWindow(M)
<1>5. Settle(G, o) = S
  BY DEF Settle, M
<1>6. /\ IsGroup(S) /\ WindowTo(S, n) /\ M.committed <= S.committed
      /\ \A p \in M.committed .. (S.committed - 1) : IsAcked(M, p)
      /\ \A p \in DOMAIN S.leases : p \in DOMAIN M.leases /\ S.leases[p] = M.leases[p]
  BY <1>3, <1>4, SlideWindowKeeps
<1> HIDE DEF S
<1>7. ASSUME NEW p \in DOMAIN M.leases, ~M.leases[p].acked
      PROVE  p \in DOMAIN S.leases
  <2>1. p \in M.committed .. (n - 1) /\ M.committed \in Nat /\ S.committed \in Nat
    BY <1>3, <1>4, <1>6, <1>7 DEF WindowTo, IsGroup
  <2>2. ~(p \in M.committed .. (S.committed - 1))
    BY <1>6, <1>7 DEF IsAcked
  <2> QED
    BY <1>6, <2>1, <2>2 DEF WindowTo
<1>8. Unsettled(S) = Unsettled(G) \ {o}
  BY <1>1, <1>3, <1>6, <1>7 DEF Unsettled
<1>9. ExpiredOffsets(S) = ExpiredOffsets(G) \ {o}
  BY <1>1, <1>3, <1>6, <1>7 DEF ExpiredOffsets
<1> QED
  BY <1>1, <1>3, <1>5, <1>6, <1>8, <1>9

\* New leases are not settled, and the old ones stay as they are.
LEMMA NewLeases ==
  ASSUME NEW G, IsGroup(G), NEW n, WindowTo(G, n), NEW k \in Nat
  PROVE  /\ Unsettled(LeaseNew(G, k)) = Unsettled(G) \cup n .. (n + k - 1)
         /\ \A p \in DOMAIN G.leases : LeaseNew(G, k).leases[p] = G.leases[p]
<1> DEFINE F == n .. (n + k - 1)
           D == DOMAIN G.leases \cup F
           L == [o \in D |-> IF o \in F THEN NewLease ELSE G.leases[o]]
<1>1. \A o \in DOMAIN G.leases : o \notin F
  BY DEF WindowTo, IsGroup
<1>2. LeaseNew(G, k) = [committed |-> G.committed, leases |-> L]
  BY NextOffsetOfWindow DEF LeaseNew
<1>3. \A o \in F : L[o].acked = FALSE
  BY DEF NewLease
<1>4. \A o \in DOMAIN G.leases : L[o] = G.leases[o]
  BY <1>1
<1> HIDE DEF F
<1> QED
  BY <1>1, <1>2, <1>3, <1>4 DEF Unsettled, F

-----------------------------------------------------------------------------
(* Where a goroutine is, and what holds there *)

GroupOps == {"fetch", "ack", "nack"}

\* Where a handler reads the group of its request.
GroupStates == {"group", "ack", "nack", "nackDispatch", "fetch", "fetchExpired",
                "enqueue", "wait", "unqueue"}

Producing == {"create", "append", "dispatch", "blocked", "settle"}

(***************************************************************************)
(* What a handler knows of its request: it has one from Begin to Return, a *)
(* request that reads a group names a topic that is consumed, and the      *)
(* offsets it still has to visit are in that topic's log.                  *)
(***************************************************************************)
HandlerOK(c) ==
  /\ pc[c] \notin {"sweep", "reap", "stopped"}
  /\ pc[c] # "idle" => req[c] \in Request
  /\ pc[c] # "idle" /\ req[c].op \in GroupOps => req[c].topic \in Consumed
  /\ pc[c] \in GroupStates => req[c].op \in GroupOps
  /\ pc[c] \in {"fetch", "fetchExpired"} => req[c].op = "fetch"
  /\ pc[c] = "settle" => dead[c] # None
  /\ dead[c] # None => /\ pc[c] \in Producing
                       /\ req[c].op = "fetch"
                       /\ dead[c][1] = Key(c)
  /\ todo[c] # {} => pc[c] = "fetchExpired" \/ dead[c] # None
  /\ \A p \in todo[c] : p < Len(log[Key(c)[1]])

ReaperOK ==
  /\ pc[Reaper] \in {"sweep", "reap", "stopped"} \cup Producing
  /\ pc[Reaper] \in Producing <=> dead[Reaper] # None

\* What is being dead-lettered is a record of its topic.
DeadOK ==
  \A th \in Threads :
    dead[th] # None => dead[th][2] < Len(log[dead[th][1][1]])

\* The window of a group ends inside the log, or it is empty.
WindowOK(k) ==
  \E n \in Nat : /\ WindowTo(group[k], n)
                 /\ n <= Len(log[k[1]]) \/ n = group[k].committed

Inv ==
  /\ TypeOK
  /\ \A c \in Clients : HandlerOK(c)
  /\ ReaperOK
  /\ DeadOK
  /\ \A k \in GroupKeys : WindowOK(k)

\* A fresh broker: no request, no lease, empty logs.
LEMMA InitInv == Init => Inv
<1> SUFFICES ASSUME Init PROVE Inv
  OBVIOUS
<1> USE ConstantsOK
<1>1. IsGroup(LoadedGroup(0)) /\ WindowTo(LoadedGroup(0), 0)
  BY DEF LoadedGroup, IsGroup, WindowTo, Lease
<1>2. WalTypeOK /\ GroupTypeOK
  BY <1>1 DEF Init, WalTypeOK, GroupTypeOK
<1>3. SyncTypeOK /\ ThreadTypeOK /\ RestTypeOK
  BY DEF Init, SyncTypeOK, ThreadTypeOK, RestTypeOK, Threads, Labels
<1>4. \A c \in Clients : HandlerOK(c)
  BY DEF Init, HandlerOK, GroupStates, Producing, Threads
<1>5. ReaperOK /\ DeadOK
  BY DEF Init, ReaperOK, DeadOK, Producing, Threads
<1>6. \A k \in GroupKeys : WindowOK(k)
  BY <1>1 DEF Init, WindowOK
<1> QED
  BY <1>2, <1>3, <1>4, <1>5, <1>6 DEF Inv, TypeOK

-----------------------------------------------------------------------------
(* What the steps share *)

\* A request's fields.
LEMMA RequestFields ==
  ASSUME NEW r \in Request
  PROVE  /\ r.topic \in Topics /\ r.group \in Groups
         /\ r.max \in Nat /\ r.offset \in Nat /\ r.value \in Nat
BY DEF Request

\* A handler in Fetch, Ack or Nack works on a group of a consumed topic.
LEMMA KeyOK ==
  ASSUME NEW c \in Clients, HandlerOK(c), pc[c] \in GroupStates \/ dead[c] # None
  PROVE  /\ Key(c) \in GroupKeys /\ Key(c)[1] \in Topics
         /\ Key(c)[1] = req[c].topic
         /\ req[c] \in Request /\ req[c].offset \in Nat /\ req[c].max \in Nat
<1>1. pc[c] # "idle"
  BY DEF HandlerOK, GroupStates, Producing
<1>2. req[c] \in Request /\ req[c].topic \in Consumed
  BY <1>1 DEF HandlerOK, GroupOps
<1> QED
  BY <1>2, RequestFields, ConstantsOK DEF Key, GroupKeys

\* No log gets shorter (every step but a crash).
LogsGrow == \A t \in Topics : Len(log[t]) <= Len(log'[t])

\* A handler that a step does not concern stays as it is.
LEMMA HandlerFrame ==
  ASSUME NEW d \in Clients, HandlerOK(d), WalTypeOK, WalTypeOK', ThreadTypeOK, LogsGrow,
         pc'[d] = pc[d], req'[d] = req[d], dead'[d] = dead[d], todo'[d] = todo[d]
  PROVE  HandlerOK(d)'
<1>1. Key(d)' = Key(d)
  BY DEF Key
<1>2. ASSUME NEW p \in todo[d]
      PROVE  p < Len(log'[Key(d)[1]])
  <2>1. pc[d] \in GroupStates \/ dead[d] # None
    BY <1>2 DEF HandlerOK, GroupStates
  <2>2. Key(d)[1] \in Topics
    BY <2>1, KeyOK
  <2>3. p \in Nat /\ p < Len(log[Key(d)[1]]) /\ Len(log[Key(d)[1]]) \in Nat
    BY <1>2, <2>2 DEF HandlerOK, ThreadTypeOK, WalTypeOK
  <2>4. Len(log'[Key(d)[1]]) \in Nat
    BY <2>2 DEF WalTypeOK
  <2> QED
    BY <2>2, <2>3, <2>4 DEF LogsGrow
<1> QED
  BY <1>1, <1>2 DEF HandlerOK

\* So do the windows of the groups.
LEMMA WindowFrame ==
  ASSUME NEW k \in GroupKeys, WindowOK(k), WalTypeOK, WalTypeOK', LogsGrow,
         group'[k].committed = group[k].committed,
         DOMAIN group'[k].leases = DOMAIN group[k].leases
  PROVE  WindowOK(k)'
<1>1. k[1] \in Topics
  BY ConstantsOK DEF GroupKeys
<1>2. Len(log[k[1]]) \in Nat /\ Len(log'[k[1]]) \in Nat
  BY <1>1 DEF WalTypeOK
<1> QED
  BY <1>1, <1>2 DEF WindowOK, WindowTo, LogsGrow

\* A set of offsets that is not empty has a least one.
LEMMA FirstIsIn ==
  ASSUME NEW S, S \subseteq Nat, S # {}
  PROVE  First(S) \in S
BY LeastNatural DEF First

\* Fetch's cleanup leaves a queue of handlers.
LEMMA WithoutType ==
  ASSUME NEW q \in Seq(Clients), NEW c
  PROVE  Without(q, c) \in Seq(Clients)
<1> DEFINE at == {i \in 1 .. Len(q) : q[i] = c}
<1>1. CASE at = {}
  BY <1>1 DEF Without
<1>2. CASE at # {}
  <2>1. First(at) \in 1 .. Len(q)
    <3>1. at \subseteq Nat
      OBVIOUS
    <3> QED
      BY <1>2, <3>1, FirstIsIn
  <2> DEFINE f == First(at)
  <2>2. Without(q, c) = SubSeq(q, 1, f - 1) \o SubSeq(q, f + 1, Len(q))
    BY <1>2 DEF Without
  <2> HIDE DEF f
  <2>3. SubSeq(q, 1, f - 1) \in Seq(Clients) /\ SubSeq(q, f + 1, Len(q)) \in Seq(Clients)
    <3>1. f \in 1 .. Len(q) /\ Len(q) \in Nat
      BY <2>1 DEF f
    <3>2. \A i \in 1 .. Len(q) : q[i] \in Clients
      OBVIOUS
    <3>3. SubSeq(q, 1, f - 1) \in Seq(Clients)
      BY <3>1, <3>2, SubSeqProperties
    <3> QED
      BY <3>1, <3>2, <3>3, SubSeqProperties
  <2> QED
    BY <2>2, <2>3
<1> QED
  BY <1>1, <1>2

\* Whoever is in Produce has a topic to write to; only a handler produces for
\* itself.
LEMMA ProducerOK ==
  ASSUME Inv, NEW th \in Threads, pc[th] \in Producing
  PROVE  /\ Target(th) \in Topics
         /\ dead[th] = None => th \in Clients /\ req[th] \in Request
         /\ dead[th] # None => /\ dead[th][1] \in GroupKeys /\ dead[th][2] \in Nat
                               /\ dead[th][1][1] \in Topics
<1>1. CASE dead[th] = None
  <2>1. th \in Clients
    BY <1>1 DEF Inv, ReaperOK, Threads
  <2>2. req[th] \in Request
    BY <2>1 DEF Inv, HandlerOK, Producing
  <2> QED
    BY <1>1, <2>1, <2>2, RequestFields DEF Target
<1>2. CASE dead[th] # None
  <2>1. dead[th] \in GroupKeys \X Nat
    BY <1>2 DEF Inv, TypeOK, ThreadTypeOK
  <2>2. dead[th][1][1] \in Consumed
    BY <2>1 DEF GroupKeys
  <2> QED
    BY <1>2, <2>1, <2>2, ConstantsOK DEF Target
<1> QED
  BY <1>1, <1>2

\* What is appended is a record: a dead-lettered offset is in its log.
LEMMA PayloadOK ==
  ASSUME Inv, NEW th \in Threads, pc[th] \in Producing
  PROVE  Payload(th) \in Entry
<1>1. CASE dead[th] = None
  BY <1>1, ProducerOK, RequestFields DEF Payload, Entry
<1>2. CASE dead[th] # None
  <2> DEFINE k == dead[th][1]
             o == dead[th][2]
  <2>1. k \in GroupKeys /\ k[1] \in Topics /\ o \in Nat
    BY <1>2, ProducerOK
  <2>2. o < Len(log[k[1]])
    BY <1>2 DEF Inv, DeadOK
  <2>3. log[k[1]] \in Seq(Entry)
    BY <2>1 DEF Inv, TypeOK, WalTypeOK
  <2>4. log[k[1]][o + 1] \in Entry
    BY <2>1, <2>2, <2>3
  <2>5. log[k[1]][o + 1].value \in Nat
    BY <2>4 DEF Entry
  <2> QED
    BY <1>2, <2>1, <2>5 DEF Payload, Entry
<1> QED
  BY <1>1, <1>2

\* A leased offset is in the log, so it has a value.
LEMMA LeaseInLog ==
  ASSUME Inv, NEW k \in GroupKeys, NEW o \in DOMAIN group[k].leases
  PROVE  /\ o \in Nat /\ o < Len(log[k[1]])
         /\ log[k[1]][o + 1].value \in Nat
<1>1. k[1] \in Topics
  BY ConstantsOK DEF GroupKeys
<1>2. log[k[1]] \in Seq(Entry) /\ Len(log[k[1]]) \in Nat
  BY <1>1 DEF Inv, TypeOK, WalTypeOK
<1>3. IsGroup(group[k]) /\ WindowOK(k)
  BY DEF Inv, TypeOK, GroupTypeOK
<1>4. o \in Nat /\ o < Len(log[k[1]])
  BY <1>2, <1>3 DEF WindowOK, WindowTo, IsGroup
<1>5. log[k[1]][o + 1] \in Entry
  BY <1>2, <1>4
<1> QED
  BY <1>4, <1>5 DEF Entry

\* An update of one group.
LEMMA GroupUpdate ==
  ASSUME GroupTypeOK, NEW k \in GroupKeys, NEW G, IsGroup(G),
         group' = [group EXCEPT ![k] = G]
  PROVE  /\ group' = [j \in GroupKeys |-> group'[j]]
         /\ \A j \in GroupKeys : IsGroup(group'[j])
         /\ group'[k] = G
         /\ \A j \in GroupKeys : j # k => group'[j] = group[j]
BY DEF GroupTypeOK

\* An update that leaves a group's offsets alone keeps every window.
LEMMA WindowUpdate ==
  ASSUME Inv, WalTypeOK', LogsGrow, NEW k \in GroupKeys, NEW G, IsGroup(G),
         group' = [group EXCEPT ![k] = G],
         G.committed = group[k].committed, DOMAIN G.leases = DOMAIN group[k].leases
  PROVE  \A j \in GroupKeys : WindowOK(j)'
<1> SUFFICES ASSUME NEW j \in GroupKeys PROVE WindowOK(j)'
  OBVIOUS
<1>1. GroupTypeOK /\ WalTypeOK /\ WindowOK(j)
  BY DEF Inv, TypeOK
<1>2. /\ group'[j].committed = group[j].committed
      /\ DOMAIN group'[j].leases = DOMAIN group[j].leases
  BY <1>1, GroupUpdate
<1> QED
  BY <1>1, <1>2, WindowFrame

\* Settling an offset, as Ack and the dead-lettering do.
LEMMA SettleStep ==
  ASSUME Inv, NEW k \in GroupKeys, NEW o, SaveGroup(k, Settle(group[k], o)),
         UNCHANGED log
  PROVE  /\ group' = [j \in GroupKeys |-> group'[j]]
         /\ \A j \in GroupKeys : IsGroup(group'[j])
         /\ persisted' \in [GroupKeys -> Nat]
         /\ \A j \in GroupKeys : WindowOK(j)'
<1>1. /\ GroupTypeOK /\ WalTypeOK /\ IsGroup(group[k])
      /\ \A j \in GroupKeys : WindowOK(j)
  BY DEF Inv, TypeOK, GroupTypeOK
<1>2. PICK n \in Nat : /\ WindowTo(group[k], n)
                       /\ n <= Len(log[k[1]]) \/ n = group[k].committed
  BY <1>1 DEF WindowOK
<1> DEFINE G == Settle(group[k], o)
<1>3. IsGroup(G) /\ WindowTo(G, n) /\ group[k].committed <= G.committed
  BY <1>1, <1>2, SettleKeeps
<1>4. group' = [group EXCEPT ![k] = G]
  BY DEF SaveGroup
<1>5. persisted' \in [GroupKeys -> Nat]
  BY <1>1, <1>3 DEF SaveGroup, GroupTypeOK, IsGroup
<1> HIDE DEF G
<1>6. /\ group' = [j \in GroupKeys |-> group'[j]]
      /\ \A j \in GroupKeys : IsGroup(group'[j])
      /\ group'[k] = G
      /\ \A j \in GroupKeys : j # k => group'[j] = group[j]
  BY <1>1, <1>3, <1>4, GroupUpdate
<1>7. n <= Len(log[k[1]]) \/ n = G.committed
  BY <1>1, <1>2, <1>3 DEF WindowTo, IsGroup
<1>8. WindowOK(k)'
  BY <1>2, <1>3, <1>6, <1>7 DEF WindowOK
<1>9. ASSUME NEW j \in GroupKeys, j # k
      PROVE  WindowOK(j)'
  BY <1>1, <1>6, <1>9 DEF WindowOK
<1> QED
  BY <1>5, <1>6, <1>8, <1>9

\* The part of ThreadTypeOK that Goto, Return and EndProduce change.
CallTypeOK ==
  /\ pc \in [Threads -> Labels]
  /\ req \in [Clients -> Request \cup {None}]
  /\ msgs \in [Clients -> Seq(Nat)]

\* A goroutine moves to a label.
LEMMA GotoType ==
  ASSUME ThreadTypeOK, NEW th \in Threads, NEW l \in Labels, Goto(th, l)
  PROVE  pc' \in [Threads -> Labels]
BY DEF ThreadTypeOK, Goto

\* A handler answers with offsets.
LEMMA ReturnType ==
  ASSUME ThreadTypeOK, NEW c \in Clients, NEW m \in Seq(Nat), Return(c, m)
  PROVE  CallTypeOK'
<1>1. c \in Threads /\ "idle" \in Labels
  BY DEF Threads, Labels
<1>2. pc' \in [Threads -> Labels]
  BY <1>1, GotoType DEF Return
<1> QED
  BY <1>2 DEF CallTypeOK, Return, ThreadTypeOK

\* A handler answers with no message.
LEMMA ReturnNothingType ==
  ASSUME ThreadTypeOK, NEW c \in Clients, Return(c, <<>>)
  PROVE  CallTypeOK'
<1>1. <<>> \in Seq(Nat)
  OBVIOUS
<1> QED
  BY <1>1, ReturnType

\* Produce goes back to the dead-lettering code, or answers the client.
LEMMA EndProduceType ==
  ASSUME ThreadTypeOK, NEW th \in Threads, dead[th] = None => th \in Clients,
         EndProduce(th)
  PROVE  CallTypeOK'
<1>1. CASE dead[th] = None
  <2>1. Return(th, <<>>)
    BY <1>1 DEF EndProduce
  <2> QED
    BY <1>1, <2>1, ReturnNothingType
<1>2. CASE dead[th] # None
  <2>1. Goto(th, "settle") /\ UNCHANGED reqVars /\ "settle" \in Labels
    BY <1>2 DEF EndProduce, Labels
  <2> QED
    BY <2>1, GotoType DEF CallTypeOK, ThreadTypeOK, reqVars
<1> QED
  BY <1>1, <1>2

\* Goto moves one goroutine.
LEMMA GotoMoves ==
  ASSUME Inv, NEW th \in Threads, NEW l, Goto(th, l)
  PROVE  /\ pc'[th] = l
         /\ \A d \in Threads : d # th => pc'[d] = pc[d]
BY DEF Goto, Inv, TypeOK, ThreadTypeOK

\* A handler outside Produce dead-letters nothing.
LEMMA NotDead ==
  ASSUME Inv, NEW c \in Clients, pc[c] \notin Producing
  PROVE  c \in Threads /\ dead[c] = None
BY DEF Inv, HandlerOK, Threads

\* A handler takes a request.
LEMMA BeginInv ==
  ASSUME Inv, NEW c \in Clients, NEW r \in Requests[c], Begin(c, r)
  PROVE  Inv'
<1> USE ConstantsOK DEF Inv, TypeOK, walVars, groupVars, queueVars, lockVars,
        reqVars, reaperVars, otherVars
<1>1. [r EXCEPT !.value = produced] \in Request
  BY DEF Request, RestTypeOK
<1>2. /\ [r EXCEPT !.value = produced].op = r.op
      /\ [r EXCEPT !.value = produced].topic = r.topic
  BY DEF Request
<1>3. WalTypeOK' /\ GroupTypeOK' /\ SyncTypeOK'
  BY DEF Begin, WalTypeOK, GroupTypeOK, SyncTypeOK
<1>4. ThreadTypeOK'
  BY <1>1 DEF Begin, Goto, ThreadTypeOK, Threads, Labels
<1>5. RestTypeOK'
  BY DEF Begin, RestTypeOK, WalTypeOK
<1>6. LogsGrow
  BY DEF Begin, Goto, LogsGrow, WalTypeOK
<1>7. \A d \in Clients : HandlerOK(d)'
  <2>1. ASSUME NEW d \in Clients, d # c
        PROVE  HandlerOK(d)'
    <3>1. /\ pc'[d] = pc[d] /\ req'[d] = req[d]
          /\ dead'[d] = dead[d] /\ todo'[d] = todo[d]
      BY <2>1 DEF Begin, Goto, ThreadTypeOK, Threads
    <3> QED
      BY <3>1, <1>3, <1>4, <1>5, <1>6, HandlerFrame
  <2>2. HandlerOK(c)'
    BY <1>1, <1>2, ZenonT(60) DEF Begin, Goto, HandlerOK, ThreadTypeOK, GroupStates,
       GroupOps, Producing, Threads, Key
  <2> QED
    BY <2>1, <2>2
<1>8. ReaperOK' /\ DeadOK'
  BY DEF Begin, Goto, ReaperOK, DeadOK, ThreadTypeOK, Producing, Threads
<1>9. \A j \in GroupKeys : WindowOK(j)'
  BY <1>3, <1>4, <1>5, <1>6, WindowFrame DEF Begin, Goto, GroupTypeOK
<1> QED
  BY <1>3, <1>4, <1>5, <1>7, <1>8, <1>9

\* getOrCreateGroup changes where the handler is, nothing else.
LEMMA GetOrCreateGroupInv ==
  ASSUME Inv, NEW c \in Clients, GetOrCreateGroup(c)
  PROVE  Inv'
<1> USE ConstantsOK DEF Inv, TypeOK, walVars, groupVars, queueVars, lockVars,
        reqVars, reaperVars, otherVars
<1>1. req[c].op \in {"fetch", "ack", "nack"}
  BY DEF GetOrCreateGroup, HandlerOK, GroupStates, GroupOps
<1>2. WalTypeOK' /\ GroupTypeOK' /\ SyncTypeOK' /\ RestTypeOK'
  BY DEF GetOrCreateGroup, WalTypeOK, GroupTypeOK, SyncTypeOK, RestTypeOK
<1>3. ThreadTypeOK'
  <2>1. CallTypeOK'
    <3>1. CASE Return(c, <<>>)
      BY <3>1, ReturnNothingType
    <3>2. CASE Goto(c, req[c].op) /\ UNCHANGED reqVars
      <4>1. req[c].op \in Labels /\ c \in Threads
        BY <1>1 DEF Threads, Labels
      <4>2. pc' \in [Threads -> Labels]
        BY <3>2, <4>1, GotoType DEF ThreadTypeOK
      <4> QED
        BY <3>2, <4>2 DEF CallTypeOK, ThreadTypeOK
    <3> QED
      BY <3>1, <3>2, SMTT(30) DEF GetOrCreateGroup
  <2> QED
    BY <2>1 DEF CallTypeOK, ThreadTypeOK, GetOrCreateGroup
<1>4. LogsGrow
  BY DEF GetOrCreateGroup, Return, Goto, LogsGrow, WalTypeOK
<1>5. \A d \in Clients : HandlerOK(d)'
  <2>1. ASSUME NEW d \in Clients, d # c
        PROVE  HandlerOK(d)'
    <3>1. /\ pc'[d] = pc[d] /\ req'[d] = req[d]
          /\ dead'[d] = dead[d] /\ todo'[d] = todo[d]
      BY <2>1 DEF GetOrCreateGroup, Return, Goto, ThreadTypeOK, Threads
    <3> QED
      BY <3>1, <1>2, <1>3, <1>4, HandlerFrame
  <2>2. HandlerOK(c)'
    BY ZenonT(60) DEF GetOrCreateGroup, Return, Goto, HandlerOK, ThreadTypeOK,
       GroupStates, GroupOps, Producing, Threads, Key
  <2> QED
    BY <2>1, <2>2
<1>6. ReaperOK' /\ DeadOK'
  BY DEF GetOrCreateGroup, Return, Goto, ReaperOK, DeadOK, ThreadTypeOK,
     Producing, Threads
<1>7. \A j \in GroupKeys : WindowOK(j)'
  BY <1>2, <1>3, <1>4, WindowFrame DEF GetOrCreateGroup, Return, Goto,
     GroupTypeOK
<1> QED
  BY <1>2, <1>3, <1>5, <1>6, <1>7

\* A long poll enters the queue.
LEMMA EnqueueInv ==
  ASSUME Inv, NEW c \in Clients, Enqueue(c)
  PROVE  Inv'
<1> USE ConstantsOK DEF Inv, TypeOK, walVars, groupVars, queueVars, lockVars,
        reqVars, reaperVars, otherVars
<1>1. WalTypeOK' /\ GroupTypeOK' /\ RestTypeOK'
  BY DEF Enqueue, WalTypeOK, GroupTypeOK, RestTypeOK
<1>2. SyncTypeOK'
  BY KeyOK DEF Enqueue, SyncTypeOK, Threads, GroupStates
<1>3. ThreadTypeOK'
  BY DEF Enqueue, Goto, ThreadTypeOK, Threads, Labels
<1>4. LogsGrow
  BY DEF Enqueue, Goto, LogsGrow, WalTypeOK
<1>5. \A d \in Clients : HandlerOK(d)'
  <2>1. ASSUME NEW d \in Clients, d # c
        PROVE  HandlerOK(d)'
    <3>1. /\ pc'[d] = pc[d] /\ req'[d] = req[d]
          /\ dead'[d] = dead[d] /\ todo'[d] = todo[d]
      BY <2>1 DEF Enqueue, Goto, ThreadTypeOK, Threads
    <3> QED
      BY <3>1, <1>1, <1>2, <1>3, <1>4, HandlerFrame
  <2>2. HandlerOK(c)'
    BY DEF Enqueue, Goto, HandlerOK, ThreadTypeOK, GroupStates, GroupOps,
       Producing, Threads, Key
  <2> QED
    BY <2>1, <2>2
<1>6. ReaperOK' /\ DeadOK'
  BY DEF Enqueue, Goto, ReaperOK, DeadOK, ThreadTypeOK, Producing, Threads
<1>7. \A j \in GroupKeys : WindowOK(j)'
  BY <1>1, <1>2, <1>3, <1>4, WindowFrame DEF Enqueue, Goto, GroupTypeOK
<1> QED
  BY <1>1, <1>2, <1>3, <1>5, <1>6, <1>7

\* A long poll takes its answer.
LEMMA ReceiveInv ==
  ASSUME Inv, NEW c \in Clients, Receive(c)
  PROVE  Inv'
<1> USE ConstantsOK DEF Inv, TypeOK, walVars, groupVars, queueVars, lockVars,
        reqVars, reaperVars, otherVars
<1>1. WalTypeOK' /\ GroupTypeOK' /\ RestTypeOK'
  BY DEF Receive, WalTypeOK, GroupTypeOK, RestTypeOK
<1>2. SyncTypeOK'
  BY DEF Receive, SyncTypeOK, Threads
<1>3. ThreadTypeOK'
  BY DEF Receive, Return, Goto, ThreadTypeOK, Threads, Labels, SyncTypeOK
<1>4. LogsGrow
  BY DEF Receive, Return, Goto, LogsGrow, WalTypeOK
<1>5. \A d \in Clients : HandlerOK(d)'
  <2>1. ASSUME NEW d \in Clients, d # c
        PROVE  HandlerOK(d)'
    <3>1. /\ pc'[d] = pc[d] /\ req'[d] = req[d]
          /\ dead'[d] = dead[d] /\ todo'[d] = todo[d]
      BY <2>1 DEF Receive, Return, Goto, ThreadTypeOK, Threads
    <3> QED
      BY <3>1, <1>1, <1>2, <1>3, <1>4, HandlerFrame
  <2>2. HandlerOK(c)'
    BY DEF Receive, Return, Goto, HandlerOK, ThreadTypeOK, GroupStates,
       GroupOps, Producing, Threads, Key
  <2> QED
    BY <2>1, <2>2
<1>6. ReaperOK' /\ DeadOK'
  BY DEF Receive, Return, Goto, ReaperOK, DeadOK, ThreadTypeOK, Producing,
     Threads
<1>7. \A j \in GroupKeys : WindowOK(j)'
  BY <1>1, <1>2, <1>3, <1>4, WindowFrame DEF Receive, Return, Goto, GroupTypeOK
<1> QED
  BY <1>1, <1>2, <1>3, <1>5, <1>6, <1>7

\* The timer of a long poll fires.
LEMMA PollTimeoutInv ==
  ASSUME Inv, NEW c \in Clients, PollTimeout(c)
  PROVE  Inv'
<1> USE ConstantsOK DEF Inv, TypeOK, walVars, groupVars, queueVars, lockVars,
        reqVars, reaperVars, otherVars
<1>1. WalTypeOK' /\ GroupTypeOK' /\ SyncTypeOK' /\ RestTypeOK'
  BY DEF PollTimeout, WalTypeOK, GroupTypeOK, SyncTypeOK, RestTypeOK
<1>2. ThreadTypeOK'
  BY DEF PollTimeout, Goto, ThreadTypeOK, Threads, Labels
<1>3. LogsGrow
  BY DEF PollTimeout, Goto, LogsGrow, WalTypeOK
<1>4. \A d \in Clients : HandlerOK(d)'
  <2>1. ASSUME NEW d \in Clients, d # c
        PROVE  HandlerOK(d)'
    <3>1. /\ pc'[d] = pc[d] /\ req'[d] = req[d]
          /\ dead'[d] = dead[d] /\ todo'[d] = todo[d]
      BY <2>1 DEF PollTimeout, Goto, ThreadTypeOK, Threads
    <3> QED
      BY <3>1, <1>1, <1>2, <1>3, HandlerFrame
  <2>2. HandlerOK(c)'
    BY DEF PollTimeout, Goto, HandlerOK, ThreadTypeOK, GroupStates, GroupOps,
       Producing, Threads, Key
  <2> QED
    BY <2>1, <2>2
<1>5. ReaperOK' /\ DeadOK'
  BY DEF PollTimeout, Goto, ReaperOK, DeadOK, ThreadTypeOK, Producing, Threads
<1>6. \A j \in GroupKeys : WindowOK(j)'
  BY <1>1, <1>2, <1>3, WindowFrame DEF PollTimeout, Goto, GroupTypeOK
<1> QED
  BY <1>1, <1>2, <1>4, <1>5, <1>6

\* A long poll that timed out leaves the queue.
LEMMA UnqueueInv ==
  ASSUME Inv, NEW c \in Clients, Unqueue(c)
  PROVE  Inv'
<1> USE ConstantsOK DEF Inv, TypeOK, walVars, groupVars, queueVars, lockVars,
        reqVars, reaperVars, otherVars
<1>1. WalTypeOK' /\ GroupTypeOK' /\ RestTypeOK'
  BY DEF Unqueue, WalTypeOK, GroupTypeOK, RestTypeOK
<1>2. SyncTypeOK'
  BY KeyOK, WithoutType DEF Unqueue, SyncTypeOK, Threads, GroupStates
<1>3. ThreadTypeOK'
  BY DEF Unqueue, Return, Goto, ThreadTypeOK, Threads, Labels
<1>4. LogsGrow
  BY DEF Unqueue, Return, Goto, LogsGrow, WalTypeOK
<1>5. \A d \in Clients : HandlerOK(d)'
  <2>1. ASSUME NEW d \in Clients, d # c
        PROVE  HandlerOK(d)'
    <3>1. /\ pc'[d] = pc[d] /\ req'[d] = req[d]
          /\ dead'[d] = dead[d] /\ todo'[d] = todo[d]
      BY <2>1 DEF Unqueue, Return, Goto, ThreadTypeOK, Threads
    <3> QED
      BY <3>1, <1>1, <1>2, <1>3, <1>4, HandlerFrame
  <2>2. HandlerOK(c)'
    BY DEF Unqueue, Return, Goto, HandlerOK, ThreadTypeOK, GroupStates,
       GroupOps, Producing, Threads, Key
  <2> QED
    BY <2>1, <2>2
<1>6. ReaperOK' /\ DeadOK'
  BY DEF Unqueue, Return, Goto, ReaperOK, DeadOK, ThreadTypeOK, Producing,
     Threads
<1>7. \A j \in GroupKeys : WindowOK(j)'
  BY <1>1, <1>2, <1>3, <1>4, WindowFrame DEF Unqueue, Return, Goto, GroupTypeOK
<1> QED
  BY <1>1, <1>2, <1>3, <1>5, <1>6, <1>7

\* The expiry loop wakes up.
LEMMA TickInv ==
  ASSUME Inv, Tick
  PROVE  Inv'
<1> USE ConstantsOK DEF Inv, TypeOK, walVars, groupVars, queueVars, lockVars,
        reqVars, reaperVars, otherVars
<1>1. WalTypeOK' /\ GroupTypeOK' /\ SyncTypeOK'
  BY DEF Tick, WalTypeOK, GroupTypeOK, SyncTypeOK
<1>2. ThreadTypeOK'
  BY DEF Tick, Goto, ThreadTypeOK, Threads, Labels
<1>3. RestTypeOK'
  BY DEF Tick, RestTypeOK, WalTypeOK
<1>4. LogsGrow
  BY DEF Tick, Goto, LogsGrow, WalTypeOK
<1>5. \A d \in Clients : HandlerOK(d)'
  <2> SUFFICES ASSUME NEW d \in Clients PROVE HandlerOK(d)'
    OBVIOUS
  <2>1. /\ pc'[d] = pc[d] /\ req'[d] = req[d]
        /\ dead'[d] = dead[d] /\ todo'[d] = todo[d]
    BY DEF Tick, Goto, ThreadTypeOK, Threads
  <2> QED
    BY <2>1, <1>1, <1>2, <1>3, <1>4, HandlerFrame
<1>6. ReaperOK' /\ DeadOK'
  BY DEF Tick, Goto, ReaperOK, DeadOK, ThreadTypeOK, Producing, Threads
<1>7. \A j \in GroupKeys : WindowOK(j)'
  BY <1>1, <1>2, <1>3, <1>4, WindowFrame DEF Tick, Goto, GroupTypeOK
<1> QED
  BY <1>1, <1>2, <1>3, <1>5, <1>6, <1>7

\* checkExpiredLeases starts on a topic.
LEMMA SweepTopicInv ==
  ASSUME Inv, NEW t \in Topics, SweepTopic(t)
  PROVE  Inv'
<1> USE ConstantsOK DEF Inv, TypeOK, walVars, groupVars, queueVars, lockVars,
        reqVars, reaperVars, otherVars
<1>1. WalTypeOK' /\ GroupTypeOK'
  BY DEF SweepTopic, WalTypeOK, GroupTypeOK
<1>2. SyncTypeOK'
  BY ZenonT(60) DEF SweepTopic, SyncTypeOK, Threads
<1>3. ThreadTypeOK'
  BY DEF SweepTopic, Goto, ThreadTypeOK, Threads, Labels
<1>4. RestTypeOK'
  BY DEF SweepTopic, RestTypeOK, WalTypeOK
<1>5. LogsGrow
  BY DEF SweepTopic, Goto, LogsGrow, WalTypeOK
<1>6. \A d \in Clients : HandlerOK(d)'
  <2> SUFFICES ASSUME NEW d \in Clients PROVE HandlerOK(d)'
    OBVIOUS
  <2>1. /\ pc'[d] = pc[d] /\ req'[d] = req[d]
        /\ dead'[d] = dead[d] /\ todo'[d] = todo[d]
    BY DEF SweepTopic, Goto, ThreadTypeOK, Threads
  <2> QED
    BY <2>1, <1>1, <1>2, <1>3, <1>4, <1>5, HandlerFrame
<1>7. ReaperOK' /\ DeadOK'
  BY DEF SweepTopic, Goto, ReaperOK, DeadOK, ThreadTypeOK, Producing, Threads
<1>8. \A j \in GroupKeys : WindowOK(j)'
  BY <1>1, <1>2, <1>3, <1>4, <1>5, WindowFrame DEF SweepTopic, Goto,
     GroupTypeOK
<1> QED
  BY <1>1, <1>2, <1>3, <1>4, <1>6, <1>7, <1>8

\* Close, step by step.
LEMMA CloseInv ==
  ASSUME Inv, CloseStep
  PROVE  Inv'
<1> USE ConstantsOK DEF Inv, TypeOK, walVars, groupVars, queueVars, lockVars,
        reqVars, reaperVars, otherVars
<1>1. GroupTypeOK' /\ SyncTypeOK' /\ ThreadTypeOK'
  BY DEF CloseStep, CloseBegin, CloseLock, CloseTopic, CloseEnd, GroupTypeOK,
     SyncTypeOK, ThreadTypeOK
<1>2. WalTypeOK'
  <2>1. /\ UNCHANGED <<topics, dirs, log, file>> /\ closedWals' \subseteq Topics
        /\ disk' = disk \/ \E t \in Topics : disk' = [disk EXCEPT ![t] = {file[t]}]
    BY DEF CloseStep, CloseBegin, CloseLock, CloseTopic, CloseEnd, WalTypeOK
  <2>2. /\ disk' \in [Topics -> SUBSET Seq(Entry)]
        /\ \A t \in Topics : file[t] \in disk'[t]
    <3>1. \A t \in Topics : file[t] \in disk[t] /\ {file[t]} \in SUBSET Seq(Entry)
      BY DEF WalTypeOK
    <3>2. ASSUME NEW t \in Topics, disk' = [disk EXCEPT ![t] = {file[t]}]
          PROVE  /\ disk' \in [Topics -> SUBSET Seq(Entry)]
                 /\ \A u \in Topics : file[u] \in disk'[u]
      BY <3>1, <3>2 DEF WalTypeOK
    <3> QED
      BY <2>1, <3>2 DEF WalTypeOK
  <2> QED
    BY <2>1, <2>2 DEF WalTypeOK
<1>3. RestTypeOK'
  BY DEF CloseStep, CloseBegin, CloseLock, CloseTopic, CloseEnd, RestTypeOK,
     WalTypeOK
<1>4. LogsGrow
  BY DEF CloseStep, CloseBegin, CloseLock, CloseTopic, CloseEnd, LogsGrow,
     WalTypeOK
<1>5. \A d \in Clients : HandlerOK(d)'
  <2> SUFFICES ASSUME NEW d \in Clients PROVE HandlerOK(d)'
    OBVIOUS
  <2>1. /\ pc'[d] = pc[d] /\ req'[d] = req[d]
        /\ dead'[d] = dead[d] /\ todo'[d] = todo[d]
    BY DEF CloseStep, CloseBegin, CloseLock, CloseTopic, CloseEnd,
       ThreadTypeOK, Threads
  <2> QED
    BY <2>1, <1>1, <1>2, <1>3, <1>4, HandlerFrame
<1>6. ReaperOK' /\ DeadOK'
  BY DEF CloseStep, CloseBegin, CloseLock, CloseTopic, CloseEnd, ReaperOK,
     DeadOK, ThreadTypeOK, Producing, Threads
<1>7. \A j \in GroupKeys : WindowOK(j)'
  BY <1>1, <1>2, <1>3, <1>4, WindowFrame DEF CloseStep, CloseBegin, CloseLock,
     CloseTopic, CloseEnd, GroupTypeOK
<1> QED
  BY <1>1, <1>2, <1>3, <1>5, <1>6, <1>7

\* The WAL's flush loop.
LEMMA FlushInv ==
  ASSUME Inv, NEW t \in Topics, Flush(t)
  PROVE  Inv'
<1> USE ConstantsOK DEF Inv, TypeOK, walVars, groupVars, queueVars, lockVars,
        reqVars, reaperVars, otherVars
<1>1. GroupTypeOK' /\ SyncTypeOK' /\ ThreadTypeOK' /\ RestTypeOK'
  BY DEF Flush, GroupTypeOK, SyncTypeOK, ThreadTypeOK, RestTypeOK
<1>2. WalTypeOK'
  BY DEF Flush, WalTypeOK
<1>3. LogsGrow
  BY DEF Flush, LogsGrow, WalTypeOK
<1>4. \A d \in Clients : HandlerOK(d)'
  <2> SUFFICES ASSUME NEW d \in Clients PROVE HandlerOK(d)'
    OBVIOUS
  <2>1. /\ pc'[d] = pc[d] /\ req'[d] = req[d]
        /\ dead'[d] = dead[d] /\ todo'[d] = todo[d]
    BY DEF Flush, ThreadTypeOK, Threads
  <2> QED
    BY <2>1, <1>1, <1>2, <1>3, HandlerFrame
<1>5. ReaperOK' /\ DeadOK'
  BY DEF Flush, ReaperOK, DeadOK, ThreadTypeOK, Producing, Threads
<1>6. \A j \in GroupKeys : WindowOK(j)'
  BY <1>1, <1>2, <1>3, WindowFrame DEF Flush, GroupTypeOK
<1> QED
  BY <1>1, <1>2, <1>4, <1>5, <1>6

\* CreateTopic, for a client or for the dead-letter topic.
LEMMA CreateTopicInv ==
  ASSUME Inv, NEW th \in Threads, CreateTopic(th)
  PROVE  Inv'
<1> USE ConstantsOK DEF Inv, TypeOK, walVars, groupVars, queueVars, lockVars,
        reqVars, reaperVars, otherVars
<1>1. /\ Target(th) \in Topics
      /\ dead[th] = None => th \in Clients
  BY ProducerOK DEF CreateTopic, Producing
<1>2. GroupTypeOK' /\ SyncTypeOK' /\ RestTypeOK'
  BY DEF CreateTopic, GroupTypeOK, SyncTypeOK, RestTypeOK
<1>3. WalTypeOK'
  BY <1>1 DEF CreateTopic, WalTypeOK
<1>4. ThreadTypeOK'
  <2>1. CallTypeOK'
    <3>1. CASE EndProduce(th)
      BY <1>1, <3>1, EndProduceType
    <3>2. CASE Goto(th, "append") /\ UNCHANGED reqVars
      BY <3>2, GotoType DEF CallTypeOK, ThreadTypeOK, Labels
    <3>3. CASE Goto(th, "group") /\ UNCHANGED reqVars
      BY <3>3, GotoType DEF CallTypeOK, ThreadTypeOK, Labels
    <3>4. CASE dead[th] = None /\ Return(th, <<>>)
      BY <1>1, <3>4, ReturnNothingType
    <3> QED
      BY <3>1, <3>2, <3>3, <3>4 DEF CreateTopic
  <2> QED
    BY <2>1 DEF CallTypeOK, ThreadTypeOK, CreateTopic
<1>5. LogsGrow
  BY DEF CreateTopic, EndProduce, Return, Goto, LogsGrow, WalTypeOK
<1>6. \A d \in Clients : HandlerOK(d)'
  <2>1. ASSUME NEW d \in Clients, d # th
        PROVE  HandlerOK(d)'
    <3>1. /\ pc'[d] = pc[d] /\ req'[d] = req[d]
          /\ dead'[d] = dead[d] /\ todo'[d] = todo[d]
      BY <2>1 DEF CreateTopic, EndProduce, Return, Goto, ThreadTypeOK, Threads
    <3> QED
      BY <3>1, <1>2, <1>3, <1>4, <1>5, HandlerFrame
  <2>2. ASSUME th \in Clients
        PROVE  HandlerOK(th)'
    BY <2>2, <1>1 DEF CreateTopic, EndProduce, Return, Goto, HandlerOK,
       ThreadTypeOK, GroupStates, GroupOps, Producing, Threads, Key
  <2> QED
    BY <2>1, <2>2
<1>7. ReaperOK' /\ DeadOK'
  BY <1>1 DEF CreateTopic, EndProduce, Return, Goto, ReaperOK, DeadOK,
     ThreadTypeOK, Producing, Threads
<1>8. \A j \in GroupKeys : WindowOK(j)'
  BY <1>2, <1>3, <1>4, <1>5, WindowFrame DEF CreateTopic, EndProduce, Return,
     Goto, GroupTypeOK
<1> QED
  BY <1>2, <1>3, <1>4, <1>6, <1>7, <1>8

\* What an append leaves for NewWAL to find, now and after a power loss.
AppendLeaves(th, f, D) ==
  LET t == Target(th)
      written == Append(log[t], Payload(th))
  IN
  /\ OnDisk(t, f, D) /\ D \subseteq disk[t] \cup {file[t], written} /\ f \in D
  /\ \/ f = file[t] /\ log' = log
     \/ f = written /\ log' \in {log, [log EXCEPT ![t] = written]}

\* It is so whether it succeeds or fails.
LEMMA AppendLeft ==
  ASSUME WalTypeOK, NEW th, Target(th) \in Topics, WalAppend(th)
  PROVE  \E f, D : AppendLeaves(th, f, D)
<1> PICK t, w : t = Target(th) /\ w = Append(log[t], Payload(th))
  OBVIOUS
<1>1. file[t] \in disk[t] /\ file = [file EXCEPT ![t] = file[t]] /\ disk = [disk EXCEPT ![t] = disk[t]]
  BY DEF WalTypeOK
<1>2. CASE UNCHANGED <<log, file, disk>>
  <2>1. AppendLeaves(th, file[t], disk[t])
    BY <1>1, <1>2 DEF AppendLeaves, OnDisk
  <2> QED
    BY <2>1
<1>3. ASSUME NEW old \in {disk[t], {file[t]}}, NEW D,
             OnDisk(t, w, D), D \subseteq old \cup {w}, w \in D,
             log' \in {log, [log EXCEPT ![t] = w]}
      PROVE  AppendLeaves(th, w, D)
  BY <1>1, <1>3 DEF AppendLeaves
<1>4. ASSUME NEW old \in {disk[t], {file[t]}}, OnDisk(t, file[t], old), log' = log
      PROVE  AppendLeaves(th, file[t], old)
  BY <1>1, <1>4 DEF AppendLeaves
<1>5. CASE UNCHANGED <<log, file, disk>>
           \/ \E old \in {disk[t], {file[t]}} :
                \/ /\ log' = [log EXCEPT ![t] = w]
                   /\ OnDisk(t, w, IF SyncEveryWrite THEN {w} ELSE old \cup {w})
                \/ /\ OnDisk(t, file[t], old) \/ OnDisk(t, w, old \cup {w})
                   /\ UNCHANGED log
                \/ /\ log' = [log EXCEPT ![t] = w]
                   /\ OnDisk(t, w, old \cup {w}) \/ OnDisk(t, w, {w})
  <2>1. CASE UNCHANGED <<log, file, disk>>
    BY <1>2, <2>1
  <2>2. ASSUME NEW old \in {disk[t], {file[t]}}, NEW D, D \in {{w}, old \cup {w}}
        PROVE  D \subseteq old \cup {w} /\ w \in D
    BY <2>2
  <2> QED
    BY <1>3, <1>4, <1>5, <2>1, <2>2
<1> QED
  BY <1>5 DEF WalAppend

\* wal.Append: the log grows by a record or stays.
LEMMA WalAppendInv ==
  ASSUME Inv, NEW th \in Threads, WalAppend(th)
  PROVE  Inv'
<1> USE ConstantsOK DEF Inv, TypeOK, walVars, groupVars, queueVars, lockVars,
        reqVars, reaperVars, otherVars
<1>1. /\ Target(th) \in Topics /\ Payload(th) \in Entry
      /\ dead[th] = None => th \in Clients
  BY ProducerOK, PayloadOK DEF WalAppend, Producing
<1>2. Append(log[Target(th)], Payload(th)) \in Seq(Entry)
  BY <1>1 DEF WalTypeOK
<1>3. GroupTypeOK' /\ SyncTypeOK' /\ RestTypeOK'
  BY DEF WalAppend, GroupTypeOK, SyncTypeOK, RestTypeOK
<1>4. WalTypeOK'
  <2>1. log' \in [Topics -> Seq(Entry)]
    BY <1>1, <1>2, ZenonT(60) DEF WalAppend, WalTypeOK
  <2>2. PICK f, D : AppendLeaves(th, f, D)
    BY <1>1, AppendLeft
  <2> PICK t, w : t = Target(th) /\ w = Append(log[t], Payload(th))
    OBVIOUS
  <2>a. OnDisk(t, f, D) /\ D \subseteq disk[t] \cup {file[t], w} /\ f \in D
    BY <2>2 DEF AppendLeaves
  <2>b. disk[t] \subseteq Seq(Entry) /\ file[t] \in disk[t] /\ w \in Seq(Entry)
    BY <1>1, <1>2 DEF WalTypeOK
  <2>3. OnDisk(Target(th), f, D) /\ f \in Seq(Entry) /\ D \subseteq Seq(Entry) /\ f \in D
    BY <2>a, <2>b
  <2>4. file' \in [Topics -> Seq(Entry)] /\ disk' \in [Topics -> SUBSET Seq(Entry)]
        /\ \A u \in Topics : file'[u] \in disk'[u]
    BY <1>1, <2>3 DEF OnDisk, WalTypeOK
  <2>5. UNCHANGED <<topics, dirs, closedWals>>
    BY DEF WalAppend
  <2> QED
    BY <2>1, <2>4, <2>5 DEF WalTypeOK
<1>5. ThreadTypeOK'
  <2>1. CallTypeOK'
    <3>1. CASE EndProduce(th)
      BY <1>1, <3>1, EndProduceType
    <3>2. CASE Goto(th, "dispatch") /\ UNCHANGED reqVars
      BY <3>2, GotoType DEF CallTypeOK, ThreadTypeOK, Labels
    <3> QED
      BY <3>1, <3>2 DEF WalAppend
  <2> QED
    BY <2>1 DEF CallTypeOK, ThreadTypeOK, WalAppend
<1>6. LogsGrow
  <2>1. PICK w : w = Append(log[Target(th)], Payload(th))
    OBVIOUS
  <2>2. log' \in {log, [log EXCEPT ![Target(th)] = w]}
    BY <1>1, <2>1, AppendLeft DEF AppendLeaves
  <2>3. \A u \in Topics : log[u] \in Seq(Entry)
    BY DEF WalTypeOK
  <2>4. Len(w) = Len(log[Target(th)]) + 1
    BY <1>1, <2>1, <2>3
  <2>5. ASSUME NEW u \in Topics
        PROVE  log'[u] = log[u] \/ (u = Target(th) /\ log'[u] = w)
    BY <1>1, <2>2 DEF WalTypeOK
  <2>6. ASSUME NEW u \in Topics
        PROVE  Len(log[u]) <= Len(log'[u])
    <3>1. Len(log[u]) \in Nat
      BY <2>3
    <3> QED
      BY <2>4, <2>5, <3>1
  <2> QED
    BY <2>6 DEF LogsGrow
<1>7. \A d \in Clients : HandlerOK(d)'
  <2>1. ASSUME NEW d \in Clients, d # th
        PROVE  HandlerOK(d)'
    <3>1. /\ pc'[d] = pc[d] /\ req'[d] = req[d]
          /\ dead'[d] = dead[d] /\ todo'[d] = todo[d]
      BY <2>1 DEF WalAppend, EndProduce, Return, Goto, ThreadTypeOK, Threads
    <3> QED
      BY <3>1, <1>3, <1>4, <1>5, <1>6, HandlerFrame
  <2>2. ASSUME th \in Clients
        PROVE  HandlerOK(th)'
    <3>1. /\ dead'[th] = dead[th] /\ todo'[th] = todo[th]
          /\ \/ pc'[th] = "dispatch" /\ req'[th] = req[th]
             \/ pc'[th] = "settle" /\ req'[th] = req[th] /\ dead[th] # None
             \/ pc'[th] = "idle" /\ dead[th] = None
      BY <2>2 DEF WalAppend, EndProduce, Return, Goto, ThreadTypeOK, Threads
    <3>2. pc[th] = "append" /\ HandlerOK(th)
      BY <2>2 DEF WalAppend
    <3>3. ASSUME todo[th] # {}
          PROVE  /\ dead[th] # None /\ Key(th)[1] \in Topics
                 /\ \A p \in todo[th] : p < Len(log'[Key(th)[1]])
      <4>1. dead[th] # None
        BY <3>2, <3>3 DEF HandlerOK
      <4>2. Key(th)[1] \in Topics
        BY <2>2, <3>2, <4>1, KeyOK
      <4>3. /\ Len(log[Key(th)[1]]) \in Nat /\ Len(log'[Key(th)[1]]) \in Nat
            /\ Len(log[Key(th)[1]]) <= Len(log'[Key(th)[1]])
        BY <4>2, <1>4, <1>6 DEF WalTypeOK, LogsGrow
      <4>4. \A p \in todo[th] : p \in Nat /\ p < Len(log[Key(th)[1]])
        BY <2>2, <3>2 DEF HandlerOK, ThreadTypeOK
      <4> QED
        BY <4>1, <4>2, <4>3, <4>4, SMTT(30)
    <3> QED
      BY <3>1, <3>2, <3>3 DEF HandlerOK, GroupStates, GroupOps, Producing, Key
  <2> QED
    BY <2>1, <2>2
<1>8. ReaperOK' /\ DeadOK'
  <2> DEFINE Grows(t) == /\ Len(log[t]) \in Nat /\ Len(log'[t]) \in Nat
                         /\ Len(log[t]) <= Len(log'[t])
  <2>0. \A t \in Topics : Grows(t)
    BY <1>4, <1>6 DEF WalTypeOK, LogsGrow
  <2>1. ReaperOK'
    BY <1>1 DEF WalAppend, EndProduce, Return, Goto, ReaperOK, ThreadTypeOK,
       Producing, Threads
  <2>2. ASSUME NEW d \in Threads, dead'[d] # None
        PROVE  dead'[d][2] < Len(log'[dead'[d][1][1]])
    <3>1. dead' = dead /\ dead[d] \in GroupKeys \X Nat
      BY <2>2 DEF WalAppend, ThreadTypeOK
    <3>2. dead[d][2] \in Nat /\ dead[d][1][1] \in Topics
      BY <3>1 DEF GroupKeys
    <3>3. Grows(dead[d][1][1])
      BY <2>0, <3>2, Zenon
    <3> QED
      BY <2>2, <3>1, <3>2, <3>3 DEF DeadOK
  <2> QED
    BY <2>1, <2>2 DEF DeadOK
<1>9. \A j \in GroupKeys : WindowOK(j)'
  BY <1>3, <1>4, <1>5, <1>6, WindowFrame DEF WalAppend, EndProduce, Return,
     Goto, GroupTypeOK
<1> QED
  BY <1>3, <1>4, <1>5, <1>7, <1>8, <1>9

\* dispatchMessage, up to the point where it blocks.
LEMMA DispatchInv ==
  ASSUME Inv, NEW th \in Threads, Dispatch(th)
  PROVE  Inv'
<1> USE ConstantsOK DEF Inv, TypeOK, walVars, groupVars, queueVars, lockVars,
        reqVars, reaperVars, otherVars
<1>1. /\ Target(th) \in Topics
      /\ dead[th] = None => th \in Clients
  BY ProducerOK DEF Dispatch, Producing
<1>2. WalTypeOK' /\ GroupTypeOK' /\ RestTypeOK'
  BY DEF Dispatch, WalTypeOK, GroupTypeOK, RestTypeOK
<1>3. SyncTypeOK'
  <2>1. UNCHANGED <<pending, resp, gmu>>
    BY DEF Dispatch
  <2>2. tmu' \in [Topics -> Threads \cup {None}]
    BY <1>1 DEF Dispatch, SyncTypeOK
  <2> QED
    BY <2>1, <2>2 DEF SyncTypeOK
<1>4. ThreadTypeOK'
  <2>1. CallTypeOK'
    <3>1. CASE EndProduce(th)
      BY <1>1, <3>1, EndProduceType
    <3>2. CASE Goto(th, "blocked") /\ UNCHANGED reqVars
      BY <3>2, GotoType DEF CallTypeOK, ThreadTypeOK, Labels
    <3> QED
      BY <3>1, <3>2 DEF Dispatch
  <2> QED
    BY <2>1 DEF CallTypeOK, ThreadTypeOK, Dispatch
<1>5. LogsGrow
  BY DEF Dispatch, EndProduce, Return, Goto, LogsGrow, WalTypeOK
<1>6. \A d \in Clients : HandlerOK(d)'
  <2>1. ASSUME NEW d \in Clients, d # th
        PROVE  HandlerOK(d)'
    <3>1. /\ pc'[d] = pc[d] /\ req'[d] = req[d]
          /\ dead'[d] = dead[d] /\ todo'[d] = todo[d]
      BY <2>1 DEF Dispatch, EndProduce, Return, Goto, ThreadTypeOK, Threads
    <3> QED
      BY <3>1, <1>2, <1>3, <1>4, <1>5, HandlerFrame
  <2>2. ASSUME th \in Clients
        PROVE  HandlerOK(th)'
    BY <2>2, <1>1 DEF Dispatch, EndProduce, Return, Goto, HandlerOK,
       ThreadTypeOK, GroupStates, GroupOps, Producing, Threads, Key
  <2> QED
    BY <2>1, <2>2
<1>7. ReaperOK' /\ DeadOK'
  BY <1>1 DEF Dispatch, EndProduce, Return, Goto, ReaperOK, DeadOK,
     ThreadTypeOK, Producing, Threads
<1>8. \A j \in GroupKeys : WindowOK(j)'
  BY <1>2, <1>3, <1>4, <1>5, WindowFrame DEF Dispatch, EndProduce, Return,
     Goto, GroupTypeOK
<1> QED
  BY <1>2, <1>3, <1>4, <1>6, <1>7, <1>8

\* The end of dead-lettering: the lease is settled.
LEMMA SettleDeadInv ==
  ASSUME Inv, NEW th \in Threads, SettleDead(th)
  PROVE  Inv'
<1> USE ConstantsOK DEF Inv, TypeOK, walVars, groupVars, queueVars, lockVars,
        reqVars, reaperVars, otherVars
<1>1. dead[th][1] \in GroupKeys /\ dead[th][1][1] \in Topics
  <2>1. dead[th] # None
    BY DEF SettleDead, HandlerOK, ReaperOK, Producing, Threads
  <2> QED
    BY <2>1, ProducerOK DEF SettleDead, Producing
<1>2. /\ group' = [j \in GroupKeys |-> group'[j]]
      /\ \A j \in GroupKeys : IsGroup(group'[j])
      /\ persisted' \in [GroupKeys -> Nat]
      /\ \A j \in GroupKeys : WindowOK(j)'
  BY <1>1, SettleStep DEF SettleDead
<1>3. WalTypeOK'
  BY DEF SettleDead, EndVisit, WalTypeOK
<1>4. GroupTypeOK'
  BY <1>2 DEF SettleDead, EndVisit, GroupTypeOK
<1>5. SyncTypeOK'
  BY <1>1, ZenonT(60) DEF SettleDead, EndVisit, SyncTypeOK, Threads
<1>6. ThreadTypeOK'
  <2>1. {"reap", "sweep", "fetchExpired"} \subseteq Labels
    BY DEF Labels
  <2>2. pc' \in [Threads -> Labels] /\ UNCHANGED <<req, msgs>>
    BY <2>1 DEF SettleDead, EndVisit, Goto, ThreadTypeOK
  <2>3. todo' \in [Clients -> SUBSET Nat]
    <3>1. CASE th = Reaper
      BY <3>1 DEF SettleDead, ThreadTypeOK
    <3>2. CASE th # Reaper
      <4>1. th \in Clients /\ todo[th] \ {dead[th][2]} \in SUBSET Nat
        BY <3>2 DEF Threads, ThreadTypeOK
      <4>2. todo' = [todo EXCEPT ![th] = todo[th] \ {dead[th][2]}]
        BY <3>2 DEF SettleDead
      <4> QED
        BY <4>1, <4>2 DEF ThreadTypeOK
    <3> QED
      BY <3>1, <3>2
  <2>4. dead' \in [Threads -> (GroupKeys \X Nat) \cup {None}]
    BY DEF SettleDead, ThreadTypeOK
  <2> QED
    BY <2>2, <2>3, <2>4 DEF ThreadTypeOK
<1>7. RestTypeOK'
  BY DEF SettleDead, EndVisit, RestTypeOK, WalTypeOK
<1>8. LogsGrow
  BY DEF SettleDead, EndVisit, Goto, LogsGrow, WalTypeOK
<1>9. \A d \in Clients : HandlerOK(d)'
  <2>1. ASSUME NEW d \in Clients, d # th
        PROVE  HandlerOK(d)'
    <3>1. /\ pc'[d] = pc[d] /\ req'[d] = req[d]
          /\ dead'[d] = dead[d] /\ todo'[d] = todo[d]
      BY <2>1 DEF SettleDead, EndVisit, Goto, ThreadTypeOK, Threads
    <3> QED
      BY <3>1, <1>3, <1>4, <1>5, <1>6, <1>7, <1>8, HandlerFrame
  <2>2. ASSUME th \in Clients
        PROVE  HandlerOK(th)'
    BY <2>2 DEF SettleDead, EndVisit, Goto, HandlerOK, ThreadTypeOK,
       GroupStates, GroupOps, Producing, Threads, Key
  <2> QED
    BY <2>1, <2>2
<1>10. ReaperOK' /\ DeadOK'
  BY DEF SettleDead, EndVisit, Goto, ReaperOK, DeadOK, ThreadTypeOK, Producing,
     Threads
<1>11. \A j \in GroupKeys : WindowOK(j)'
  BY <1>2
<1> QED
  BY <1>3, <1>4, <1>5, <1>6, <1>7, <1>9, <1>10, <1>11

\* Ack.
LEMMA AckInv ==
  ASSUME Inv, NEW c \in Clients, Ack(c)
  PROVE  Inv'
<1> USE ConstantsOK DEF Inv, TypeOK, walVars, groupVars, queueVars, lockVars,
        reqVars, reaperVars, otherVars
<1> DEFINE k == Key(c)
           o == req[c].offset
<1>1. k \in GroupKeys
  BY KeyOK DEF Ack, GroupStates
<1>2. /\ group' = [j \in GroupKeys |-> group'[j]]
      /\ \A j \in GroupKeys : IsGroup(group'[j])
      /\ persisted' \in [GroupKeys -> Nat]
      /\ \A j \in GroupKeys : WindowOK(j)'
  <2>1. CASE UNCHANGED groupVars
    BY <2>1 DEF Ack, GroupTypeOK, WindowOK
  <2>2. CASE SaveGroup(k, Settle(group[k], o))
    BY <1>1, <2>2, SettleStep DEF Ack
  <2> QED
    BY <2>1, <2>2 DEF Ack
<1>3. acks' \in [GroupKeys -> SUBSET Nat]
  <2>1. CASE o \in DOMAIN group[k].leases
    <3>1. log[k[1]][o + 1].value \in Nat
      BY <1>1, <2>1, LeaseInLog
    <3> QED
      BY <1>1, <3>1, SMTT(30) DEF Ack, GroupTypeOK
  <2>2. CASE o \notin DOMAIN group[k].leases
    BY <2>2 DEF Ack, GroupTypeOK
  <2> QED
    BY <2>1, <2>2
<1>4. WalTypeOK' /\ SyncTypeOK' /\ RestTypeOK'
  BY DEF Ack, WalTypeOK, SyncTypeOK, RestTypeOK
<1>5. GroupTypeOK'
  BY <1>2, <1>3 DEF GroupTypeOK
<1>6. ThreadTypeOK'
  BY DEF Ack, Return, Goto, ThreadTypeOK, Threads, Labels
<1>7. LogsGrow
  BY DEF Ack, Return, Goto, LogsGrow, WalTypeOK
<1>8. \A d \in Clients : HandlerOK(d)'
  <2>1. ASSUME NEW d \in Clients, d # c
        PROVE  HandlerOK(d)'
    <3>1. /\ pc'[d] = pc[d] /\ req'[d] = req[d]
          /\ dead'[d] = dead[d] /\ todo'[d] = todo[d]
      BY <2>1, SMTT(30) DEF Ack, Return, Goto, ThreadTypeOK, Threads
    <3> QED
      BY <3>1, <1>4, <1>5, <1>6, <1>7, HandlerFrame
  <2>2. HandlerOK(c)'
    BY DEF Ack, Return, Goto, HandlerOK, ThreadTypeOK, GroupStates, GroupOps,
       Producing, Threads, Key
  <2> QED
    BY <2>1, <2>2
<1>9. ReaperOK' /\ DeadOK'
  BY DEF Ack, Return, Goto, ReaperOK, DeadOK, ThreadTypeOK, Producing, Threads
<1>10. \A j \in GroupKeys : WindowOK(j)'
  BY <1>2
<1> QED
  BY <1>4, <1>5, <1>6, <1>8, <1>9, <1>10

\* The first half of Nack: the lease expires now.
LEMMA NackLeaseInv ==
  ASSUME Inv, NEW c \in Clients, NackLease(c)
  PROVE  Inv'
<1> USE ConstantsOK DEF Inv, TypeOK, walVars, groupVars, queueVars, lockVars,
        reqVars, reaperVars, otherVars
<1> DEFINE k == Key(c)
           G == Expire(group[k], req[c].offset)
<1>1. k \in GroupKeys
  BY KeyOK DEF NackLease, GroupStates
<1>2. /\ IsGroup(G) /\ G.committed = group[k].committed
      /\ DOMAIN G.leases = DOMAIN group[k].leases
  BY <1>1, ExpireKeeps DEF GroupTypeOK
<1>3. group' = group \/ group' = [group EXCEPT ![k] = G]
  BY DEF NackLease
<1> HIDE DEF G
<1>4. WalTypeOK' /\ RestTypeOK'
  BY DEF NackLease, WalTypeOK, RestTypeOK
<1>5. GroupTypeOK'
  BY <1>1, <1>2, <1>3, GroupUpdate DEF NackLease, GroupTypeOK
<1>6. SyncTypeOK'
  <2>1. UNCHANGED <<pending, resp, tmu>>
    BY DEF NackLease
  <2>2. gmu' \in [GroupKeys -> Threads \cup {None}]
    <3>1. c \in Threads
      BY DEF Threads
    <3> QED
      BY <3>1, ZenonT(60) DEF NackLease, SyncTypeOK
  <2> QED
    BY <2>1, <2>2 DEF SyncTypeOK
<1>7. ThreadTypeOK'
  <2>1. CallTypeOK'
    <3>1. CASE Return(c, <<>>)
      BY <3>1, ReturnNothingType
    <3>2. CASE Goto(c, "nackDispatch") /\ UNCHANGED reqVars
      BY <3>2, GotoType DEF CallTypeOK, ThreadTypeOK, Threads, Labels
    <3> QED
      BY <3>1, <3>2 DEF NackLease
  <2> QED
    BY <2>1 DEF CallTypeOK, ThreadTypeOK, NackLease
<1>8. LogsGrow
  BY DEF NackLease, Return, Goto, LogsGrow, WalTypeOK
<1>9. \A d \in Clients : HandlerOK(d)'
  <2>1. ASSUME NEW d \in Clients, d # c
        PROVE  HandlerOK(d)'
    <3>1. /\ pc'[d] = pc[d] /\ req'[d] = req[d]
          /\ dead'[d] = dead[d] /\ todo'[d] = todo[d]
      BY <2>1 DEF NackLease, Return, Goto, ThreadTypeOK, Threads
    <3> QED
      BY <3>1, <1>4, <1>5, <1>6, <1>7, <1>8, HandlerFrame
  <2>2. HandlerOK(c)'
    BY ZenonT(60) DEF NackLease, Return, Goto, HandlerOK, ThreadTypeOK, GroupStates,
       GroupOps, Producing, Threads, Key
  <2> QED
    BY <2>1, <2>2
<1>10. ReaperOK' /\ DeadOK'
  BY DEF NackLease, Return, Goto, ReaperOK, DeadOK, ThreadTypeOK, Producing,
     Threads
<1>11. \A j \in GroupKeys : WindowOK(j)'
  <2>1. CASE group' = group
    BY <2>1 DEF NackLease, WindowOK
  <2>2. CASE group' = [group EXCEPT ![k] = G]
    BY <2>2, <1>1, <1>2, <1>4, <1>5, <1>6, <1>7, <1>8, WindowUpdate
  <2> QED
    BY <1>3, <2>1, <2>2
<1> QED
  BY <1>4, <1>5, <1>6, <1>7, <1>9, <1>10, <1>11

\* The second half of Nack: the first waiting fetch gets the message.
LEMMA NackDispatchInv ==
  ASSUME Inv, NEW c \in Clients, NackDispatch(c)
  PROVE  Inv'
<1> USE ConstantsOK DEF Inv, TypeOK, walVars, groupVars, queueVars, lockVars,
        reqVars, reaperVars, otherVars
<1> DEFINE k == Key(c)
           G == Redeliver(group[k], req[c].offset)
<1>1. k \in GroupKeys /\ req[c].offset \in Nat
  BY KeyOK DEF NackDispatch, GroupStates
<1>2. /\ IsGroup(G) /\ G.committed = group[k].committed
      /\ DOMAIN G.leases = DOMAIN group[k].leases
  BY <1>1, RedeliverKeeps DEF GroupTypeOK
<1>3. group' = group \/ group' = [group EXCEPT ![k] = G]
  BY DEF NackDispatch
<1> HIDE DEF G
<1>4. WalTypeOK' /\ RestTypeOK'
  BY DEF NackDispatch, Send, WalTypeOK, RestTypeOK
<1>5. GroupTypeOK'
  BY <1>1, <1>2, <1>3, GroupUpdate DEF NackDispatch, GroupTypeOK
<1>6. SyncTypeOK'
  <2>1. UNCHANGED tmu /\ gmu' \in [GroupKeys -> Threads \cup {None}]
    BY DEF NackDispatch, SyncTypeOK
  <2>2. CASE pending[k] = <<>>
    BY <2>1, <2>2 DEF NackDispatch, SyncTypeOK
  <2>3. CASE pending[k] # <<>>
    <3>1. Head(pending[k]) \in Clients /\ Tail(pending[k]) \in Seq(Clients)
      BY <1>1, <2>3 DEF SyncTypeOK
    <3>2. pending' \in [GroupKeys -> Seq(Clients)]
      BY <2>3, <3>1 DEF NackDispatch, SyncTypeOK
    <3>3. resp' \in [Clients -> Seq(Nat)]
      <4>1. <<req[c].offset>> \in Seq(Nat)
        BY <1>1
      <4>2. \/ resp' = resp
            \/ resp' = [resp EXCEPT ![Head(pending[k])] = <<req[c].offset>>]
        BY <2>3 DEF NackDispatch, Send
      <4> QED
        BY <3>1, <4>1, <4>2 DEF SyncTypeOK
    <3> QED
      BY <2>1, <3>2, <3>3 DEF SyncTypeOK
  <2> QED
    BY <2>2, <2>3
<1>7. ThreadTypeOK'
  BY DEF NackDispatch, Return, Send, Goto, ThreadTypeOK, Threads, Labels
<1>8. LogsGrow
  BY DEF NackDispatch, Return, Send, Goto, LogsGrow, WalTypeOK
<1>9. \A d \in Clients : HandlerOK(d)'
  <2>1. ASSUME NEW d \in Clients, d # c
        PROVE  HandlerOK(d)'
    <3>1. /\ pc'[d] = pc[d] /\ req'[d] = req[d]
          /\ dead'[d] = dead[d] /\ todo'[d] = todo[d]
      BY <2>1, SMTT(30) DEF NackDispatch, Return, Send, Goto, ThreadTypeOK, Threads
    <3> QED
      BY <3>1, <1>4, <1>5, <1>6, <1>7, <1>8, HandlerFrame
  <2>2. HandlerOK(c)'
    BY DEF NackDispatch, Return, Send, Goto, HandlerOK, ThreadTypeOK,
       GroupStates, GroupOps, Producing, Threads, Key
  <2> QED
    BY <2>1, <2>2
<1>10. ReaperOK' /\ DeadOK'
  BY DEF NackDispatch, Return, Send, Goto, ReaperOK, DeadOK, ThreadTypeOK,
     Producing, Threads
<1>11. \A j \in GroupKeys : WindowOK(j)'
  <2>1. CASE group' = group
    BY <2>1 DEF NackDispatch, WindowOK
  <2>2. CASE group' = [group EXCEPT ![k] = G]
    BY <2>2, <1>1, <1>2, <1>4, <1>5, <1>6, <1>7, <1>8, WindowUpdate
  <2> QED
    BY <1>3, <2>1, <2>2
<1> QED
  BY <1>4, <1>5, <1>6, <1>7, <1>9, <1>10, <1>11

\* fetchAvailable collects the expired offsets: all are in the log.
LEMMA FetchLockInv ==
  ASSUME Inv, NEW c \in Clients, FetchLock(c)
  PROVE  Inv'
<1> USE ConstantsOK DEF Inv, TypeOK, walVars, groupVars, queueVars, lockVars,
        reqVars, reaperVars, otherVars
<1> DEFINE E == ExpiredOffsets(group[Key(c)])
<1>1. Key(c) \in GroupKeys
  BY KeyOK DEF FetchLock, GroupStates
<1>2. E \subseteq Nat /\ \A p \in E : p < Len(log[Key(c)[1]])
  BY <1>1, LeaseInLog DEF ExpiredOffsets
<1>3. todo' = [todo EXCEPT ![c] = E]
  BY DEF FetchLock
<1> HIDE DEF E
<1>4. WalTypeOK' /\ GroupTypeOK' /\ RestTypeOK'
  BY DEF FetchLock, WalTypeOK, GroupTypeOK, RestTypeOK
<1>5. SyncTypeOK'
  BY <1>1 DEF FetchLock, SyncTypeOK, Threads
<1>6. ThreadTypeOK'
  BY <1>2, <1>3 DEF FetchLock, Goto, ThreadTypeOK, Threads, Labels
<1>7. LogsGrow
  BY DEF FetchLock, Goto, LogsGrow, WalTypeOK
<1>8. \A d \in Clients : HandlerOK(d)'
  <2>1. ASSUME NEW d \in Clients, d # c
        PROVE  HandlerOK(d)'
    <3>1. /\ pc'[d] = pc[d] /\ req'[d] = req[d]
          /\ dead'[d] = dead[d] /\ todo'[d] = todo[d]
      BY <2>1 DEF FetchLock, Goto, ThreadTypeOK, Threads
    <3> QED
      BY <3>1, <1>4, <1>5, <1>6, <1>7, HandlerFrame
  <2>2. HandlerOK(c)'
    <3>1. /\ pc'[c] = "fetchExpired" /\ todo'[c] = E
          /\ UNCHANGED <<req, log, dead>> /\ pc[c] = "fetch"
      BY <1>3 DEF FetchLock, Goto, ThreadTypeOK, Threads
    <3>2. HandlerOK(c) /\ Key(c)' = Key(c)
      BY <3>1 DEF Key
    <3> QED
      BY <1>2, <3>1, <3>2 DEF HandlerOK, GroupStates, Producing
  <2> QED
    BY <2>1, <2>2
<1>9. ReaperOK' /\ DeadOK'
  BY DEF FetchLock, Goto, ReaperOK, DeadOK, ThreadTypeOK, Producing, Threads
<1>10. \A j \in GroupKeys : WindowOK(j)'
  BY <1>4, <1>5, <1>6, <1>7, WindowFrame DEF FetchLock, Goto, GroupTypeOK
<1> QED
  BY <1>4, <1>5, <1>6, <1>8, <1>9, <1>10

\* A turn of fetchAvailable's loop over the expired offsets.
LEMMA FetchExpiredInv ==
  ASSUME Inv, NEW c \in Clients, FetchExpired(c)
  PROVE  Inv'
<1> USE ConstantsOK DEF Inv, TypeOK, walVars, groupVars, queueVars, lockVars,
        reqVars, reaperVars, otherVars
<1> DEFINE k == Key(c)
           o == First(todo[c])
           G == Redeliver(group[k], o)
<1>1. k \in GroupKeys
  BY KeyOK DEF FetchExpired, GroupStates
<1>2. o \in todo[c] /\ o \in Nat /\ o < Len(log[k[1]])
  BY FirstIsIn DEF FetchExpired, ThreadTypeOK, HandlerOK
<1>3. /\ IsGroup(G) /\ G.committed = group[k].committed
      /\ DOMAIN G.leases = DOMAIN group[k].leases
  BY <1>1, RedeliverKeeps DEF GroupTypeOK
<1>4. group' = group \/ group' = [group EXCEPT ![k] = G]
  BY DEF FetchExpired
<1>5. \/ /\ dead' = [dead EXCEPT ![c] = <<k, o>>]
         /\ \/ pc' = [pc EXCEPT ![c] = "create"]
            \/ pc' = [pc EXCEPT ![c] = "settle"]
         /\ UNCHANGED <<msgs, todo>>
      \/ /\ todo' = [todo EXCEPT ![c] = @ \ {o}]
         /\ msgs' = msgs \/ msgs' = [msgs EXCEPT ![c] = Append(@, o)]
         /\ UNCHANGED <<pc, dead>>
  BY DEF FetchExpired, Goto
<1> HIDE DEF G
<1>6. WalTypeOK' /\ SyncTypeOK' /\ RestTypeOK'
  BY DEF FetchExpired, WalTypeOK, SyncTypeOK, RestTypeOK
<1>7. GroupTypeOK'
  BY <1>1, <1>3, <1>4, GroupUpdate DEF FetchExpired, GroupTypeOK
<1>8. ThreadTypeOK'
  <2>1. <<k, o>> \in GroupKeys \X Nat
    BY <1>1, <1>2
  <2>2. c \in Threads /\ {"create", "settle"} \subseteq Labels
    BY DEF Threads, Labels
  <2> HIDE DEF k, o
  <2>3. pc' \in [Threads -> Labels]
    BY <1>5, <2>2 DEF ThreadTypeOK
  <2>4. /\ todo' \in [Clients -> SUBSET Nat]
        /\ msgs' \in [Clients -> Seq(Nat)]
        /\ req' = req
    <3>1. todo[c] \ {o} \in SUBSET Nat /\ Append(msgs[c], o) \in Seq(Nat)
      BY <1>2 DEF ThreadTypeOK
    <3>2. \/ todo' = todo
          \/ todo' = [todo EXCEPT ![c] = todo[c] \ {o}]
      BY <1>5
    <3>3. \/ msgs' = msgs
          \/ msgs' = [msgs EXCEPT ![c] = Append(msgs[c], o)]
      BY <1>5
    <3>4. req' = req
      BY DEF FetchExpired
    <3>5. todo' \in [Clients -> SUBSET Nat]
      BY <3>1, <3>2 DEF ThreadTypeOK
    <3>6. msgs' \in [Clients -> Seq(Nat)]
      BY <3>1, <3>3 DEF ThreadTypeOK
    <3> QED
      BY <3>4, <3>5, <3>6
  <2>5. dead' \in [Threads -> (GroupKeys \X Nat) \cup {None}]
    BY <1>5, <2>1, <2>2 DEF ThreadTypeOK
  <2> QED
    BY <2>3, <2>4, <2>5 DEF ThreadTypeOK
<1>9. LogsGrow
  BY DEF FetchExpired, Goto, LogsGrow, WalTypeOK
<1>10. \A d \in Clients : HandlerOK(d)'
  <2>1. ASSUME NEW d \in Clients, d # c
        PROVE  HandlerOK(d)'
    <3>1. /\ pc'[d] = pc[d] /\ req'[d] = req[d]
          /\ dead'[d] = dead[d] /\ todo'[d] = todo[d]
      BY <2>1 DEF FetchExpired, Goto, ThreadTypeOK, Threads
    <3> QED
      BY <3>1, <1>6, <1>7, <1>8, <1>9, HandlerFrame
  <2>2. HandlerOK(c)'
    <3>1. /\ req' = req /\ log' = log /\ todo'[c] \subseteq todo[c]
          /\ \/ /\ pc'[c] \in {"create", "settle"} /\ dead'[c] = <<k, o>>
             \/ pc'[c] = "fetchExpired" /\ dead'[c] = dead[c]
      BY DEF FetchExpired, Goto, ThreadTypeOK, Threads
    <3>2. <<k, o>> # None /\ <<k, o>>[1] = k
      BY <1>1, <1>2
    <3>3. pc[c] = "fetchExpired" /\ HandlerOK(c) /\ dead[c] = None
      BY DEF FetchExpired, HandlerOK, Producing
    <3>4. Key(c)' = Key(c)
      BY <3>1 DEF Key
    <3> HIDE DEF k, o
    <3>5. k = Key(c)
      BY DEF k
    <3> QED
      BY <3>1, <3>2, <3>3, <3>4, <3>5 DEF HandlerOK, GroupStates, GroupOps,
         Producing
  <2> QED
    BY <2>1, <2>2
<1>11. ReaperOK' /\ DeadOK'
  BY <1>1, <1>2, SMTT(30) DEF FetchExpired, Goto, ReaperOK, DeadOK, ThreadTypeOK,
     Producing, Threads
<1>12. \A j \in GroupKeys : WindowOK(j)'
  <2>1. CASE group' = group
    BY <2>1 DEF FetchExpired, WindowOK
  <2>2. CASE group' = [group EXCEPT ![k] = G]
    BY <2>2, <1>1, <1>3, <1>6, <1>7, <1>8, <1>9, WindowUpdate
  <2> QED
    BY <1>4, <2>1, <2>2
<1> QED
  BY <1>6, <1>7, <1>8, <1>10, <1>11, <1>12

\* checkExpiredLeases visits a group.
LEMMA ReapGroupInv ==
  ASSUME Inv, NEW k \in GroupKeys, ReapGroup(k)
  PROVE  Inv'
<1> USE ConstantsOK DEF Inv, TypeOK, walVars, groupVars, queueVars, lockVars,
        reqVars, reaperVars, otherVars
<1> DEFINE o == First(ExpiredOffsets(group[k]))
           G == Redeliver(group[k], o)
<1>1. ASSUME ExpiredOffsets(group[k]) # {}
      PROVE  o \in Nat /\ o < Len(log[k[1]])
  <2>1. \A p \in ExpiredOffsets(group[k]) : p \in Nat /\ p < Len(log[k[1]])
    BY LeaseInLog DEF ExpiredOffsets
  <2> QED
    BY <1>1, <2>1, FirstIsIn
<1>2. /\ IsGroup(G) /\ G.committed = group[k].committed
      /\ DOMAIN G.leases = DOMAIN group[k].leases
  BY RedeliverKeeps DEF GroupTypeOK
<1>3. group' = group \/ group' = [group EXCEPT ![k] = G]
  BY DEF ReapGroup
<1>4. k[1] \in Topics
  BY DEF GroupKeys
<1> HIDE DEF G
<1>5. WalTypeOK'
  BY DEF ReapGroup, EndVisit, Send, WalTypeOK
<1>6. GroupTypeOK'
  BY <1>2, <1>3, GroupUpdate DEF ReapGroup, GroupTypeOK
<1>7. SyncTypeOK'
  <2>1. tmu' \in [Topics -> Threads \cup {None}]
    BY <1>4 DEF ReapGroup, EndVisit, SyncTypeOK
  <2>2. gmu' \in [GroupKeys -> Threads \cup {None}]
    <3>1. Reaper \in Threads
      BY DEF Threads
    <3> QED
      BY <3>1, ZenonT(60) DEF ReapGroup, SyncTypeOK
  <2>3. CASE UNCHANGED queueVars
    BY <2>1, <2>2, <2>3 DEF SyncTypeOK
  <2>4. CASE pending[k] # <<>> /\ ExpiredOffsets(group[k]) # {}
    <3>1. Head(pending[k]) \in Clients /\ Tail(pending[k]) \in Seq(Clients)
      BY <2>4 DEF SyncTypeOK
    <3>2. pending' \in [GroupKeys -> Seq(Clients)]
      BY <2>4, <3>1 DEF ReapGroup, SyncTypeOK
    <3>3. resp' \in [Clients -> Seq(Nat)]
      <4>1. <<o>> \in Seq(Nat)
        BY <1>1, <2>4
      <4>2. \/ resp' = resp
            \/ resp' = [resp EXCEPT ![Head(pending[k])] = <<o>>]
        BY <2>4 DEF ReapGroup, Send
      <4> HIDE DEF o
      <4> QED
        BY <3>1, <4>1, <4>2 DEF SyncTypeOK
    <3> QED
      BY <2>1, <2>2, <3>2, <3>3 DEF SyncTypeOK
  <2> QED
    BY <2>3, <2>4 DEF ReapGroup
<1>8. ThreadTypeOK'
  BY <1>1 DEF ReapGroup, EndVisit, Send, Goto, ThreadTypeOK, Threads, Labels
<1>9. RestTypeOK'
  BY <1>4 DEF ReapGroup, EndVisit, Send, RestTypeOK, WalTypeOK
<1>10. LogsGrow
  BY DEF ReapGroup, EndVisit, Send, Goto, LogsGrow, WalTypeOK
<1>11. \A d \in Clients : HandlerOK(d)'
  <2> SUFFICES ASSUME NEW d \in Clients PROVE HandlerOK(d)'
    OBVIOUS
  <2>1. /\ pc'[d] = pc[d] /\ req'[d] = req[d]
        /\ dead'[d] = dead[d] /\ todo'[d] = todo[d]
    BY DEF ReapGroup, EndVisit, Send, Goto, ThreadTypeOK, Threads
  <2> QED
    BY <2>1, <1>5, <1>6, <1>7, <1>8, <1>9, <1>10, HandlerFrame
<1>12. ReaperOK' /\ DeadOK'
  BY <1>1 DEF ReapGroup, EndVisit, Send, Goto, ReaperOK, DeadOK, ThreadTypeOK,
     Producing, Threads
<1>13. \A j \in GroupKeys : WindowOK(j)'
  <2>1. CASE group' = group
    BY <2>1 DEF ReapGroup, WindowOK
  <2>2. CASE group' = [group EXCEPT ![k] = G]
    BY <2>2, <1>2, <1>5, <1>6, <1>7, <1>8, <1>9, <1>10, WindowUpdate
  <2> QED
    BY <1>3, <2>1, <2>2
<1> QED
  BY <1>5, <1>6, <1>7, <1>8, <1>9, <1>11, <1>12, <1>13

\* Time passes a lease's expiry.
LEMMA ExpireLeaseInv ==
  ASSUME Inv, NEW k \in GroupKeys, NEW o, ExpireLease(k, o)
  PROVE  Inv'
<1> USE ConstantsOK DEF Inv, TypeOK, walVars, groupVars, queueVars, lockVars,
        reqVars, reaperVars, otherVars
<1> DEFINE G == Expire(group[k], o)
<1>1. /\ IsGroup(G) /\ G.committed = group[k].committed
      /\ DOMAIN G.leases = DOMAIN group[k].leases
  BY ExpireKeeps DEF GroupTypeOK
<1>2. group' = [group EXCEPT ![k] = G]
  BY DEF ExpireLease
<1> HIDE DEF G
<1>3. WalTypeOK' /\ SyncTypeOK' /\ ThreadTypeOK' /\ RestTypeOK'
  BY DEF ExpireLease, WalTypeOK, SyncTypeOK, ThreadTypeOK, RestTypeOK
<1>4. GroupTypeOK'
  BY <1>1, <1>2, GroupUpdate DEF ExpireLease, GroupTypeOK
<1>5. LogsGrow
  BY DEF ExpireLease, LogsGrow, WalTypeOK
<1>6. \A d \in Clients : HandlerOK(d)'
  <2> SUFFICES ASSUME NEW d \in Clients PROVE HandlerOK(d)'
    OBVIOUS
  <2>1. /\ pc'[d] = pc[d] /\ req'[d] = req[d]
        /\ dead'[d] = dead[d] /\ todo'[d] = todo[d]
    BY DEF ExpireLease, ThreadTypeOK, Threads
  <2> QED
    BY <2>1, <1>3, <1>4, <1>5, HandlerFrame
<1>7. ReaperOK' /\ DeadOK'
  BY DEF ExpireLease, ReaperOK, DeadOK, ThreadTypeOK, Producing, Threads
<1>8. \A j \in GroupKeys : WindowOK(j)'
  BY <1>1, <1>2, <1>3, <1>4, <1>5, WindowUpdate
<1> QED
  BY <1>3, <1>4, <1>6, <1>7, <1>8

\* The end of fetchAvailable: leases on records that are in the log.
LEMMA FetchNewInv ==
  ASSUME Inv, NEW c \in Clients, NEW n \in 0 .. NewCount(c), FetchNew(c, n)
  PROVE  Inv'
<1> USE ConstantsOK DEF Inv, TypeOK, walVars, groupVars, queueVars, lockVars,
        reqVars, reaperVars, otherVars
<1> DEFINE k == Key(c)
           G == LeaseNew(group[k], n)
           found == msgs[c] \o [i \in 1 .. n |-> NextOffset(group[k]) + i - 1]
<1>1. k \in GroupKeys /\ k[1] \in Topics /\ req[c].max \in Nat
  BY KeyOK DEF FetchNew, GroupStates
<1>2. PICK m \in Nat : /\ WindowTo(group[k], m)
                       /\ m <= Len(log[k[1]]) \/ m = group[k].committed
  BY <1>1 DEF WindowOK
<1>3. IsGroup(group[k]) /\ NextOffset(group[k]) = m
  BY <1>1, <1>2, NextOffsetOfWindow DEF GroupTypeOK
<1>4. n \in Nat /\ (n = 0 \/ m + n <= Len(log[k[1]]))
  <2>1. Len(log[k[1]]) \in Nat /\ Len(msgs[c]) \in Nat
    BY <1>1 DEF WalTypeOK, ThreadTypeOK
  <2> QED
    BY <1>1, <1>3, <2>1, SMTT(30) DEF NewCount, HasRoom
<1>5. /\ IsGroup(G) /\ WindowTo(G, m + n) /\ G.committed = group[k].committed
  BY <1>2, <1>3, <1>4, LeaseNewKeeps
<1>6. found \in Seq(Nat)
  <2>1. \A i \in 1 .. n : NextOffset(group[k]) + i - 1 \in Nat
    BY <1>3, <1>4
  <2>2. [i \in 1 .. n |-> NextOffset(group[k]) + i - 1] \in Seq(Nat)
    BY <1>4, <2>1
  <2> QED
    BY <2>2 DEF ThreadTypeOK
<1>7. group' = [group EXCEPT ![k] = G]
  BY DEF FetchNew
<1> HIDE DEF G
<1>8. WalTypeOK' /\ RestTypeOK'
  BY DEF FetchNew, WalTypeOK, RestTypeOK
<1>9. GroupTypeOK'
  BY <1>1, <1>5, <1>7, GroupUpdate DEF FetchNew, GroupTypeOK
<1>10. SyncTypeOK'
  BY <1>1 DEF FetchNew, SyncTypeOK, Threads
<1>11. ThreadTypeOK'
  <2>1. CallTypeOK'
    <3>1. CASE Return(c, found)
      BY <1>6, <3>1, ReturnType
    <3>2. CASE Goto(c, "enqueue") /\ UNCHANGED reqVars
      BY <3>2, GotoType DEF CallTypeOK, ThreadTypeOK, Threads, Labels
    <3> QED
      BY <3>1, <3>2 DEF FetchNew
  <2>2. todo' \in [Clients -> SUBSET Nat] /\ dead' = dead
    BY DEF FetchNew, ThreadTypeOK
  <2> QED
    BY <2>1, <2>2 DEF CallTypeOK, ThreadTypeOK
<1>12. LogsGrow
  BY DEF FetchNew, Return, Goto, LogsGrow, WalTypeOK
<1>13. \A d \in Clients : HandlerOK(d)'
  <2>1. ASSUME NEW d \in Clients, d # c
        PROVE  HandlerOK(d)'
    <3>1. /\ pc'[d] = pc[d] /\ req'[d] = req[d]
          /\ dead'[d] = dead[d] /\ todo'[d] = todo[d]
      BY <2>1, ZenonT(60) DEF FetchNew, Return, Goto, ThreadTypeOK, Threads
    <3> QED
      BY <3>1, <1>8, <1>9, <1>10, <1>11, <1>12, HandlerFrame
  <2>2. HandlerOK(c)'
    <3>1. /\ todo'[c] = {} /\ dead'[c] = dead[c] /\ dead[c] = None
          /\ \/ pc'[c] = "idle"
             \/ pc'[c] = "enqueue" /\ req' = req
      BY ZenonT(60) DEF FetchNew, Return, Goto, HandlerOK, ThreadTypeOK, Producing, Threads
    <3>2. HandlerOK(c) /\ pc[c] = "fetchExpired"
      BY DEF FetchNew
    <3> QED
      BY <3>1, <3>2 DEF HandlerOK, GroupStates, GroupOps, Producing
  <2> QED
    BY <2>1, <2>2
<1>14. ReaperOK' /\ DeadOK'
  <2>1. pc'[Reaper] = pc[Reaper] /\ dead' = dead /\ log' = log
    BY ZenonT(60) DEF FetchNew, Return, Goto, ThreadTypeOK, Threads
  <2> QED
    BY <2>1 DEF ReaperOK, DeadOK, Producing
<1>15. \A j \in GroupKeys : WindowOK(j)'
  <2>1. PICK kk \in GroupKeys : kk = k
    BY <1>1
  <2>2. /\ group'[kk] = G
        /\ \A j \in GroupKeys : j # kk => group'[j] = group[j]
    BY <1>1, <1>5, <1>7, <2>1, GroupUpdate, ZenonT(60)
  <2>3. m + n \in Nat /\ (m + n <= Len(log[kk[1]]) \/ m + n = G.committed)
    BY <1>2, <1>4, <1>5, <2>1
  <2>4. log' = log
    BY DEF FetchNew
  <2>5. WindowOK(kk)'
    BY <1>5, <2>2, <2>3, <2>4 DEF WindowOK
  <2>6. ASSUME NEW j \in GroupKeys, j # kk
        PROVE  WindowOK(j)'
    BY <2>2, <2>4, <2>6 DEF WindowOK
  <2> QED
    BY <2>5, <2>6
<1> QED
  BY <1>8, <1>9, <1>10, <1>11, <1>13, <1>14, <1>15

\* The process dies; what the next one loads is well formed.
LEMMA CrashInv ==
  ASSUME Inv, NEW left \in [Topics -> UNION {disk[t] : t \in Topics}],
         NEW skipped \in SUBSET GroupKeys, Crash(left, skipped)
  PROVE  Inv'
<1> USE ConstantsOK DEF Inv, TypeOK
<1>1. \A c \in Nat : IsGroup(LoadedGroup(c)) /\ WindowTo(LoadedGroup(c), c)
  BY DEF LoadedGroup, IsGroup, WindowTo, Lease
<1>2. WalTypeOK'
  <2>1. \A t \in Topics : disk[t] \subseteq Seq(Entry) /\ file[t] \in disk[t]
    BY DEF WalTypeOK
  <2>2. UNION {disk[t] : t \in Topics} \subseteq Seq(Entry)
    BY <2>1
  <2>3. left \in [Topics -> Seq(Entry)]
    BY <2>2
  <2>4. /\ disk' \in [Topics -> SUBSET Seq(Entry)]
        /\ \A t \in Topics : left[t] \in disk'[t]
    <3>1. CASE disk' = [t \in Topics |-> {left[t]}]
      BY <2>3, <3>1
    <3>2. CASE left = file /\ UNCHANGED disk
      BY <2>1, <3>2 DEF WalTypeOK
    <3> QED
      BY <3>1, <3>2 DEF Crash
  <2>5. /\ log' = left /\ file' = left /\ topics' = dirs /\ dirs' = dirs
        /\ closedWals' = {}
    BY DEF Crash
  <2> QED
    BY <2>3, <2>4, <2>5 DEF WalTypeOK
<1>3. GroupTypeOK' /\ \A k \in GroupKeys : WindowOK(k)'
  <2>0. persisted' \in [GroupKeys -> Nat]
    BY DEF Crash, GroupTypeOK
  <2>1. \A k \in GroupKeys : group'[k] = LoadedGroup(persisted'[k]) /\ persisted'[k] \in Nat
    BY <2>0 DEF Crash
  <2>2. \A k \in GroupKeys : LoadedGroup(persisted'[k]).committed = persisted'[k]
    BY DEF LoadedGroup
  <2>3. GroupTypeOK'
    BY <1>1, <2>0, <2>1 DEF Crash, GroupTypeOK
  <2> QED
    BY <1>1, <2>1, <2>2, <2>3, SMTT(30) DEF WindowOK
<1>4. SyncTypeOK' /\ ThreadTypeOK' /\ RestTypeOK'
  BY DEF Crash, SyncTypeOK, ThreadTypeOK, RestTypeOK, Threads, Labels
<1>5. \A c \in Clients : HandlerOK(c)'
  BY DEF Crash, HandlerOK, GroupStates, Producing, Threads
<1>6. ReaperOK' /\ DeadOK'
  BY DEF Crash, ReaperOK, DeadOK, Producing, Threads
<1> QED
  BY <1>2, <1>3, <1>4, <1>5, <1>6

-----------------------------------------------------------------------------
\* Inv is inductive: no step of any goroutine, of time, of Close or of a crash
\* breaks it.
THEOREM InvInductive == Inv /\ [Next]_vars => Inv'
<1> SUFFICES ASSUME Inv, [Next]_vars PROVE Inv'
  OBVIOUS
<1>1. CASE UNCHANGED vars
  BY <1>1 DEF Inv, TypeOK, WalTypeOK, GroupTypeOK, SyncTypeOK, ThreadTypeOK,
     RestTypeOK, HandlerOK, ReaperOK, DeadOK, WindowOK, Key, vars, walVars,
     groupVars, queueVars, lockVars, reqVars, reaperVars, otherVars
<1>2. ASSUME NEW c \in Clients, NEW r \in Requests[c], Begin(c, r)
      PROVE  Inv'
  BY <1>2, BeginInv
<1>3. ASSUME NEW th \in Threads, ProduceStep(th)
      PROVE  Inv'
  BY <1>3, CreateTopicInv, WalAppendInv, DispatchInv, SettleDeadInv
     DEF ProduceStep
<1>4. ASSUME NEW c \in Clients, ClientStep(c)
      PROVE  Inv'
  BY <1>4, GetOrCreateGroupInv, AckInv, NackLeaseInv, NackDispatchInv,
     FetchLockInv, FetchExpiredInv, FetchNewInv, EnqueueInv, ReceiveInv,
     PollTimeoutInv, UnqueueInv DEF ClientStep
<1>5. ASSUME ReaperStep
      PROVE  Inv'
  BY <1>5, TickInv, SweepTopicInv, ReapGroupInv DEF ReaperStep
<1>6. ASSUME NEW k \in GroupKeys, NEW o, ExpireLease(k, o)
      PROVE  Inv'
  BY <1>6, ExpireLeaseInv
<1>7. ASSUME NEW left \in [Topics -> UNION {disk[t] : t \in Topics}],
             NEW skipped \in SUBSET GroupKeys, Crash(left, skipped)
      PROVE  Inv'
  BY <1>7, CrashInv
<1>8. CASE CloseStep
  BY <1>8, CloseInv
<1>9. ASSUME NEW t \in Topics, Flush(t)
      PROVE  Inv'
  BY <1>9, FlushInv
<1> QED
  BY <1>1, <1>2, <1>3, <1>4, <1>5, <1>6, <1>7, <1>8, <1>9 DEF Next

\* The inductive invariant holds in every state of every behaviour.
THEOREM InvAlways == Spec => []Inv
BY InitInv, InvInductive, PTL DEF Spec

\* Type correctness of the broker's state, for all constants: in particular no
\* handler, dead-letter or expiry step ever reads a record that is not there.
THEOREM TypeCorrect == Spec => []TypeOK
<1>1. Inv => TypeOK
  BY DEF Inv
<1> QED
  BY <1>1, InvAlways, PTL

\* The leases of every group are always a gapless window from its committed
\* offset on, inside the log.
THEOREM LeaseWindowAlways == Spec => []LeaseWindow
<1>1. Inv => LeaseWindow
  <2> SUFFICES ASSUME Inv, NEW k \in GroupKeys
               PROVE  /\ DOMAIN group[k].leases
                           = group[k].committed .. (NextOffset(group[k]) - 1)
                      /\ \A o \in DOMAIN group[k].leases : o < Len(log[k[1]])
    BY DEF LeaseWindow
  <2>1. IsGroup(group[k]) /\ WindowOK(k)
    BY DEF Inv, TypeOK, GroupTypeOK
  <2>2. PICK n \in Nat : WindowTo(group[k], n)
    BY <2>1 DEF WindowOK
  <2>3. NextOffset(group[k]) = n
    BY <2>1, <2>2, NextOffsetOfWindow
  <2> QED
    BY <2>2, <2>3, LeaseInLog DEF WindowTo
<1> QED
  BY <1>1, InvAlways, PTL

=============================================================================
