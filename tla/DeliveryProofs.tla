--------------------------- MODULE DeliveryProofs ---------------------------
(***************************************************************************)
(* At-least-once delivery (NothingLost) for every instance of Coordinator  *)
(* whose disk does what it is told: each append is synced, none fails, and *)
(* Close is not called. Crashes and failed saves of the state file are     *)
(* allowed. Then: a record is dead-lettered once, in one life of the       *)
(* process, whatever the disk does.                                        *)
(***************************************************************************)
EXTENDS LeaseProofs

Reliable == SyncEveryWrite /\ ~IOMayFail /\ ~CanClose

\* Group k is done with the record at offset o.
SettledAt(k, o) == o < Len(log[k[1]]) /\ Settled(k, log[k[1]][o + 1].value)

(***************************************************************************)
(* What is committed is settled, in memory and on disk; and what only      *)
(* slideWindow could commit, an acked lease, is settled already.           *)
(***************************************************************************)
GroupSafe(k) ==
  /\ persisted[k] <= group[k].committed
  /\ \A o \in 0 .. (group[k].committed - 1) : SettledAt(k, o)
  /\ \A o \in DOMAIN group[k].leases : group[k].leases[o].acked => SettledAt(k, o)

\* From the append on, what is being dead-lettered is in the dead-letter topic.
Appended == {"dispatch", "blocked", "settle"}

DeadSafe(th) ==
  pc[th] \in Appended /\ dead[th] # None => SettledAt(dead[th][1], dead[th][2])

DiskSafe ==
  /\ closedWals = {} /\ closer = "open"
  /\ \A t \in Topics : file[t] = log[t] /\ disk[t] = {log[t]}

Delivered ==
  /\ Inv
  /\ DiskSafe
  /\ \A k \in GroupKeys : GroupSafe(k)
  /\ \A th \in Threads : DeadSafe(th)

\* History is never rewritten: records and acks are only added.
HistoryGrows ==
  /\ \A t \in Topics : /\ Len(log[t]) <= Len(log'[t])
                       /\ \A i \in 1 .. Len(log[t]) : log'[t][i] = log[t][i]
  /\ \A k \in GroupKeys : acks[k] \subseteq acks'[k]

\* So what was settled stays settled.
LEMMA SettledStays ==
  ASSUME Inv, Inv', HistoryGrows, NEW k \in GroupKeys, NEW o \in Nat, SettledAt(k, o)
  PROVE  SettledAt(k, o)'
<1> DEFINE d == Dlq[k[1]]
           v == log[k[1]][o + 1].value
<1>1. k[1] \in Topics /\ d \in Topics
  BY ConstantsOK DEF GroupKeys
<1>2. \A t \in Topics : Len(log[t]) \in Nat /\ Len(log'[t]) \in Nat
  BY DEF Inv, TypeOK, WalTypeOK
<1>3. o < Len(log'[k[1]]) /\ log'[k[1]][o + 1] = log[k[1]][o + 1]
  BY <1>1, <1>2 DEF SettledAt, HistoryGrows
<1>4. CASE v \in acks[k]
  BY <1>3, <1>4 DEF HistoryGrows, SettledAt, Settled
<1>5. CASE \E i \in 1 .. Len(log[d]) : log[d][i] = [value |-> v, from |-> k]
  <2>1. PICK i \in 1 .. Len(log[d]) : log[d][i] = [value |-> v, from |-> k]
    BY <1>5
  <2>2. i \in 1 .. Len(log'[d]) /\ log'[d][i] = log[d][i]
    BY <1>1, <1>2 DEF HistoryGrows
  <2> QED
    BY <1>3, <2>1, <2>2 DEF SettledAt, Settled
<1> QED
  BY <1>4, <1>5 DEF SettledAt, Settled

\* A group whose committed offset does not move, and that acks no lease.
LEMMA GroupSafeFrame ==
  ASSUME Inv, Inv', HistoryGrows, NEW k \in GroupKeys, GroupSafe(k),
         persisted'[k] = persisted[k],
         group'[k].committed = group[k].committed,
         \A o \in DOMAIN group'[k].leases :
           group'[k].leases[o].acked
             => o \in DOMAIN group[k].leases /\ group[k].leases[o].acked
  PROVE  GroupSafe(k)'
<1>1. IsGroup(group[k]) /\ IsGroup(group'[k])
  BY DEF Inv, TypeOK, GroupTypeOK
<1>2. \A o \in Nat : SettledAt(k, o) => SettledAt(k, o)'
  BY SettledStays
<1>3. \A o \in 0 .. (group'[k].committed - 1) : SettledAt(k, o)'
  BY <1>1, <1>2 DEF GroupSafe, IsGroup
<1>4. ASSUME NEW o \in DOMAIN group'[k].leases, group'[k].leases[o].acked
      PROVE  SettledAt(k, o)'
  BY <1>1, <1>2, <1>4 DEF GroupSafe, IsGroup
<1> QED
  BY <1>3, <1>4 DEF GroupSafe

\* A thread that this step does not bring past the append.
LEMMA DeadSafeFrame ==
  ASSUME Inv, Inv', HistoryGrows, NEW th \in Threads, DeadSafe(th),
         pc'[th] \in Appended /\ dead'[th] # None
           => pc[th] \in Appended /\ dead'[th] = dead[th]
  PROVE  DeadSafe(th)'
<1> SUFFICES ASSUME pc'[th] \in Appended, dead'[th] # None
             PROVE  SettledAt(dead[th][1], dead[th][2])'
  BY DEF DeadSafe
<1>1. SettledAt(dead[th][1], dead[th][2]) /\ dead[th] # None
  BY DEF DeadSafe
<1>2. dead[th][1] \in GroupKeys /\ dead[th][2] \in Nat
  BY <1>1 DEF Inv, TypeOK, ThreadTypeOK
<1> QED
  BY <1>1, <1>2, SettledStays

\* Settling an offset that is settled in the new state.
LEMMA GroupSafeSettle ==
  ASSUME Inv, Inv', HistoryGrows, NEW k \in GroupKeys, NEW o \in Nat,
         \A j \in GroupKeys : GroupSafe(j),
         SaveGroup(k, Settle(group[k], o)), SettledAt(k, o)'
  PROVE  \A j \in GroupKeys : GroupSafe(j)'
<1> DEFINE G == Settle(group[k], o)
<1>1. IsGroup(group[k]) /\ WindowOK(k) /\ GroupTypeOK
  BY DEF Inv, TypeOK, GroupTypeOK
<1>2. PICK n \in Nat : WindowTo(group[k], n)
  BY <1>1 DEF WindowOK
<1>3. /\ IsGroup(G) /\ group[k].committed <= G.committed
      /\ \A p \in group[k].committed .. (G.committed - 1) :
           p \in DOMAIN group[k].leases /\ (p = o \/ group[k].leases[p].acked)
      /\ \A p \in DOMAIN G.leases :
           /\ p \in DOMAIN group[k].leases
           /\ G.leases[p].acked => (p = o \/ group[k].leases[p].acked)
  BY <1>1, <1>2, SettleKeeps
<1>4. /\ group' = [group EXCEPT ![k] = G]
      /\ \A j \in GroupKeys : j # k => persisted'[j] = persisted[j]
      /\ persisted'[k] = persisted[k] \/ persisted'[k] = G.committed
  BY <1>1 DEF SaveGroup, GroupTypeOK
<1> HIDE DEF G
<1>5. group'[k] = G /\ \A j \in GroupKeys : j # k => group'[j] = group[j]
  BY <1>1, <1>3, <1>4, GroupUpdate
<1>6. \A p \in Nat : SettledAt(k, p) => SettledAt(k, p)'
  BY SettledStays
<1>7. GroupSafe(k)'
  <2>1. persisted'[k] <= G.committed
    BY <1>1, <1>3, <1>4 DEF GroupSafe, GroupTypeOK, IsGroup
  <2>2. ASSUME NEW p \in 0 .. (G.committed - 1)
        PROVE  SettledAt(k, p)'
    <3>1. CASE p < group[k].committed
      BY <1>1, <1>6, <3>1 DEF GroupSafe, IsGroup
    <3>2. CASE p >= group[k].committed
      <4>1. p \in DOMAIN group[k].leases /\ (p = o \/ group[k].leases[p].acked)
        BY <1>1, <1>3, <3>2 DEF IsGroup
      <4> QED
        BY <1>6, <4>1 DEF GroupSafe
    <3> QED
      BY <1>1, <3>1, <3>2 DEF IsGroup
  <2>3. ASSUME NEW p \in DOMAIN G.leases, G.leases[p].acked
        PROVE  SettledAt(k, p)'
    BY <1>1, <1>3, <1>6, <2>3 DEF GroupSafe, IsGroup
  <2> QED
    BY <1>5, <2>1, <2>2, <2>3 DEF GroupSafe
<1>8. ASSUME NEW j \in GroupKeys, j # k
      PROVE  GroupSafe(j)'
  <2>1. group'[j] = group[j] /\ persisted'[j] = persisted[j]
    BY <1>4, <1>5, <1>8
  <2> QED
    BY <2>1, GroupSafeFrame
<1> QED
  BY <1>7, <1>8

-----------------------------------------------------------------------------
(* The steps, by what they change *)

\* What a step does that neither writes a log nor settles a lease.
Quiet ==
  /\ UNCHANGED <<log, file, disk, closedWals, closer, persisted, acks>>
  /\ \A k \in GroupKeys :
       /\ group'[k].committed = group[k].committed
       /\ \A o \in DOMAIN group'[k].leases :
            group'[k].leases[o].acked
              => o \in DOMAIN group[k].leases /\ group[k].leases[o].acked
  /\ \A th \in Threads :
       pc'[th] \in Appended /\ dead'[th] # None
         => pc[th] \in Appended /\ dead'[th] = dead[th]

\* Such a step keeps everything that was delivered delivered.
LEMMA QuietStep ==
  ASSUME Delivered, Inv', Quiet
  PROVE  Delivered'
<1>1. HistoryGrows
  BY DEF HistoryGrows, Quiet, Delivered, Inv, TypeOK, WalTypeOK
<1>2. DiskSafe'
  BY DEF DiskSafe, Quiet, Delivered
<1>3. \A k \in GroupKeys : GroupSafe(k)'
  BY <1>1, GroupSafeFrame DEF Quiet, Delivered
<1>4. \A th \in Threads : DeadSafe(th)'
  BY <1>1, DeadSafeFrame DEF Quiet, Delivered
<1> QED
  BY <1>2, <1>3, <1>4 DEF Delivered

\* A handler or the expiry loop moves; no group changes.
LEMMA MoveQuiet ==
  ASSUME Delivered, NEW th \in Threads,
         UNCHANGED <<log, file, disk, closedWals, closer, groupVars, dead>>,
         \A d \in Threads : d # th => pc'[d] = pc[d],
         pc'[th] \in Appended /\ dead[th] # None => pc[th] \in Appended
  PROVE  Quiet
BY DEF Quiet, groupVars, Delivered, Inv, TypeOK, GroupTypeOK

\* The steps of a handler that only move it.
LEMMA HandlerMoves ==
  ASSUME Delivered, Inv', NEW c \in Clients,
         \/ \E r \in Requests[c] : Begin(c, r)
         \/ GetOrCreateGroup(c) \/ FetchLock(c) \/ Enqueue(c)
         \/ Receive(c) \/ PollTimeout(c) \/ Unqueue(c)
  PROVE  Delivered'
<1> USE DEF Begin, GetOrCreateGroup, FetchLock, Enqueue, Receive, PollTimeout, Unqueue
<1>1. UNCHANGED <<log, file, disk, closedWals, closer, groupVars, dead>>
  BY DEF walVars, otherVars
<1>2. pc[c] \notin Producing
  BY DEF Producing
<1>3. \E l : Goto(c, l)
  BY DEF Return
<1> QED
  BY <1>1, <1>2, <1>3, NotDead, GotoMoves, MoveQuiet, QuietStep DEF Delivered

\* So do the expiry loop's first two steps.
LEMMA ReaperMoves ==
  ASSUME Delivered, Inv', Tick \/ \E t \in Topics : SweepTopic(t)
  PROVE  Delivered'
<1>1. UNCHANGED <<log, file, disk, closedWals, closer, groupVars, dead>>
  BY DEF Tick, SweepTopic, walVars, otherVars
<1>2. pc[Reaper] \notin Producing /\ Reaper \in Threads
  BY DEF Tick, SweepTopic, Producing, Threads
<1>3. UNCHANGED pc \/ \E l : Goto(Reaper, l)
  BY DEF Tick, SweepTopic
<1>4. \A d \in Threads : d # Reaper => pc'[d] = pc[d]
  BY <1>2, <1>3, GotoMoves DEF Delivered
<1>5. dead[Reaper] = None
  BY <1>2 DEF Delivered, Inv, ReaperOK
<1> QED
  BY <1>1, <1>2, <1>4, <1>5, MoveQuiet, QuietStep

\* So do Produce's steps before and after the append.
LEMMA ProduceMoves ==
  ASSUME Delivered, Reliable, Inv', NEW th \in Threads, CreateTopic(th) \/ Dispatch(th)
  PROVE  Delivered'
<1>1. UNCHANGED <<log, file, disk, closedWals, closer, groupVars, dead>>
  BY DEF CreateTopic, Dispatch, walVars, otherVars
<1>2. PICK l : Goto(th, l) /\ (dead[th] # None /\ l \in Appended => pc[th] \in Appended)
  <2>1. CASE CreateTopic(th)
    BY <2>1 DEF CreateTopic, Reliable, Return, Appended
  <2>2. CASE Dispatch(th)
    BY <2>2 DEF Dispatch, EndProduce, Return, Appended
  <2> QED
    BY <2>1, <2>2
<1> QED
  BY <1>1, <1>2, GotoMoves, MoveQuiet, QuietStep DEF Delivered

-----------------------------------------------------------------------------
(* Steps that change leases and settle none *)

\* Group k becomes G, with the same committed offset and no new acked lease.
LEMMA LeaseStep ==
  ASSUME Delivered, Inv', NEW k \in GroupKeys, NEW G, IsGroup(G),
         group' = [group EXCEPT ![k] = G],
         G.committed = group[k].committed,
         \A o \in DOMAIN G.leases :
           G.leases[o].acked => o \in DOMAIN group[k].leases /\ group[k].leases[o].acked,
         UNCHANGED <<log, file, disk, closedWals, closer, persisted, acks>>,
         \A th \in Threads :
           pc'[th] \in Appended /\ dead'[th] # None
             => pc[th] \in Appended /\ dead'[th] = dead[th]
  PROVE  Delivered'
<1>1. group'[k] = G /\ \A j \in GroupKeys : j # k => group'[j] = group[j]
  BY GroupUpdate DEF Delivered, Inv, TypeOK
<1>2. Quiet
  BY <1>1 DEF Quiet
<1> QED
  BY <1>2, QuietStep

\* Nack: the lease expires at once, and is handed to a waiting fetch.
LEMMA NackSteps ==
  ASSUME Delivered, Inv', NEW c \in Clients, NackLease(c) \/ NackDispatch(c)
  PROVE  Delivered'
<1>1. UNCHANGED <<log, file, disk, closedWals, closer, persisted, acks, dead>>
  BY DEF NackLease, NackDispatch, walVars, otherVars
<1>2. pc[c] \notin Producing /\ pc[c] \in GroupStates
  BY DEF NackLease, NackDispatch, Producing, GroupStates
<1>3. dead[c] = None /\ c \in Threads /\ Inv
  BY <1>2, NotDead DEF Delivered
<1>4. \E l : Goto(c, l)
  BY DEF NackLease, NackDispatch, Return
<1>5. \A d \in Threads : d # c => pc'[d] = pc[d]
  BY <1>3, <1>4, GotoMoves
<1>6. CASE UNCHANGED group
  BY <1>1, <1>3, <1>5, <1>6, MoveQuiet, QuietStep DEF groupVars
<1>7. ASSUME NEW o, \/ group' = [group EXCEPT ![Key(c)] = Expire(@, o)]
                   \/ group' = [group EXCEPT ![Key(c)] = Redeliver(@, o)]
      PROVE  Delivered'
  <2>1. PICK k \in GroupKeys : k = Key(c)
    BY <1>2, <1>3, KeyOK DEF Inv
  <2>2. IsGroup(group[k])
    BY <1>3 DEF Inv, TypeOK, GroupTypeOK
  <2>3. \A th \in Threads :
          pc'[th] \in Appended /\ dead'[th] # None
            => pc[th] \in Appended /\ dead'[th] = dead[th]
    BY <1>1, <1>3, <1>5
  <2>4. CASE group' = [group EXCEPT ![k] = Expire(@, o)]
    <3>1. group' = [group EXCEPT ![k] = Expire(group[k], o)]
      BY <2>4, <1>3 DEF Inv, TypeOK, GroupTypeOK
    <3> QED
      BY <1>1, <2>2, <2>3, <3>1, ExpireKeeps, LeaseStep
  <2>5. CASE group' = [group EXCEPT ![k] = Redeliver(@, o)]
    <3>1. group' = [group EXCEPT ![k] = Redeliver(group[k], o)]
      BY <2>5, <1>3 DEF Inv, TypeOK, GroupTypeOK
    <3> QED
      BY <1>1, <2>2, <2>3, <3>1, RedeliverKeeps, LeaseStep
  <2> QED
    BY <1>7, <2>1, <2>4, <2>5
<1> QED
  BY <1>6, <1>7 DEF NackLease, NackDispatch

\* fetchAvailable hands an expired lease out again, or starts to dead-letter it.
LEMMA FetchExpiredStep ==
  ASSUME Delivered, Inv', NEW c \in Clients, FetchExpired(c)
  PROVE  Delivered'
<1>1. /\ UNCHANGED <<log, file, disk, closedWals, closer, persisted, acks>>
      /\ pc[c] = "fetchExpired"
  BY DEF FetchExpired, walVars, otherVars
<1>2. c \in Threads /\ Inv /\ dead[c] = None
  BY <1>1, NotDead DEF Delivered, Producing
<1>3. PICK k \in GroupKeys : k = Key(c)
  BY <1>1, <1>2, KeyOK DEF Inv, GroupStates
<1>4. PICK o : o = First(todo[c])
  OBVIOUS
<1>5. IsGroup(group[k]) /\ GroupTypeOK /\ ThreadTypeOK
  BY <1>2 DEF Inv, TypeOK, GroupTypeOK
<1>6. Readable(k[1])
  BY DEF Readable, Delivered, DiskSafe
<1>7. CASE Exhausted(k, o)
  <2>1. Goto(c, "create") /\ UNCHANGED group /\ dead' = [dead EXCEPT ![c] = <<k, o>>]
    BY <1>3, <1>4, <1>6, <1>7 DEF FetchExpired
  <2>2. /\ pc'[c] \notin Appended
        /\ \A d \in Threads : d # c => pc'[d] = pc[d] /\ dead'[d] = dead[d]
    BY <1>2, <1>5, <2>1, GotoMoves DEF Appended, ThreadTypeOK
  <2>3. Quiet
    BY <1>1, <2>1, <2>2 DEF Quiet
  <2> QED
    BY <2>3, QuietStep
<1>8. CASE ~Exhausted(k, o)
  <2>1. /\ group' = [group EXCEPT ![k] = Redeliver(group[k], o)]
        /\ UNCHANGED <<pc, dead>>
    BY <1>3, <1>4, <1>5, <1>6, <1>8 DEF FetchExpired, GroupTypeOK
  <2> QED
    BY <1>1, <1>5, <2>1, RedeliverKeeps, LeaseStep
<1> QED
  BY <1>7, <1>8

\* New leases are not acked.
LEMMA FetchNewStep ==
  ASSUME Delivered, Inv', NEW c \in Clients, NEW n \in 0 .. NewCount(c), FetchNew(c, n)
  PROVE  Delivered'
<1>1. /\ UNCHANGED <<log, file, disk, closedWals, closer, persisted, acks, dead>>
      /\ pc[c] = "fetchExpired"
  BY DEF FetchNew, walVars, otherVars
<1>2. c \in Threads /\ Inv /\ dead[c] = None
  BY <1>1, NotDead DEF Delivered, Producing
<1>3. PICK k \in GroupKeys : k = Key(c)
  BY <1>1, <1>2, KeyOK DEF Inv, GroupStates
<1>4. IsGroup(group[k]) /\ GroupTypeOK /\ WindowOK(k)
  BY <1>2 DEF Inv, TypeOK, GroupTypeOK
<1>5. PICK m \in Nat : WindowTo(group[k], m)
  BY <1>4 DEF WindowOK
<1>6. n \in Nat
  OBVIOUS
<1>7. group' = [group EXCEPT ![k] = LeaseNew(group[k], n)]
  BY <1>3, <1>4 DEF FetchNew, GroupTypeOK
<1>8. \E l : Goto(c, l)
  BY DEF FetchNew, Return
<1>9. \A d \in Threads : d # c => pc'[d] = pc[d]
  BY <1>2, <1>8, GotoMoves
<1> QED
  BY <1>1, <1>2, <1>4, <1>5, <1>6, <1>7, <1>9, LeaseNewKeeps, LeaseStep

\* checkExpiredLeases, for one group.
LEMMA ReapGroupStep ==
  ASSUME Delivered, Inv', NEW k \in GroupKeys, ReapGroup(k)
  PROVE  Delivered'
<1>1. /\ UNCHANGED <<log, file, disk, closedWals, closer, persisted, acks>>
      /\ pc[Reaper] = "reap" /\ Reaper \in Threads /\ Inv
  BY DEF ReapGroup, walVars, otherVars, Threads, Delivered
<1>2. dead[Reaper] = None
  BY <1>1 DEF Inv, ReaperOK, Producing
<1>3. IsGroup(group[k]) /\ GroupTypeOK /\ ThreadTypeOK
  BY <1>1 DEF Inv, TypeOK, GroupTypeOK
<1>4. PICK o : o = First(ExpiredOffsets(group[k]))
  OBVIOUS
<1>5. Readable(k[1])
  BY DEF Readable, Delivered, DiskSafe
<1>6. PICK l : Goto(Reaper, l) /\ l \in {"create", "reap", "sweep"}
  BY <1>5 DEF ReapGroup, EndVisit
<1>7. pc'[Reaper] \notin Appended /\ \A d \in Threads : d # Reaper => pc'[d] = pc[d]
  BY <1>1, <1>6, GotoMoves DEF Appended
<1>8. \A d \in Threads : d # Reaper => dead'[d] = dead[d]
  <2>1. UNCHANGED dead \/ dead' = [dead EXCEPT ![Reaper] = <<k, o>>]
    BY <1>4 DEF ReapGroup
  <2> QED
    BY <1>3, <2>1 DEF ThreadTypeOK
<1>9. UNCHANGED group \/ group' = [group EXCEPT ![k] = Redeliver(group[k], o)]
  BY <1>3, <1>4 DEF ReapGroup, GroupTypeOK
<1>10. CASE UNCHANGED group
  <2>1. Quiet
    BY <1>1, <1>7, <1>8, <1>10 DEF Quiet
  <2> QED
    BY <2>1, QuietStep
<1>11. CASE group' = [group EXCEPT ![k] = Redeliver(group[k], o)]
  BY <1>1, <1>3, <1>7, <1>8, <1>11, RedeliverKeeps, LeaseStep
<1> QED
  BY <1>9, <1>10, <1>11

\* A lease runs out.
LEMMA ExpireLeaseStep ==
  ASSUME Delivered, Inv', NEW k \in GroupKeys, NEW o, ExpireLease(k, o)
  PROVE  Delivered'
<1>1. UNCHANGED <<log, file, disk, closedWals, closer, persisted, acks, pc, dead>>
  BY DEF ExpireLease, walVars, otherVars
<1>2. IsGroup(group[k]) /\ GroupTypeOK
  BY DEF Delivered, Inv, TypeOK, GroupTypeOK
<1>3. group' = [group EXCEPT ![k] = Expire(group[k], o)]
  BY <1>2 DEF ExpireLease, GroupTypeOK
<1> QED
  BY <1>1, <1>2, <1>3, ExpireKeeps, LeaseStep

-----------------------------------------------------------------------------
(* Steps that settle a lease, write a log or restart *)

\* Ack settles the lease it finds, and the group's consumers have acked it.
LEMMA AckStep ==
  ASSUME Delivered, Inv', NEW c \in Clients, Ack(c)
  PROVE  Delivered'
<1>1. /\ UNCHANGED <<log, file, disk, closedWals, closer, dead>>
      /\ pc[c] = "ack" /\ Goto(c, "idle")
  BY DEF Ack, walVars, otherVars, Return
<1>2. c \in Threads /\ Inv /\ dead[c] = None
  BY <1>1, NotDead DEF Delivered, Producing
<1>3. PICK k \in GroupKeys : k = Key(c)
  BY <1>1, <1>2, KeyOK DEF Inv, GroupStates
<1>4. \A d \in Threads : d # c => pc'[d] = pc[d]
  BY <1>1, <1>2, GotoMoves
<1>5. CASE UNCHANGED groupVars
  BY <1>1, <1>2, <1>4, <1>5, MoveQuiet, QuietStep
<1>6. CASE ~ UNCHANGED groupVars
  <2>1. PICK o \in DOMAIN group[k].leases :
          /\ SaveGroup(k, Settle(group[k], o))
          /\ acks' = [acks EXCEPT ![k] = acks[k] \cup {log[k[1]][o + 1].value}]
    BY <1>2, <1>3, <1>6 DEF Ack, Inv, TypeOK, GroupTypeOK
  <2>2. o \in Nat /\ o < Len(log[k[1]])
    BY <1>2, LeaseInLog
  <2>3. /\ acks'[k] = acks[k] \cup {log[k[1]][o + 1].value}
        /\ \A j \in GroupKeys : acks[j] \subseteq acks'[j]
    BY <1>2, <2>1 DEF Inv, TypeOK, GroupTypeOK
  <2>4. HistoryGrows
    BY <1>1, <1>2, <2>3 DEF HistoryGrows, Inv, TypeOK, WalTypeOK
  <2>5. SettledAt(k, o)'
    BY <1>1, <2>2, <2>3 DEF SettledAt, Settled
  <2>6. \A j \in GroupKeys : GroupSafe(j)'
    BY <1>2, <2>1, <2>2, <2>4, <2>5, GroupSafeSettle DEF Delivered
  <2>7. \A th \in Threads : DeadSafe(th)'
    BY <1>1, <1>2, <1>4, <2>4, DeadSafeFrame DEF Delivered
  <2>8. DiskSafe'
    BY <1>1 DEF Delivered, DiskSafe
  <2> QED
    BY <2>6, <2>7, <2>8 DEF Delivered
<1> QED
  BY <1>5, <1>6

\* The end of dead-lettering settles a lease whose record was appended.
LEMMA SettleDeadStep ==
  ASSUME Delivered, Inv', NEW th \in Threads, SettleDead(th)
  PROVE  Delivered'
<1>1. /\ UNCHANGED <<log, file, disk, closedWals, closer, acks>>
      /\ pc[th] = "settle" /\ Inv
      /\ dead' = [dead EXCEPT ![th] = None]
  BY DEF SettleDead, walVars, otherVars, Delivered
<1>2. dead[th] # None
  BY <1>1 DEF Inv, HandlerOK, ReaperOK, Producing, Threads
<1>3. PICK k \in GroupKeys, o \in Nat : dead[th] = <<k, o>>
  <2>1. dead[th] \in GroupKeys \X Nat
    BY <1>1, <1>2 DEF Inv, TypeOK, ThreadTypeOK
  <2> QED
    BY <2>1
<1>4. SaveGroup(k, Settle(group[k], o))
  BY <1>3 DEF SettleDead
<1>5. HistoryGrows
  BY <1>1 DEF HistoryGrows, Inv, TypeOK, WalTypeOK
<1>6. SettledAt(k, o)
  BY <1>1, <1>2, <1>3 DEF Delivered, DeadSafe, Appended
<1>7. SettledAt(k, o)'
  BY <1>1, <1>5, <1>6, SettledStays
<1>8. \A j \in GroupKeys : GroupSafe(j)'
  BY <1>1, <1>4, <1>5, <1>7, GroupSafeSettle DEF Delivered
<1>9. \E l : Goto(th, l)
  BY DEF SettleDead, EndVisit
<1>10. /\ dead'[th] = None
       /\ \A d \in Threads : d # th => pc'[d] = pc[d] /\ dead'[d] = dead[d]
  BY <1>1, <1>9, GotoMoves DEF Inv, TypeOK, ThreadTypeOK
<1>11. \A d \in Threads : DeadSafe(d)'
  BY <1>1, <1>5, <1>10, DeadSafeFrame DEF Delivered
<1>12. DiskSafe'
  BY <1>1 DEF Delivered, DiskSafe
<1> QED
  BY <1>8, <1>11, <1>12 DEF Delivered

\* An append extends one log; a dead letter is then in the dead-letter topic.
LEMMA WalAppendStep ==
  ASSUME Delivered, Reliable, Inv', NEW th \in Threads, WalAppend(th)
  PROVE  Delivered'
<1>1. /\ UNCHANGED <<closedWals, closer, dead, groupVars>>
      /\ pc[th] = "append" /\ Inv
  BY DEF WalAppend, otherVars, Delivered
<1>2. PICK t \in Topics : t = Target(th)
  BY <1>1, ProducerOK DEF Producing
<1>3. PICK e : e = Payload(th)
  OBVIOUS
<1>4. /\ log' = [log EXCEPT ![t] = Append(log[t], e)]
      /\ file' = [file EXCEPT ![t] = Append(log[t], e)]
      /\ disk' = [disk EXCEPT ![t] = {Append(log[t], e)}]
      /\ Goto(th, "dispatch")
  BY <1>2, <1>3 DEF WalAppend, OnDisk, Reliable, Delivered, DiskSafe
<1>5. e \in Entry /\ log \in [Topics -> Seq(Entry)] 
      /\ file = [s \in Topics |-> file[s]] /\ disk = [s \in Topics |-> disk[s]]
  BY <1>1, <1>3, PayloadOK DEF Inv, TypeOK, WalTypeOK, Producing
<1>6. /\ Len(log[t]) \in Nat
      /\ Len(log'[t]) = Len(log[t]) + 1
      /\ log'[t][Len(log[t]) + 1] = e
      /\ \A i \in 1 .. Len(log[t]) : log'[t][i] = log[t][i]
      /\ \A s \in Topics : s # t => log'[s] = log[s]
  BY <1>4, <1>5
<1>7. HistoryGrows
  <2>1. \A k \in GroupKeys : acks[k] \subseteq acks'[k]
    BY <1>1 DEF groupVars
  <2>2. ASSUME NEW s \in Topics
        PROVE  /\ Len(log[s]) <= Len(log'[s])
               /\ \A i \in 1 .. Len(log[s]) : log'[s][i] = log[s][i]
    BY <1>5, <1>6, SMTT(30)
  <2> QED
    BY <2>1, <2>2 DEF HistoryGrows
<1>8. DiskSafe'
  <2>1. \A s \in Topics : file'[s] = log'[s] /\ disk'[s] = {log'[s]}
    BY <1>4, <1>5, <1>6 DEF Delivered, DiskSafe
  <2> QED
    BY <1>1, <2>1 DEF Delivered, DiskSafe
<1>9. \A k \in GroupKeys : GroupSafe(k)'
  BY <1>1, <1>7, GroupSafeFrame DEF Delivered, groupVars
<1>10. \A d \in Threads : d # th => pc'[d] = pc[d]
  BY <1>1, <1>4, GotoMoves
<1>11. ASSUME NEW d \in Threads, d # th
       PROVE  DeadSafe(d)'
  BY <1>1, <1>7, <1>10, <1>11, DeadSafeFrame DEF Delivered
<1>12. ASSUME dead[th] # None
       PROVE  SettledAt(dead[th][1], dead[th][2])'
  <2>0. dead[th] \in GroupKeys \X Nat
    BY <1>1, <1>12 DEF Inv, TypeOK, ThreadTypeOK
  <2>1. PICK k \in GroupKeys, o \in Nat : dead[th] = <<k, o>>
    BY <2>0
  <2>2. t = Dlq[k[1]] /\ e = [value |-> log[k[1]][o + 1].value, from |-> k]
    BY <1>2, <1>3, <1>12, <2>1 DEF Target, Payload
  <2>3. k[1] \in Topics /\ o < Len(log[k[1]])
    BY <1>1, <1>12, <2>1, ConstantsOK DEF Inv, DeadOK, GroupKeys
  <2>4. Len(log[k[1]]) \in Nat /\ o + 1 \in 1 .. Len(log[k[1]])
    BY <1>5, <2>3
  <2>5. o < Len(log'[k[1]]) /\ log'[k[1]][o + 1] = log[k[1]][o + 1]
    <3>1. CASE k[1] = t
      BY <1>6, <2>3, <2>4, <3>1
    <3>2. CASE k[1] # t
      BY <1>6, <2>3, <2>4, <3>2
    <3> QED
      BY <3>1, <3>2
  <2>6. Len(log[t]) + 1 \in 1 .. Len(log'[t])
    BY <1>6
  <2>7. Settled(k, log[k[1]][o + 1].value)'
    BY <1>6, <2>2, <2>5, <2>6 DEF Settled
  <2>8. SettledAt(k, o)' /\ dead'[th] = <<k, o>>
    BY <1>1, <2>1, <2>5, <2>7 DEF SettledAt
  <2> QED
    BY <2>8
<1>13. DeadSafe(th)'
  BY <1>1, <1>12 DEF DeadSafe
<1> QED
  BY <1>8, <1>9, <1>11, <1>13 DEF Delivered

\* A restart finds every log as it was, and goes back to the state files or,
\* for one that cannot be read, to 0.
LEMMA CrashStep ==
  ASSUME Delivered, Inv', NEW left \in [Topics -> UNION {disk[t] : t \in Topics}],
         NEW skipped, Crash(left, skipped)
  PROVE  Delivered'
<1>1. Inv /\ log \in [Topics -> Seq(Entry)] /\ WalTypeOK
  BY DEF Delivered, Inv, TypeOK, WalTypeOK
<1>2. ASSUME NEW t \in Topics
      PROVE  left[t] = log[t] /\ disk'[t] = {log[t]}
  <2>1. file[t] = log[t] /\ disk[t] = {log[t]}
    BY DEF Delivered, DiskSafe
  <2> QED
    BY <2>1 DEF Crash
<1>3. log' = log
  BY <1>1, <1>2 DEF Crash
<1>4. HistoryGrows
  BY <1>1, <1>3 DEF HistoryGrows, Crash
<1>5. DiskSafe'
  BY <1>2, <1>3 DEF DiskSafe, Crash
<1>6. \A th \in Threads : DeadSafe(th)'
  BY DEF DeadSafe, Crash
<1>7. ASSUME NEW k \in GroupKeys
      PROVE  GroupSafe(k)'
  <2>1. /\ group'[k].committed = persisted'[k] /\ persisted'[k] \in {persisted[k], 0}
        /\ DOMAIN group'[k].leases = {}
    BY DEF Crash, LoadedGroup
  <2>2. /\ persisted[k] \in Nat /\ persisted'[k] \in Nat /\ group[k].committed \in Nat
        /\ persisted[k] <= group[k].committed /\ persisted'[k] <= group[k].committed
    BY <1>1, <2>1 DEF Delivered, GroupSafe, Inv, TypeOK, GroupTypeOK, IsGroup
  <2>3. ASSUME NEW o \in 0 .. (persisted'[k] - 1)
        PROVE  SettledAt(k, o)'
    <3>1. o \in Nat /\ SettledAt(k, o)
      BY <2>2 DEF Delivered, GroupSafe
    <3> QED
      BY <1>1, <1>4, <3>1, SettledStays
  <2> QED
    BY <2>1, <2>2, <2>3 DEF GroupSafe
<1> QED
  BY <1>5, <1>6, <1>7 DEF Delivered

-----------------------------------------------------------------------------
\* Delivered is inductive if the disk is reliable.
THEOREM DeliveredInductive == Reliable /\ Delivered /\ [Next]_vars => Delivered'
<1> SUFFICES ASSUME Reliable, Delivered, [Next]_vars PROVE Delivered'
  OBVIOUS
<1>1. Inv'
  BY InvInductive DEF Delivered
<1>2. CASE UNCHANGED vars
  <2>1. Quiet
    BY <1>2 DEF Quiet, vars, walVars, groupVars, otherVars
  <2> QED
    BY <1>1, <2>1, QuietStep
<1>3. ASSUME NEW c \in Clients, NEW r \in Requests[c], Begin(c, r)
      PROVE  Delivered'
  BY <1>1, <1>3, HandlerMoves
<1>4. ASSUME NEW th \in Threads, ProduceStep(th)
      PROVE  Delivered'
  BY <1>1, <1>4, ProduceMoves, WalAppendStep, SettleDeadStep DEF ProduceStep
<1>5. ASSUME NEW c \in Clients, ClientStep(c)
      PROVE  Delivered'
  BY <1>1, <1>5, HandlerMoves, AckStep, NackSteps, FetchExpiredStep, FetchNewStep
     DEF ClientStep
<1>6. CASE ReaperStep
  BY <1>1, <1>6, ReaperMoves, ReapGroupStep DEF ReaperStep
<1>7. ASSUME NEW k \in GroupKeys, NEW o, ExpireLease(k, o)
      PROVE  Delivered'
  BY <1>1, <1>7, ExpireLeaseStep
<1>8. ASSUME NEW left \in [Topics -> UNION {disk[t] : t \in Topics}],
             NEW skipped, Crash(left, skipped)
      PROVE  Delivered'
  BY <1>1, <1>8, CrashStep
<1>9. ~CloseStep /\ \A t \in Topics : ~Flush(t)
  BY DEF CloseStep, CloseBegin, CloseLock, CloseTopic, CloseEnd, Flush, Reliable,
         Delivered, DiskSafe
<1> QED
  BY <1>2, <1>3, <1>4, <1>5, <1>6, <1>7, <1>8, <1>9 DEF Next

(***************************************************************************)
(* At-least-once delivery: with synced appends that do not fail, no        *)
(* interleaving of Produce, Fetch, Ack, Nack, the expiry loop, crashes and *)
(* failed saves of the state file makes a group's committed offset pass a  *)
(* record that the group neither acked nor dead-lettered.                  *)
(***************************************************************************)
THEOREM NothingLostAlways == ASSUME Reliable PROVE Spec => []NothingLost
<1>1. Init => Delivered
  <2> SUFFICES ASSUME Init PROVE Delivered
    OBVIOUS
  <2>1. Inv
    BY InitInv
  <2>2. DiskSafe
    BY DEF Init, DiskSafe
  <2>3. \A k \in GroupKeys : GroupSafe(k)
    BY DEF Init, GroupSafe, LoadedGroup
  <2>4. \A th \in Threads : DeadSafe(th)
    BY DEF Init, DeadSafe
  <2> QED
    BY <2>1, <2>2, <2>3, <2>4 DEF Delivered
<1>2. Delivered /\ [Next]_vars => Delivered'
  BY DeliveredInductive
<1>3. Delivered => NothingLost
  BY DEF Delivered, GroupSafe, SettledAt, NothingLost
<1> QED
  BY <1>1, <1>2, <1>3, PTL DEF Spec

-----------------------------------------------------------------------------
(***************************************************************************)
(* A record is dead-lettered once. No restart, which forgets leases; and   *)
(* nobody fetches from a dead-letter topic, where the copies that two      *)
(* groups made of one record have the same value.                          *)
(***************************************************************************)
OneLife == MaxCrashes = 0 /\ \A t \in Consumed : Dlq[t] \notin Consumed

\* The handler is on its way to append for its client.
Appending(c) == pc[c] \in {"create", "append"} /\ dead[c] = None

Fresh(c) == Appending(c) /\ req[c].op = "produce"

\* A value is in a consumed topic once, or still on its way there.
ValuesOK ==
  /\ \A c \in Clients : Appending(c) /\ pc[c] = "append" => req[c].op = "produce"
  /\ \A t \in Consumed : \A i \in 1 .. Len(log[t]) :
       /\ log[t][i].value < produced
       /\ \A j \in 1 .. Len(log[t]) : log[t][j].value = log[t][i].value => i = j
  /\ \A c \in Clients : Fresh(c) =>
       /\ req[c].value < produced
       /\ \A t \in Consumed : \A i \in 1 .. Len(log[t]) : log[t][i].value # req[c].value
       /\ \A d \in Clients : Fresh(d) /\ req[d].value = req[c].value => d = c

\* The group will not lease o again: it is committed, or acked and in the window.
Gone(k, o) == o < group[k].committed \/ IsAcked(group[k], o)

\* A goroutine has appended the copy of o and has not settled the lease yet.
Copied(k, o) ==
  \E th \in Threads : dead[th] = <<k, o>> /\ pc[th] \in Appended

\* What is settled is the record of an offset that will not be leased again.
Finished(k, o, v) ==
  /\ o < Len(log[k[1]]) /\ log[k[1]][o + 1].value = v
  /\ Gone(k, o) \/ Copied(k, o)

SettledGone ==
  \A k \in GroupKeys : \A v \in Nat : Settled(k, v) => \E o \in Nat : Finished(k, o, v)

OnceOK == Held /\ ValuesOK /\ SettledGone

\* In a window, the offsets that are gone are those given out and not unsettled.
LEMMA GoneIs ==
  ASSUME NEW G, IsGroup(G), NEW n, WindowTo(G, n), NEW o \in Nat
  PROVE  o < G.committed \/ IsAcked(G, o) <=> o < n /\ o \notin Unsettled(G)
BY DEF IsGroup, WindowTo, IsAcked, Unsettled

\* Whatever a step does to a group, what was gone stays so.
LEMMA GoneStays ==
  ASSUME Held, NEW k \in GroupKeys, NEW G, GroupStep(k, G),
         NEW j \in GroupKeys, NEW o \in Nat, Gone(j, o)
  PROVE  Gone(j, o)'
<1> DEFINE g == group[k]
<1>1. /\ IsGroup(g) /\ WindowOK(k) /\ GroupTypeOK
  BY DEF Held, Inv, TypeOK, GroupTypeOK
<1>2. PICK n \in Nat : WindowTo(g, n)
  BY <1>1 DEF WindowOK
<1> HIDE DEF g
<1>3. \E m \in Nat : IsGroup(G) /\ WindowTo(G, m) /\ n <= m
                     /\ \A p \in Nat : p < n /\ p \in Unsettled(G) => p \in Unsettled(g)
  <2>1. ASSUME NEW q, G = Expire(g, q) \/ G = Redeliver(g, q)
        PROVE  IsGroup(G) /\ WindowTo(G, n) /\ Unsettled(G) = Unsettled(g)
    <3>1. IsGroup(G) /\ WindowTo(G, n)
      BY <1>1, <1>2, <2>1, ExpireKeeps, RedeliverKeeps DEF WindowTo
    <3>2. Unsettled(G) = Unsettled(g)
      BY <1>1, <2>1, ExpireLeases, RedeliverLeases
    <3> QED
      BY <3>1, <3>2
  <2>2. ASSUME NEW q, G = Settle(g, q)
        PROVE  IsGroup(G) /\ WindowTo(G, n) /\ Unsettled(G) = Unsettled(g) \ {q}
    <3>1. IsGroup(G) /\ WindowTo(G, n)
      BY <1>1, <1>2, <2>2, SettleKeeps
    <3>2. Unsettled(G) = Unsettled(g) \ {q}
      BY <1>1, <1>2, <2>2, SettleLeases
    <3> QED
      BY <3>1, <3>2
  <2>3. ASSUME NEW m \in Nat, G = LeaseNew(g, m)
        PROVE  /\ IsGroup(G) /\ WindowTo(G, n + m)
               /\ Unsettled(G) = Unsettled(g) \cup n .. (n + m - 1)
    <3>1. IsGroup(G) /\ WindowTo(G, n + m)
      BY <1>1, <1>2, <2>3, LeaseNewKeeps
    <3>2. Unsettled(G) = Unsettled(g) \cup n .. (n + m - 1)
      BY <1>1, <1>2, <2>3, NewLeases
    <3> QED
      BY <3>1, <3>2
  <2>4. CASE \E q : G = Expire(g, q) \/ G = Redeliver(g, q)
    BY <1>2, <2>1, <2>4
  <2>5. CASE \E q : G = Settle(g, q)
    BY <1>2, <2>2, <2>5
  <2>6. CASE \E m \in Nat : G = LeaseNew(g, m)
    <3>1. PICK m \in Nat : G = LeaseNew(g, m)
      BY <2>6
    <3>2. n + m \in Nat /\ n <= n + m
      OBVIOUS
    <3>3. \A p \in Nat : p < n /\ p \in Unsettled(G) => p \in Unsettled(g)
      BY <2>3, <3>1
    <3> QED
      BY <2>3, <3>1, <3>2, <3>3
  <2> QED
    BY <2>4, <2>5, <2>6 DEF GroupStep, Rewrites, g
<1>4. PICK m \in Nat : /\ IsGroup(G) /\ WindowTo(G, m) /\ n <= m
                       /\ \A p \in Nat : p < n /\ p \in Unsettled(G) => p \in Unsettled(g)
  BY <1>3
<1>5. group'[k] = G /\ \A i \in GroupKeys : i # k => group'[i] = group[i]
  BY <1>1, <1>4, GroupUpdate DEF GroupStep
<1>6. CASE j = k
  <2>1. o < n /\ o \notin Unsettled(g)
    BY <1>1, <1>2, <1>6, GoneIs DEF Gone, g
  <2>2. o < m /\ o \notin Unsettled(G)
    BY <1>4, <2>1
  <2> QED
    BY <1>4, <1>5, <1>6, <2>2, GoneIs DEF Gone
<1>7. CASE j # k
  BY <1>5, <1>7 DEF Gone
<1> QED
  BY <1>6, <1>7

\* A lease that a step settles is gone.
LEMMA SettleGone ==
  ASSUME Held, NEW k \in GroupKeys, NEW o \in DOMAIN group[k].leases,
         SaveGroup(k, Settle(group[k], o))
  PROVE  Gone(k, o)'
<1> DEFINE G == Settle(group[k], o)
<1>1. IsGroup(group[k]) /\ WindowOK(k) /\ GroupTypeOK
  BY DEF Held, Inv, TypeOK, GroupTypeOK
<1>2. PICK n \in Nat : WindowTo(group[k], n)
  BY <1>1 DEF WindowOK
<1>3. IsGroup(G) /\ WindowTo(G, n) /\ Unsettled(G) = Unsettled(group[k]) \ {o}
  <2>1. IsGroup(G) /\ WindowTo(G, n)
    BY <1>1, <1>2, SettleKeeps
  <2>2. Unsettled(G) = Unsettled(group[k]) \ {o}
    BY <1>1, <1>2, SettleLeases
  <2> QED
    BY <2>1, <2>2
<1>4. o \in Nat /\ o < n
  BY <1>1, <1>2 DEF IsGroup, WindowTo
<1> HIDE DEF G
<1>5. group'[k] = G
  BY <1>1, <1>3, GroupUpdate DEF SaveGroup, G
<1>6. o < G.committed \/ IsAcked(G, o)
  BY <1>3, <1>4, GoneIs
<1> QED
  BY <1>5, <1>6 DEF Gone

\* What is left by a step that is not Begin, an append, an ack or the end of
\* dead-lettering: nobody starts to append or loses a copy it has made.
Keeps ==
  /\ UNCHANGED <<log, acks, produced>>
  /\ \A th \in Threads : dead[th] # None /\ pc[th] \in Appended
                           => dead'[th] = dead[th] /\ pc'[th] \in Appended
  /\ \A c \in Clients : Appending(c)' =>
       /\ Appending(c) /\ req'[c] = req[c]
       /\ pc'[c] = "append" => pc[c] = "append" \/ req[c].op = "produce"

\* A goroutine that has no copy, and does not go on to append, moves.
LEMMA MoveKeeps ==
  ASSUME NEW th \in Threads, UNCHANGED <<log, acks, produced>>,
         \A d \in Threads : d # th => pc'[d] = pc[d] /\ dead'[d] = dead[d],
         \A c \in Clients : c # th => req'[c] = req[c],
         dead[th] = None \/ pc[th] \notin Appended,
         th \in Clients => ~Appending(th)'
  PROVE  Keeps
<1>1. Clients \subseteq Threads
  BY DEF Threads
<1> QED
  BY <1>1 DEF Keeps, Appending

\* The steps of a handler that neither acks nor visits an expired lease.
LEMMA HandlerKeeps ==
  ASSUME Held, NEW c \in Clients,
         \/ GetOrCreateGroup(c) \/ FetchLock(c) \/ Enqueue(c) \/ Receive(c)
         \/ PollTimeout(c) \/ Unqueue(c) \/ NackLease(c) \/ NackDispatch(c)
         \/ \E n \in 0 .. NewCount(c) : FetchNew(c, n)
  PROVE  Keeps
<1> USE DEF GetOrCreateGroup, FetchLock, Enqueue, Receive, PollTimeout, Unqueue,
            NackLease, NackDispatch, FetchNew
<1>1. UNCHANGED <<log, acks, produced, dead>>
  BY DEF walVars, groupVars, otherVars
<1>2. pc[c] \in GroupStates /\ pc[c] \notin Producing
  BY DEF GroupStates, Producing
<1>3. c \in Threads /\ dead[c] = None /\ Inv /\ HandlerOK(c) /\ ThreadTypeOK
  BY <1>2, NotDead DEF Held, Inv, TypeOK
<1>4. PICK l : Goto(c, l) /\ l \notin {"create", "append"}
  <2>1. CASE GetOrCreateGroup(c)
    <3>1. req[c].op \in {"fetch", "ack", "nack"}
      BY <1>2, <1>3 DEF HandlerOK, GroupOps
    <3>2. Goto(c, "idle") \/ Goto(c, req[c].op)
      BY <2>1 DEF Return
    <3> QED
      BY <3>1, <3>2
  <2>2. CASE ~GetOrCreateGroup(c)
    <3>1. \/ Goto(c, "idle") \/ Goto(c, "fetchExpired") \/ Goto(c, "enqueue")
          \/ Goto(c, "wait") \/ Goto(c, "unqueue") \/ Goto(c, "nackDispatch")
      BY <2>2 DEF Return
    <3> QED
      BY <3>1
  <2> QED
    BY <2>1, <2>2
<1>5. pc'[c] = l /\ \A d \in Threads : d # c => pc'[d] = pc[d]
  BY <1>3, <1>4, GotoMoves
<1>6. \A d \in Clients : d # c => req'[d] = req[d]
  BY <1>3 DEF Return, reqVars, ThreadTypeOK
<1>7. ~Appending(c)'
  BY <1>4, <1>5 DEF Appending
<1> QED
  BY <1>1, <1>3, <1>5, <1>6, <1>7, MoveKeeps

\* fetchAvailable hands a lease out again, or starts to dead-letter it.
LEMMA FetchExpiredKeeps ==
  ASSUME Held, NEW c \in Clients, FetchExpired(c)
  PROVE  Keeps
<1>1. UNCHANGED <<log, acks, produced, req>> /\ pc[c] = "fetchExpired"
  BY DEF FetchExpired, walVars, otherVars
<1>2. c \in Threads /\ dead[c] = None /\ Inv /\ HandlerOK(c) /\ ThreadTypeOK
  BY <1>1, NotDead DEF Held, Inv, TypeOK, Producing
<1>3. PICK k \in GroupKeys : k = Key(c)
  BY <1>1, <1>2, KeyOK DEF GroupStates
<1>4. PICK o : o = First(todo[c])
  OBVIOUS
<1>5. CASE UNCHANGED <<pc, dead>>
  BY <1>1, <1>2, <1>5, MoveKeeps DEF Appending
<1>6. CASE dead' = [dead EXCEPT ![c] = <<k, o>>] /\ \E l : Goto(c, l)
  <2>1. o \in Nat
    BY <1>2, <1>4, FirstIsIn DEF FetchExpired, ThreadTypeOK
  <2>2. <<k, o>> # None
    BY <2>1, ConstantsOK
  <2>3. /\ dead'[c] = <<k, o>>
        /\ \A d \in Threads : d # c => dead'[d] = dead[d] /\ pc'[d] = pc[d]
    BY <1>2, <1>6, GotoMoves DEF ThreadTypeOK
  <2> QED
    BY <1>1, <1>2, <2>2, <2>3, MoveKeeps DEF Appending
<1> QED
  BY <1>3, <1>4, <1>5, <1>6 DEF FetchExpired

\* The expiry loop, outside Produce and the end of dead-lettering.
LEMMA ReaperKeeps ==
  ASSUME Held, ReaperStep
  PROVE  Keeps
<1> USE DEF Tick, SweepTopic, ReapGroup
<1>1. UNCHANGED <<log, acks, produced, req>>
  BY DEF ReaperStep, walVars, groupVars, otherVars, reqVars
<1>2. Reaper \in Threads /\ Reaper \notin Clients
  BY ConstantsOK DEF Threads
<1>3. pc[Reaper] \notin Appended /\ Inv /\ ThreadTypeOK
  BY DEF ReaperStep, Appended, Held, Inv, TypeOK
<1>4. \/ UNCHANGED dead
      \/ \E x : dead' = [dead EXCEPT ![Reaper] = x]
  BY DEF ReaperStep
<1>5. UNCHANGED pc \/ \E l : Goto(Reaper, l)
  BY DEF ReaperStep, EndVisit
<1>6. \A d \in Threads : d # Reaper => dead'[d] = dead[d] /\ pc'[d] = pc[d]
  BY <1>2, <1>3, <1>4, <1>5, GotoMoves DEF ThreadTypeOK
<1> QED
  BY <1>1, <1>2, <1>3, <1>6, MoveKeeps

\* Produce before and after the append.
LEMMA ProduceKeeps ==
  ASSUME Held, NEW th \in Threads, CreateTopic(th) \/ Dispatch(th)
  PROVE  Keeps
<1>1. UNCHANGED <<log, acks, produced, dead>>
  BY DEF CreateTopic, Dispatch, walVars, groupVars, otherVars
<1>2. /\ Inv /\ ThreadTypeOK /\ Clients \subseteq Threads
      /\ dead[th] = None => th \in Clients
  BY ProducerOK DEF Held, Inv, TypeOK, Threads, CreateTopic, Dispatch, Producing
<1>3. \A c \in Clients : c # th => req'[c] = req[c]
  BY <1>2 DEF CreateTopic, Dispatch, EndProduce, Return, reqVars, ThreadTypeOK
<1>4. CASE CreateTopic(th)
  <2>1. \/ Goto(th, "append") /\ (dead[th] # None \/ req[th].op = "produce") /\ UNCHANGED req
        \/ \E l : Goto(th, l) /\ l \notin {"create", "append"}
    BY <1>4 DEF CreateTopic, EndProduce, Return, reqVars
  <2>2. \A d \in Threads : d # th => pc'[d] = pc[d]
    BY <1>2, <2>1, GotoMoves
  <2>3. ~(pc[th] \in Appended)
    BY <1>4 DEF CreateTopic, Appended
  <2>4. CASE \E l : Goto(th, l) /\ l \notin {"create", "append"}
    <3>1. pc'[th] \notin {"create", "append"}
      BY <1>2, <2>4, GotoMoves
    <3> QED
      BY <1>1, <1>3, <2>2, <2>3, <3>1, MoveKeeps DEF Appending
  <2>5. CASE Goto(th, "append") /\ (dead[th] # None \/ req[th].op = "produce") /\ UNCHANGED req
    <3>1. pc'[th] = "append" /\ pc[th] = "create"
      BY <1>2, <1>4, <2>5, GotoMoves DEF CreateTopic
    <3> QED
      BY <1>1, <1>2, <2>2, <2>3, <2>5, <3>1 DEF Keeps, Appending
  <2> QED
    BY <2>1, <2>4, <2>5
<1>5. CASE Dispatch(th)
  <2>1. PICK l : /\ Goto(th, l) /\ l \notin {"create", "append"}
                 /\ dead[th] # None => l \in Appended
    BY <1>5 DEF Dispatch, EndProduce, Return, Appended
  <2>2. pc'[th] = l /\ \A d \in Threads : d # th => pc'[d] = pc[d]
    BY <1>2, <2>1, GotoMoves
  <2> QED
    BY <1>1, <1>2, <1>3, <2>1, <2>2 DEF Keeps, Appending
<1> QED
  BY <1>4, <1>5

\* Every step is one of five kinds, as long as nothing is restarted.
LEMMA StepKinds ==
  ASSUME OneLife, Held, [Next]_vars
  PROVE  \/ \E c \in Clients : (\E r \in Requests[c] : Begin(c, r)) \/ Ack(c)
         \/ \E th \in Threads : WalAppend(th) \/ SettleDead(th)
         \/ Keeps
<1>1. CASE UNCHANGED vars
  BY <1>1 DEF vars, walVars, groupVars, reqVars, otherVars, Keeps, Appending
<1>2. CASE \/ CloseStep \/ \E t \in Topics : Flush(t)
           \/ \E k \in GroupKeys : \E o \in DOMAIN group[k].leases : ExpireLease(k, o)
  BY <1>2 DEF CloseStep, CloseBegin, CloseLock, CloseTopic, CloseEnd, Flush, ExpireLease,
     walVars, groupVars, reqVars, otherVars, Keeps, Appending
<1>3. ASSUME NEW th \in Threads, ProduceStep(th)
      PROVE  WalAppend(th) \/ SettleDead(th) \/ Keeps
  BY <1>3, ProduceKeeps DEF ProduceStep
<1>4. ASSUME NEW c \in Clients, ClientStep(c)
      PROVE  Ack(c) \/ Keeps
  BY <1>4, HandlerKeeps, FetchExpiredKeeps DEF ClientStep
<1>5. ~\E left, skipped : Crash(left, skipped)
  BY SMTT(30) DEF OneLife, Crash, Held, Inv, TypeOK, RestTypeOK
<1> QED
  BY <1>1, <1>2, <1>3, <1>4, <1>5, ReaperKeeps DEF Next

\* The other four kinds of step move one goroutine, which has no copy afterwards.
LEMMA OneMoves ==
  ASSUME Held, NEW th \in Threads,
         \/ th \in Clients /\ ((\E r \in Requests[th] : Begin(th, r)) \/ Ack(th))
         \/ WalAppend(th) \/ SettleDead(th)
  PROVE  /\ \A d \in Threads : d # th => pc'[d] = pc[d] /\ dead'[d] = dead[d]
         /\ \A c \in Clients : c # th => req'[c] = req[c]
         /\ ~SettleDead(th) => dead'[th] = dead[th] /\ pc[th] \notin Appended
         /\ WalAppend(th) => /\ pc'[th] \notin {"create", "append"}
                             /\ dead[th] # None => pc'[th] \in Appended
         /\ th \in Clients /\ (Ack(th) \/ SettleDead(th)) => ~Appending(th)'
<1>1. /\ Inv /\ ThreadTypeOK /\ Reaper \notin Clients
  BY ConstantsOK DEF Held, Inv, TypeOK
<1>2. /\ \E l : Goto(th, l)
      /\ UNCHANGED req \/ \E x : req' = [req EXCEPT ![th] = x]
      /\ \/ pc[th] \notin Appended /\ UNCHANGED dead
         \/ SettleDead(th) /\ dead' = [dead EXCEPT ![th] = None]
  <2>1. CASE \E r \in Requests[th] : Begin(th, r)
    BY <2>1 DEF Begin, Appended
  <2>2. CASE Ack(th)
    BY <2>2 DEF Ack, Return, Appended
  <2>3. CASE WalAppend(th)
    BY <2>3 DEF WalAppend, EndProduce, Return, reqVars, Appended
  <2>4. CASE SettleDead(th)
    BY <2>4 DEF SettleDead, EndVisit, reqVars
  <2> QED
    BY <2>1, <2>2, <2>3, <2>4
<1>3. \A d \in Threads : d # th => pc'[d] = pc[d] /\ dead'[d] = dead[d]
  BY <1>1, <1>2, GotoMoves DEF ThreadTypeOK
<1>4. \A c \in Clients : c # th => req'[c] = req[c]
  BY <1>1, <1>2 DEF ThreadTypeOK
<1>5. ~SettleDead(th) => dead'[th] = dead[th] /\ pc[th] \notin Appended
  BY <1>2
<1>6. WalAppend(th) => /\ pc'[th] \notin {"create", "append"}
                       /\ dead[th] # None => pc'[th] \in Appended
  <2> SUFFICES ASSUME WalAppend(th)
               PROVE  /\ pc'[th] \notin {"create", "append"}
                      /\ dead[th] # None => pc'[th] \in Appended
    OBVIOUS
  <2>1. \/ Goto(th, "dispatch") \/ Goto(th, "settle")
        \/ dead[th] = None /\ Goto(th, "idle")
    BY DEF WalAppend, EndProduce, Return
  <2> QED
    BY <1>1, <2>1, GotoMoves DEF Appended
<1>7. th \in Clients /\ (Ack(th) \/ SettleDead(th)) => ~Appending(th)'
  <2> SUFFICES ASSUME th \in Clients, Ack(th) \/ SettleDead(th)
               PROVE  ~Appending(th)'
    OBVIOUS
  <2>1. Goto(th, "idle") \/ Goto(th, "fetchExpired")
    <3>1. CASE Ack(th)
      BY <3>1 DEF Ack, Return
    <3>2. CASE SettleDead(th)
      BY <1>1, <3>2 DEF SettleDead
    <3> QED
      BY <3>1, <3>2, ZenonT(60)
  <2>2. pc'[th] \in {"idle", "fetchExpired"}
    BY <1>1, <2>1, GotoMoves
  <2> QED
    BY <2>2 DEF Appending
<1> QED
  BY <1>3, <1>4, <1>5, <1>6, <1>7

\* An append writes what Payload gives it to the end of its topic, or nothing.
LEMMA AppendWrites ==
  ASSUME Held, NEW th \in Threads, WalAppend(th)
  PROVE  /\ Target(th) \in Topics /\ UNCHANGED <<acks, produced, dead>>
         /\ \A t \in Topics : t # Target(th) => log'[t] = log[t]
         /\ \/ UNCHANGED log
            \/ log'[Target(th)] = Append(log[Target(th)], Payload(th))
         /\ log[Target(th)] \in Seq(Entry) /\ Payload(th) \in Entry
         /\ pc[th] = "append" /\ dead[th] = None => th \in Clients /\ req[th] \in Request
<1>1. Inv /\ WalTypeOK /\ pc[th] \in Producing
  BY DEF Held, Inv, TypeOK, WalAppend, Producing
<1>2. Target(th) \in Topics /\ Payload(th) \in Entry
  BY <1>1, ProducerOK, PayloadOK
<1>3. \/ UNCHANGED log
      \/ log' = [log EXCEPT ![Target(th)] = Append(log[Target(th)], Payload(th))]
  BY DEF WalAppend
<1>4. UNCHANGED <<acks, produced, dead>>
  BY DEF WalAppend, groupVars, otherVars
<1> QED
  BY <1>1, <1>2, <1>3, <1>4, ProducerOK DEF WalTypeOK

\* No new value, nobody new on the way to an append.
LEMMA ValuesFrame ==
  ASSUME ValuesOK, UNCHANGED <<log, produced>>,
         \A c \in Clients : Appending(c)' =>
           /\ Appending(c) /\ req'[c] = req[c]
           /\ pc'[c] = "append" => pc[c] = "append" \/ req[c].op = "produce"
  PROVE  ValuesOK'
<1>1. \A c \in Clients : Fresh(c)' => Fresh(c) /\ req'[c] = req[c]
  BY DEF Fresh
<1>2. \A c \in Clients : Appending(c)' /\ pc'[c] = "append" => req'[c].op = "produce"
  BY DEF ValuesOK
<1> QED
  BY <1>1, <1>2 DEF ValuesOK

\* Begin gives a produce request a value nobody has.
LEMMA ValuesBegin ==
  ASSUME Held, ValuesOK, NEW c \in Clients, NEW r \in Requests[c], Begin(c, r)
  PROVE  ValuesOK'
<1>1. /\ UNCHANGED <<log, dead>> /\ Inv /\ c \in Threads /\ produced \in Nat
      /\ req \in [Clients -> Request \cup {None}]
  BY DEF Begin, walVars, Held, Inv, TypeOK, Threads, RestTypeOK, ThreadTypeOK
<1>2. req'[c] = [r EXCEPT !.value = produced] /\ r \in Request
  BY <1>1, ConstantsOK DEF Begin
<1>3. req'[c].value = produced /\ req'[c].op = r.op
  BY <1>2 DEF Request
<1>4. \A d \in Clients : d # c => Appending(d)' = Appending(d) /\ req'[d] = req[d]
                                  /\ pc'[d] = pc[d]
  BY <1>1, OneMoves DEF Appending, Threads
<1>5. pc'[c] # "append" /\ (r.op = "produce" => produced' = produced + 1)
      /\ produced' \in Nat /\ produced <= produced'
  <2>1. Goto(c, "group") \/ Goto(c, "create")
    BY DEF Begin
  <2> QED
    BY <1>1, <2>1, GotoMoves DEF Begin
<1>6. \A d \in Clients : Fresh(d)' => (d = c /\ r.op = "produce") \/ (Fresh(d) /\ d # c)
  <2> SUFFICES ASSUME NEW d \in Clients, Fresh(d)'
               PROVE  (d = c /\ r.op = "produce") \/ (Fresh(d) /\ d # c)
    OBVIOUS
  <2>1. CASE d = c
    <3>1. req'[d].op = "produce"
      BY DEF Fresh
    <3> QED
      BY <1>3, <2>1, <3>1
  <2>2. CASE d # c
    BY <1>4, <2>2 DEF Fresh
  <2> QED
    BY <2>1, <2>2
<1>7. ASSUME NEW t \in Consumed, NEW i \in 1 .. Len(log[t])
      PROVE  log[t][i].value < produced /\ log[t][i].value \in Nat
  <2>1. log[t] \in Seq(Entry)
    BY ConstantsOK DEF Held, Inv, TypeOK, WalTypeOK
  <2>2. log[t][i] \in Entry
    BY <2>1
  <2> QED
    BY <2>2 DEF ValuesOK, Entry
<1>8. \A d \in Clients : Fresh(d) => req[d].value < produced /\ req[d].value \in Nat
  <2>1. \A d \in Clients : Fresh(d) => req[d] \in Request
    BY DEF Fresh, Appending, Held, Inv, HandlerOK
  <2> QED
    BY <2>1, RequestFields DEF ValuesOK
<1>9. \A d \in Clients : Appending(d)' /\ pc'[d] = "append" => req'[d].op = "produce"
  BY <1>4, <1>5 DEF ValuesOK
<1>10. \A t \in Consumed : \A i \in 1 .. Len(log[t]) : log[t][i].value < produced'
  BY <1>1, <1>5, <1>7
<1>11. ASSUME NEW d \in Clients, Fresh(d)'
       PROVE  /\ req'[d].value < produced'
              /\ \A t \in Consumed : \A i \in 1 .. Len(log[t]) :
                   log[t][i].value # req'[d].value
              /\ \A e \in Clients : Fresh(e)' /\ req'[e].value = req'[d].value => e = d
  <2>1. CASE d = c
    <3>1. req'[d].value = produced /\ produced' = produced + 1
      BY <1>3, <1>5, <1>6, <1>11, <2>1
    <3>2. \A t \in Consumed : \A i \in 1 .. Len(log[t]) : log[t][i].value # produced
      BY <1>1, <1>7
    <3>3. \A e \in Clients : Fresh(e)' /\ e # c => req'[e].value # produced
      BY <1>1, <1>4, <1>6, <1>8
    <3> QED
      BY <1>1, <2>1, <3>1, <3>2, <3>3
  <2>2. CASE d # c
    <3>1. Fresh(d) /\ req'[d] = req[d]
      BY <1>4, <1>6, <1>11, <2>2
    <3>2. \A e \in Clients : e # c /\ Fresh(e)' => Fresh(e) /\ req'[e] = req[e]
      BY <1>4, <1>6
    <3>3. req'[c].value # req[d].value
      BY <1>1, <1>3, <1>8, <3>1
    <3>4. req[d].value < produced'
      BY <1>1, <1>5, <1>8, <3>1
    <3> QED
      BY <2>2, <3>1, <3>2, <3>3, <3>4 DEF ValuesOK
  <2> QED
    BY <2>1, <2>2
<1> QED
  BY <1>1, <1>9, <1>10, <1>11 DEF ValuesOK

\* An append puts a client's value into its topic; copies go elsewhere.
LEMMA ValuesAppend ==
  ASSUME OneLife, Held, ValuesOK, NEW th \in Threads, WalAppend(th)
  PROVE  ValuesOK'
<1>1. /\ UNCHANGED <<produced, dead>> /\ pc[th] = "append"
      /\ \A t \in Topics : t # Target(th) => log'[t] = log[t]
      /\ \/ UNCHANGED log
         \/ log'[Target(th)] = Append(log[Target(th)], Payload(th))
      /\ Target(th) \in Topics /\ log[Target(th)] \in Seq(Entry)
      /\ Payload(th) \in Entry
      /\ dead[th] = None => th \in Clients
  BY AppendWrites DEF WalAppend
<1>2. \A c \in Clients : Appending(c)' => c # th /\ Appending(c) /\ req'[c] = req[c]
                                          /\ pc'[c] = pc[c]
  BY <1>1, OneMoves DEF Appending, Threads
<1>3. CASE \A t \in Consumed : log'[t] = log[t]
  <2>1. \A c \in Clients : Fresh(c)' => Fresh(c) /\ req'[c] = req[c]
    BY <1>2 DEF Fresh
  <2>2. \A c \in Clients : Appending(c)' /\ pc'[c] = "append" => req'[c].op = "produce"
    BY <1>2 DEF ValuesOK
  <2> QED
    BY <1>1, <1>3, <2>1, <2>2 DEF ValuesOK
<1>4. CASE ~\A t \in Consumed : log'[t] = log[t]
  <2> DEFINE u == Target(th)
             v == Payload(th).value
             n == Len(log[u])
  <2>1. u \in Consumed /\ log'[u] = Append(log[u], Payload(th))
        /\ \A t \in Consumed : t # u => log'[t] = log[t]
    BY <1>1, <1>4, ConstantsOK, SMTT(30)
  <2>2. dead[th] = None
    <3> SUFFICES ASSUME dead[th] # None PROVE FALSE
      BY ZenonT(60)
    <3>1. dead[th][1] \in GroupKeys /\ u = Dlq[dead[th][1][1]]
      BY ProducerOK, <1>1 DEF Target, Held, Producing
    <3> QED
      BY <2>1, <3>1 DEF OneLife, GroupKeys
  <2>3. th \in Clients /\ Fresh(th) /\ v = req[th].value
    <3>1. th \in Clients /\ Appending(th)
      BY <1>1, <2>2 DEF Appending
    <3> QED
      BY <1>1, <2>2, <3>1 DEF Fresh, ValuesOK, Payload
  <2>4. /\ Len(log'[u]) = n + 1 /\ n \in Nat
        /\ log'[u][n + 1] = Payload(th)
        /\ \A i \in 1 .. n : log'[u][i] = log[u][i]
    BY <1>1, <2>1
  <2>5. v < produced /\ \A t \in Consumed : \A i \in 1 .. Len(log[t]) : log[t][i].value # v
    BY <2>3 DEF ValuesOK
  <2> HIDE DEF u, v, n
  <2>6. ASSUME NEW t \in Consumed, NEW i \in 1 .. Len(log'[t])
        PROVE  /\ log'[t][i].value < produced
               /\ \A j \in 1 .. Len(log'[t]) :
                    log'[t][j].value = log'[t][i].value => i = j
    <3>1. CASE t # u
      BY <2>1, <3>1 DEF ValuesOK
    <3>2. CASE t = u
      <4>1. log'[u][n + 1].value = v
        BY <2>4 DEF v
      <4>2. \A j \in 1 .. Len(log'[u]) : j \in 1 .. Len(log[u]) \/ j = n + 1
        BY <2>4 DEF n
      <4>3. \A j \in 1 .. Len(log[u]) :
              log'[u][j] = log[u][j] /\ log[u][j].value # v
        BY <2>1, <2>4, <2>5 DEF n
      <4>4. CASE i = n + 1
        BY <2>5, <3>2, <4>1, <4>2, <4>3, <4>4
      <4>5. CASE i \in 1 .. Len(log[u])
        <5>1. log'[u][i].value < produced /\ log'[u][i].value # v
          BY <2>1, <4>3, <4>5 DEF ValuesOK
        <5>2. ASSUME NEW j \in 1 .. Len(log'[u]), log'[u][j].value = log'[u][i].value
              PROVE  i = j
          <6>1. j \in 1 .. Len(log[u])
            BY <4>1, <4>2, <5>1, <5>2
          <6> QED
            BY <2>1, <4>3, <4>5, <5>2, <6>1 DEF ValuesOK
        <5> QED
          BY <3>2, <5>1, <5>2
      <4> QED
        BY <3>2, <4>2, <4>4, <4>5
    <3> QED
      BY <3>1, <3>2
  <2>7. ASSUME NEW c \in Clients, Fresh(c)'
        PROVE  /\ c # th /\ Fresh(c) /\ req'[c] = req[c]
               /\ \A t \in Consumed : \A i \in 1 .. Len(log'[t]) :
                    log'[t][i].value # req[c].value
    <3>1. c # th /\ Fresh(c) /\ req'[c] = req[c]
      BY <1>2, <2>7 DEF Fresh
    <3>2. req[c].value # v
      BY <2>3, <3>1 DEF ValuesOK
    <3>3. ASSUME NEW t \in Consumed, NEW i \in 1 .. Len(log'[t])
          PROVE  log'[t][i].value # req[c].value
      <4>1. CASE t # u
        BY <2>1, <3>1, <4>1 DEF ValuesOK
      <4>2. CASE t = u
        <5>1. i \in 1 .. n \/ log'[t][i].value = v
          BY <2>4, <4>2 DEF v
        <5>2. CASE i \in 1 .. n
          BY <2>1, <2>4, <3>1, <4>2, <5>2 DEF ValuesOK, n
        <5> QED
          BY <3>2, <5>1, <5>2
      <4> QED
        BY <4>1, <4>2
    <3> QED
      BY <3>1, <3>3
  <2>8. \A c \in Clients : Appending(c)' /\ pc'[c] = "append" => req'[c].op = "produce"
    BY <1>2 DEF ValuesOK
  <2> QED
    BY <1>1, <2>6, <2>7, <2>8 DEF ValuesOK
<1> QED
  BY <1>3, <1>4

\* A record stays where it is, and an offset that is gone stays gone.
LEMMA RecordsStay ==
  ASSUME OneLife, Held, [Next]_vars
  PROVE  /\ \A t \in Topics : \A o \in Nat :
              o < Len(log[t]) => o < Len(log'[t]) /\ log'[t][o + 1] = log[t][o + 1]
         /\ \A k \in GroupKeys : \A o \in Nat : Gone(k, o) => Gone(k, o)'
<1>1. log \in [Topics -> Seq(Entry)]
  BY DEF Held, Inv, TypeOK, WalTypeOK
<1>2. CASE LogStep
  <2>1. CASE UNCHANGED log
    BY <1>2, <2>1 DEF LogStep, Gone
  <2>2. ASSUME NEW u \in Topics, NEW e \in Entry, log' = [log EXCEPT ![u] = Append(log[u], e)]
        PROVE  \A t \in Topics : \A o \in Nat :
                 o < Len(log[t]) => o < Len(log'[t]) /\ log'[t][o + 1] = log[t][o + 1]
    <3> SUFFICES ASSUME NEW t \in Topics, NEW o \in Nat, o < Len(log[t])
                 PROVE  o < Len(log'[t]) /\ log'[t][o + 1] = log[t][o + 1]
      OBVIOUS
    <3>1. CASE t # u
      BY <1>1, <2>2, <3>1
    <3>2. CASE t = u
      <4>1. log'[t] = Append(log[t], e) /\ log[t] \in Seq(Entry)
        BY <1>1, <2>2, <3>2
      <4> QED
        BY <4>1
    <3> QED
      BY <3>1, <3>2
  <2> QED
    BY <1>2, <2>1, <2>2 DEF LogStep, Gone
<1>3. ASSUME NEW k \in GroupKeys, NEW G, GroupStep(k, G)
      PROVE  /\ UNCHANGED log
             /\ \A j \in GroupKeys : \A o \in Nat : Gone(j, o) => Gone(j, o)'
  BY <1>3, GoneStays DEF GroupStep
<1>4. ~\E left, skipped : Crash(left, skipped)
  BY SMTT(30) DEF OneLife, Crash, Held, Inv, TypeOK, RestTypeOK
<1> QED
  BY <1>2, <1>3, <1>4, StepForms DEF StepForm

\* A goroutine settles the lease whose copy it has made, before it goes on.
LEMMA CopySettled ==
  ASSUME Held, NEW th \in Threads, SettleDead(th),
         NEW k \in GroupKeys, NEW o \in Nat, dead[th] = <<k, o>>
  PROVE  Gone(k, o)'
<1>1. DeadHeld(th) /\ dead[th] # None
  BY ConstantsOK DEF Held
<1>2. o \in DOMAIN group[k].leases
  BY <1>1 DEF DeadHeld, ExpiredOffsets
<1>3. SaveGroup(k, Settle(group[k], o))
  BY DEF SettleDead
<1> QED
  BY <1>2, <1>3, SettleGone

\* So what is finished stays finished.
LEMMA FinishedStays ==
  ASSUME OneLife, Held, [Next]_vars, NEW k \in GroupKeys, NEW o \in Nat, NEW v,
         Finished(k, o, v)
  PROVE  Finished(k, o, v)'
<1>1. k[1] \in Topics
  BY ConstantsOK DEF GroupKeys
<1>2. o < Len(log'[k[1]]) /\ log'[k[1]][o + 1].value = v /\ (Gone(k, o) => Gone(k, o)')
  BY <1>1, RecordsStay DEF Finished
<1>3. CASE Gone(k, o)
  BY <1>2, <1>3 DEF Finished
<1>4. CASE Copied(k, o)
  <2>1. PICK th \in Threads : dead[th] = <<k, o>> /\ pc[th] \in Appended
    BY <1>4 DEF Copied
  <2>2. dead[th] # None
    BY <2>1, ConstantsOK
  <2>3. CASE Keeps
    BY <1>2, <2>1, <2>2, <2>3 DEF Keeps, Copied, Finished
  <2>4. ASSUME NEW d \in Threads,
               \/ d \in Clients /\ ((\E r \in Requests[d] : Begin(d, r)) \/ Ack(d))
               \/ WalAppend(d) \/ SettleDead(d)
        PROVE  Finished(k, o, v)'
    <3>1. CASE d = th
      <4>1. SettleDead(th)
        BY <2>1, <2>4, <3>1, OneMoves
      <4> QED
        BY <1>2, <2>1, <4>1, CopySettled DEF Finished
    <3>2. CASE d # th
      <4>1. dead'[th] = <<k, o>> /\ pc'[th] \in Appended
        BY <2>1, <2>4, <3>2, OneMoves
      <4> QED
        BY <1>2, <4>1 DEF Copied, Finished
    <3> QED
      BY <3>1, <3>2
  <2> QED
    BY <2>3, <2>4, StepKinds DEF Threads
<1> QED
  BY <1>3, <1>4 DEF Finished

\* An ack settles a value whose offset is gone with the same step.
LEMMA AckFinishes ==
  ASSUME Held, NEW c \in Clients, Ack(c), NEW k \in GroupKeys, NEW v \in Nat, Settled(k, v)'
  PROVE  Settled(k, v) \/ \E o \in Nat : Finished(k, o, v)'
<1>1. /\ UNCHANGED log /\ acks \in [GroupKeys -> SUBSET Nat] /\ Inv
      /\ log \in [Topics -> Seq(Entry)]
  BY DEF Ack, walVars, Held, Inv, TypeOK, GroupTypeOK, WalTypeOK
<1>2. PICK j \in GroupKeys : j = Key(c)
  BY NothingGathered DEF Ack, GroupStates
<1>3. CASE v \in acks'[k] /\ v \notin acks[k]
  <2>1. PICK o \in DOMAIN group[j].leases :
          /\ SaveGroup(j, Settle(group[j], o))
          /\ acks' = [acks EXCEPT ![j] = acks[j] \cup {log[j[1]][o + 1].value}]
    BY <1>1, <1>2, <1>3 DEF Ack, groupVars
  <2>2. j = k /\ v = log[k[1]][o + 1].value
    BY <1>1, <1>3, <2>1
  <2>3. o \in Nat /\ o < Len(log[k[1]])
    BY <1>1, <2>2, LeaseInLog
  <2>4. Gone(k, o)'
    BY <2>1, <2>2, SettleGone
  <2> QED
    BY <1>1, <2>2, <2>3, <2>4 DEF Finished
<1>4. CASE v \notin acks'[k] \/ v \in acks[k]
  BY <1>1, <1>4 DEF Settled
<1> QED
  BY <1>3, <1>4

\* An append settles a value whose copy it is.
LEMMA AppendFinishes ==
  ASSUME Held, NEW th \in Threads, WalAppend(th),
         NEW k \in GroupKeys, NEW v \in Nat, Settled(k, v)'
  PROVE  Settled(k, v) \/ \E o \in Nat : Finished(k, o, v)'
<1> DEFINE d == Dlq[k[1]]
<1>1. /\ UNCHANGED <<acks, dead>> /\ pc[th] = "append" /\ pc[th] \in Producing
      /\ \A t \in Topics : t # Target(th) => log'[t] = log[t]
      /\ \/ UNCHANGED log
         \/ log'[Target(th)] = Append(log[Target(th)], Payload(th))
      /\ log[Target(th)] \in Seq(Entry) /\ Payload(th) \in Entry
  BY AppendWrites DEF WalAppend, Producing
<1>2. d \in Topics /\ k[1] \in Topics /\ d # k[1]
  BY ConstantsOK DEF GroupKeys
<1> HIDE DEF d
<1>3. CASE Settled(k, v)
  BY <1>3
<1>4. CASE ~Settled(k, v)
  <2>1. PICK i \in 1 .. Len(log'[d]) : log'[d][i] = [value |-> v, from |-> k]
    BY <1>1, <1>4 DEF Settled, d
  <2>2. \A j \in 1 .. Len(log[d]) : log[d][j] # [value |-> v, from |-> k]
    BY <1>4 DEF Settled, d
  <2>3. d = Target(th) /\ log'[d] = Append(log[d], Payload(th))
    BY <1>1, <1>2, <2>1, <2>2
  <2>4. Payload(th) = [value |-> v, from |-> k]
    BY <1>1, <2>1, <2>2, <2>3
  <2>5. dead[th] # None
    BY <2>4, ConstantsOK DEF Payload
  <2>6. PICK o \in Nat : dead[th] = <<k, o>> /\ log[k[1]][o + 1].value = v
    <3>1. PICK j \in GroupKeys, o \in Nat : dead[th] = <<j, o>>
      BY <2>5 DEF Held, Inv, TypeOK, ThreadTypeOK
    <3> QED
      BY <2>4, <2>5, <3>1 DEF Payload
  <2>7. o < Len(log[k[1]]) /\ log'[k[1]] = log[k[1]]
    <3>1. dead[th][1] = k /\ dead[th][2] = o
      BY <2>6
    <3>2. o < Len(log[k[1]])
      BY <2>5, <3>1 DEF Held, Inv, DeadOK
    <3> QED
      BY <1>1, <1>2, <2>3, <3>2
  <2>8. dead'[th] = <<k, o>> /\ pc'[th] \in Appended
    BY <1>1, <2>5, <2>6, OneMoves
  <2> QED
    BY <2>6, <2>7, <2>8 DEF Finished, Copied
<1> QED
  BY <1>3, <1>4

\* The whole is inductive.
THEOREM OnceInductive == OneLife /\ OnceOK /\ [Next]_vars => OnceOK'
<1> SUFFICES ASSUME OneLife, OnceOK, [Next]_vars PROVE OnceOK'
  OBVIOUS
<1>1. Held /\ ValuesOK /\ SettledGone /\ Held'
  BY HeldInductive DEF OnceOK
<1>2. Clients \subseteq Threads
  BY DEF Threads
<1>3. ValuesOK'
  <2>1. ASSUME NEW th \in Threads, (th \in Clients /\ Ack(th)) \/ SettleDead(th)
        PROVE  ValuesOK'
    <3>1. UNCHANGED <<log, produced>>
      BY <2>1 DEF Ack, SettleDead, walVars, otherVars
    <3>2. \A c \in Clients : Appending(c)' =>
            Appending(c) /\ req'[c] = req[c] /\ pc'[c] = pc[c]
      BY <1>1, <1>2, <2>1, OneMoves DEF Appending
    <3> QED
      BY <1>1, <3>1, <3>2, ValuesFrame
  <2>2. CASE Keeps
    BY <1>1, <2>2, ValuesFrame DEF Keeps
  <2> QED
    BY <1>1, <1>2, <2>1, <2>2, StepKinds, ValuesBegin, ValuesAppend
<1>4. ASSUME NEW k \in GroupKeys, NEW v \in Nat, Settled(k, v)'
      PROVE  \E o \in Nat : Finished(k, o, v)'
  <2>1. CASE Settled(k, v)
    <3>1. PICK o \in Nat : Finished(k, o, v)
      BY <1>1, <2>1 DEF SettledGone
    <3> QED
      BY <1>1, <3>1, FinishedStays
  <2>2. CASE UNCHANGED <<log, acks>>
    <3>1. Settled(k, v)
      BY <1>4, <2>2 DEF Settled
    <3> QED
      BY <2>1, <3>1
  <2>3. CASE \E c \in Clients : Ack(c)
    BY <1>1, <1>4, <2>1, <2>3, AckFinishes
  <2>4. CASE \E th \in Threads : WalAppend(th)
    BY <1>1, <1>4, <2>1, <2>4, AppendFinishes
  <2>5. CASE Keeps
    BY <2>2, <2>5 DEF Keeps
  <2>6. CASE \/ \E c \in Clients : \E r \in Requests[c] : Begin(c, r)
             \/ \E th \in Threads : SettleDead(th)
    BY <2>2, <2>6 DEF Begin, SettleDead, walVars, groupVars
  <2> QED
    BY <1>1, <2>3, <2>4, <2>5, <2>6, StepKinds
<1>5. SettledGone'
  BY <1>4 DEF SettledGone
<1> QED
  BY <1>1, <1>3, <1>5 DEF OnceOK

\* What DeadLetterOnce says of a step, for one group.
LetterDue(k) ==
  LET d == log[Dlq[k[1]]]
      e == log'[Dlq[k[1]]][Len(d) + 1]
  IN  /\ Len(log'[Dlq[k[1]]]) > Len(d)
      /\ e.from = k
      => /\ ~Settled(k, e.value)
         /\ \E o \in DOMAIN group[k].leases :
              /\ log[k[1]][o + 1].value = e.value
              /\ group[k].leases[o].redeliveries >= MaxRedeliveries

\* The goroutine that appends a copy holds the lock of the group, so the lease
\* it read is still there: it is not gone, and nobody else copies it.
LEMMA LetterStep ==
  ASSUME OneLife, OnceOK, [Next]_vars, NEW k \in GroupKeys
  PROVE  LetterDue(k)
<1> DEFINE d == Dlq[k[1]]
           e == log'[d][Len(log[d]) + 1]
<1>1. Held /\ ValuesOK /\ SettledGone /\ Inv
  BY DEF OnceOK, Held
<1>2. d \in Topics /\ k[1] \in Topics /\ k[1] \in Consumed
  BY ConstantsOK DEF GroupKeys
<1> SUFFICES ASSUME Len(log'[d]) > Len(log[d]), e.from = k
             PROVE  /\ ~Settled(k, e.value)
                    /\ \E o \in DOMAIN group[k].leases :
                         /\ log[k[1]][o + 1].value = e.value
                         /\ group[k].leases[o].redeliveries >= MaxRedeliveries
  BY DEF LetterDue
<1> HIDE DEF d, e
<1>3. log'[d] # log[d]
  <2>1. Len(log[d]) \in Nat
    BY <1>1, <1>2 DEF Inv, TypeOK, WalTypeOK
  <2> QED
    BY <2>1
<1>4. PICK th \in Threads : WalAppend(th)
  BY <1>1, <1>3, StepKinds DEF Keeps, Begin, Ack, SettleDead, walVars
<1>5. /\ log[d] \in Seq(Entry) /\ Payload(th) \in Entry /\ pc[th] = "append"
      /\ log'[d] = Append(log[d], Payload(th))
  BY <1>1, <1>2, <1>3, <1>4, AppendWrites DEF WalAppend
<1>6. e = Payload(th)
  BY <1>5 DEF e
<1>7. dead[th] # None
  BY <1>6, ConstantsOK DEF Payload
<1>8. PICK j \in GroupKeys, o \in Nat : dead[th] = <<j, o>>
  BY <1>1, <1>7 DEF Inv, TypeOK, ThreadTypeOK
<1>9. j = k /\ e.value = log[k[1]][o + 1].value
  BY <1>6, <1>7, <1>8 DEF Payload
<1>10. /\ gmu[k] = th /\ o \in ExpiredOffsets(group[k]) /\ Exhausted(k, o)
  <2>1. dead[th][1] = k /\ dead[th][2] = o /\ DeadHeld(th)
    BY <1>1, <1>8, <1>9 DEF Held
  <2> QED
    BY <1>7, <2>1 DEF DeadHeld
<1>11. ~Gone(k, o)
  <2>1. IsGroup(group[k]) /\ WindowOK(k)
    BY <1>1 DEF Inv, TypeOK, GroupTypeOK
  <2> QED
    BY <1>10, <2>1 DEF Gone, IsAcked, ExpiredOffsets, WindowOK, WindowTo, IsGroup
<1>12. ~Copied(k, o)
  <2> SUFFICES ASSUME NEW x \in Threads, dead[x] = <<k, o>>, pc[x] \in Appended
               PROVE  FALSE
    BY DEF Copied
  <2>1. dead[x] # None
    BY ConstantsOK
  <2>2. gmu[k] = x
    <3>1. dead[x][1] = k /\ DeadHeld(x)
      BY <1>1 DEF Held
    <3> QED
      BY <2>1, <3>1 DEF DeadHeld
  <2> QED
    BY <1>5, <1>10, <2>2 DEF Appended
<1>13. o < Len(log[k[1]]) /\ o + 1 \in 1 .. Len(log[k[1]]) /\ log[k[1]] \in Seq(Entry)
  <2>1. dead[th][1] = k /\ dead[th][2] = o
    BY <1>8, <1>9
  <2>2. o < Len(log[k[1]])
    BY <1>1, <1>7, <2>1 DEF Inv, DeadOK
  <2>3. log[k[1]] \in Seq(Entry)
    BY <1>1, <1>2 DEF Inv, TypeOK, WalTypeOK
  <2> QED
    BY <2>2, <2>3
<1>14. ~Settled(k, e.value)
  <2> SUFFICES ASSUME Settled(k, e.value) PROVE FALSE
    OBVIOUS
  <2>1. e.value \in Nat
    BY <1>5, <1>6 DEF Entry
  <2>2. PICK p \in Nat : Finished(k, p, e.value)
    BY <1>1, <2>1 DEF SettledGone
  <2>3. p + 1 \in 1 .. Len(log[k[1]]) /\ log[k[1]][p + 1].value = log[k[1]][o + 1].value
    BY <1>9, <1>13, <2>2 DEF Finished
  <2>4. p + 1 = o + 1
    BY <1>1, <1>2, <1>13, <2>3 DEF ValuesOK
  <2>5. p = o
    BY <2>4
  <2> QED
    BY <1>11, <1>12, <2>2, <2>5 DEF Finished
<1> QED
  BY <1>9, <1>10, <1>14 DEF ExpiredOffsets, Exhausted

(***************************************************************************)
(* A record reaches the dead-letter topic at most once for a group, only   *)
(* when its lease used up its redeliveries, and never once the group acked *)
(* it, however fetchAvailable, checkExpiredLeases, Nack and Ack interleave.*)
(***************************************************************************)
THEOREM DeadLetterOnceAlways == ASSUME OneLife PROVE Spec => DeadLetterOnce
<1>1. Init => OnceOK
  <2> SUFFICES ASSUME Init PROVE OnceOK
    OBVIOUS
  <2>1. Held
    BY HeldInit
  <2>2. ValuesOK
    BY ConstantsOK DEF Init, ValuesOK, Fresh, Appending, Threads
  <2>3. SettledGone
    BY ConstantsOK DEF Init, SettledGone, Settled, GroupKeys
  <2> QED
    BY <2>1, <2>2, <2>3 DEF OnceOK
<1>2. OnceOK /\ [Next]_vars => OnceOK'
  BY OnceInductive
<1>3. OnceOK /\ [Next]_vars =>
        [\A k \in GroupKeys :
           LET d == log[Dlq[k[1]]]
               e == log'[Dlq[k[1]]][Len(d) + 1]
           IN  /\ Len(log'[Dlq[k[1]]]) > Len(d)
               /\ e.from = k
               => /\ ~Settled(k, e.value)
                  /\ \E o \in DOMAIN group[k].leases :
                       /\ log[k[1]][o + 1].value = e.value
                       /\ group[k].leases[o].redeliveries >= MaxRedeliveries]_vars
  BY LetterStep DEF LetterDue
<1> QED
  BY <1>1, <1>2, <1>3, PTL DEF Spec, DeadLetterOnce
=============================================================================
