---------------------------- MODULE LeaseProofs ----------------------------
(***************************************************************************)
(* Who may touch a lease. A handler in fetchAvailable or Nack, and whoever *)
(* dead-letters a record, holds g.mu from one step to the next; what it    *)
(* read under the lock is still true when it acts on it.                   *)
(***************************************************************************)
EXTENDS CoordinatorProofs

\* The handler is inside fetchAvailable.
InFetch(c) == pc[c] = "fetchExpired" \/ dead[c] # None

\* A handler that holds its group's lock, and what it knows under it.
HeldOK(c) ==
  /\ InFetch(c) \/ pc[c] = "nackDispatch" => gmu[Key(c)] = c
  /\ pc[c] = "nackDispatch" => req[c].offset \in ExpiredOffsets(group[Key(c)])
  /\ \A p \in todo[c] : p \in ExpiredOffsets(group[Key(c)])
  /\ dead[c] # None => dead[c][2] \in todo[c]

\* The lease that a goroutine dead-letters is locked, expired, not settled,
\* and has used up its redeliveries.
DeadHeld(th) ==
  dead[th] # None =>
    /\ gmu[dead[th][1]] = th
    /\ dead[th][2] \in ExpiredOffsets(group[dead[th][1]])
    /\ Exhausted(dead[th][1], dead[th][2])

\* The answer fetchAvailable puts together: ascending, before the offsets it
\* still has to visit, and of leases that are not settled.
AnswerOK(c) ==
  /\ msgs[c] # <<>> => pc[c] = "idle" \/ InFetch(c)
  /\ Len(resp[c]) <= 1
  /\ \A i, j \in 1 .. Len(msgs[c]) : i < j => msgs[c][i] < msgs[c][j]
  /\ InFetch(c) => \A i \in 1 .. Len(msgs[c]) :
                     /\ msgs[c][i] \in Unsettled(group[Key(c)])
                     /\ \A p \in todo[c] : msgs[c][i] < p

SavedOK == \A k \in GroupKeys : persisted[k] <= group[k].committed

Held ==
  /\ Inv
  /\ \A c \in Clients : HeldOK(c) /\ AnswerOK(c)
  /\ \A th \in Threads : DeadHeld(th)
  /\ SavedOK

-----------------------------------------------------------------------------
(* What a step may do to a group *)

(***************************************************************************)
(* A running lease ends, an expired one is handed out again, a lease is    *)
(* settled, or records of the log are leased for the first time.           *)
(***************************************************************************)
Rewrites(k, G) ==
  \/ \E o \in DOMAIN group[k].leases : G = Expire(group[k], o)
  \/ \E o \in ExpiredOffsets(group[k]) : G = Redeliver(group[k], o)
  \/ \E o \in DOMAIN group[k].leases : G = Settle(group[k], o)
  \/ \E n \in Nat : /\ n = 0 \/ NextOffset(group[k]) + n <= Len(log[k[1]])
                    /\ G = LeaseNew(group[k], n)

GroupStep(k, G) ==
  /\ Rewrites(k, G)
  /\ group' = [group EXCEPT ![k] = G]
  /\ persisted' \in {persisted, [persisted EXCEPT ![k] = G.committed]}
  /\ UNCHANGED log

LogStep ==
  /\ UNCHANGED <<group, persisted>>
  /\ \/ UNCHANGED log
     \/ \E t \in Topics : \E e \in Entry : log' = [log EXCEPT ![t] = Append(log[t], e)]

StepForm ==
  \/ LogStep
  \/ \E k \in GroupKeys : \E G : GroupStep(k, G)
  \/ \E left, skipped : Crash(left, skipped)

\* Ack and the end of dead-lettering.
LEMMA SettleForm ==
  ASSUME Held, NEW k \in GroupKeys, NEW o \in DOMAIN group[k].leases,
         SaveGroup(k, Settle(group[k], o)), UNCHANGED log
  PROVE  StepForm
<1> DEFINE G == Settle(group[k], o)
<1>1. Rewrites(k, G)
  BY DEF Rewrites
<1>2. GroupStep(k, G)
  BY <1>1 DEF GroupStep, SaveGroup
<1> QED
  BY <1>2 DEF StepForm

\* The steps of a handler in Ack, Nack or Fetch.
LEMMA ClientForm ==
  ASSUME Held, NEW c \in Clients, ClientStep(c)
  PROVE  StepForm
<1>1. /\ Inv /\ HeldOK(c) /\ HandlerOK(c)
      /\ GroupTypeOK /\ ThreadTypeOK /\ WalTypeOK
  BY DEF Held, Inv, TypeOK
<1>2. CASE \/ GetOrCreateGroup(c) \/ FetchLock(c) \/ Enqueue(c) \/ Receive(c)
           \/ PollTimeout(c) \/ Unqueue(c)
  <2>1. UNCHANGED <<group, persisted, log>>
    BY <1>2 DEF GetOrCreateGroup, FetchLock, Enqueue, Receive, PollTimeout,
       Unqueue, walVars, groupVars
  <2> QED
    BY <2>1 DEF StepForm, LogStep
<1>3. CASE Ack(c)
  <2>1. PICK k \in GroupKeys : k = Key(c)
    BY <1>1, <1>3, KeyOK DEF Ack, GroupStates
  <2>2. CASE UNCHANGED groupVars
    BY <1>3, <2>2 DEF Ack, StepForm, LogStep, walVars, groupVars
  <2>3. CASE ~UNCHANGED groupVars
    <3>1. /\ req[c].offset \in DOMAIN group[k].leases
          /\ SaveGroup(k, Settle(group[k], req[c].offset))
          /\ UNCHANGED log
      BY <1>3, <2>1, <2>3 DEF Ack, walVars
    <3> QED
      BY <3>1, SettleForm
  <2> QED
    BY <2>2, <2>3
<1>4. CASE NackLease(c) \/ NackDispatch(c)
  <2>1. PICK k \in GroupKeys : k = Key(c)
    BY <1>1, <1>4, KeyOK DEF NackLease, NackDispatch, GroupStates
  <2>2. UNCHANGED <<log, persisted>>
    BY <1>4 DEF NackLease, NackDispatch, walVars
  <2>3. CASE UNCHANGED group
    BY <2>2, <2>3 DEF StepForm, LogStep
  <2>4. CASE NackLease(c) /\ ~UNCHANGED group
    <3> DEFINE G == Expire(group[k], req[c].offset)
    <3>1. /\ req[c].offset \in DOMAIN group[k].leases
          /\ group' = [group EXCEPT ![k] = G]
      BY <2>1, <2>4, <1>1 DEF NackLease, GroupTypeOK
    <3>2. Rewrites(k, G)
      BY <3>1 DEF Rewrites
    <3> QED
      BY <2>2, <3>1, <3>2 DEF StepForm, GroupStep
  <2>5. CASE NackDispatch(c) /\ ~UNCHANGED group
    <3> DEFINE G == Redeliver(group[k], req[c].offset)
    <3>1. /\ req[c].offset \in ExpiredOffsets(group[k])
          /\ group' = [group EXCEPT ![k] = G]
      BY <2>1, <2>5, <1>1 DEF NackDispatch, GroupTypeOK, HeldOK
    <3>2. Rewrites(k, G)
      BY <3>1 DEF Rewrites
    <3> QED
      BY <2>2, <3>1, <3>2 DEF StepForm, GroupStep
  <2> QED
    BY <1>4, <2>3, <2>4, <2>5
<1>5. CASE FetchExpired(c)
  <2>1. PICK k \in GroupKeys : k = Key(c)
    BY <1>1, <1>5, KeyOK DEF FetchExpired, GroupStates
  <2>2. UNCHANGED <<log, persisted>>
    BY <1>5 DEF FetchExpired, walVars
  <2>3. CASE UNCHANGED group
    BY <2>2, <2>3 DEF StepForm, LogStep
  <2>4. CASE ~UNCHANGED group
    <3> DEFINE o == First(todo[c])
               G == Redeliver(group[k], o)
    <3>1. o \in todo[c]
      BY <1>1, <1>5, FirstIsIn DEF FetchExpired, ThreadTypeOK
    <3>2. /\ o \in ExpiredOffsets(group[k])
          /\ group' = [group EXCEPT ![k] = G]
      BY <2>1, <2>4, <3>1, <1>1, <1>5 DEF FetchExpired, GroupTypeOK, HeldOK
    <3>3. Rewrites(k, G)
      BY <3>2 DEF Rewrites
    <3> QED
      BY <2>2, <3>2, <3>3 DEF StepForm, GroupStep
  <2> QED
    BY <2>3, <2>4
<1>6. ASSUME NEW n \in 0 .. NewCount(c), FetchNew(c, n)
      PROVE  StepForm
  <2>1. PICK k \in GroupKeys : k = Key(c)
    BY <1>1, <1>6, KeyOK DEF FetchNew, GroupStates
  <2>2. k[1] \in Topics /\ req[c].max \in Nat
    BY <1>1, <1>6, <2>1, KeyOK DEF FetchNew, GroupStates
  <2>3. n \in Nat /\ (n = 0 \/ NextOffset(group[k]) + n <= Len(log[k[1]]))
    <3>1. Len(log[k[1]]) \in Nat /\ Len(msgs[c]) \in Nat
      BY <1>1, <2>2 DEF WalTypeOK, ThreadTypeOK
    <3>2. NextOffset(group[k]) \in Nat
      BY <1>1, NextOffsetOfWindow DEF Inv, WindowOK, GroupTypeOK
    <3> QED
      BY <1>6, <2>1, <2>2, <3>1, <3>2 DEF NewCount, HasRoom
  <2> DEFINE G == LeaseNew(group[k], n)
  <2>4. group' = [group EXCEPT ![k] = G] /\ UNCHANGED <<log, persisted>>
    BY <1>1, <1>6, <2>1 DEF FetchNew, GroupTypeOK, walVars
  <2>5. Rewrites(k, G)
    BY <2>3 DEF Rewrites
  <2> QED
    BY <2>4, <2>5 DEF StepForm, GroupStep
<1> QED
  BY <1>2, <1>3, <1>4, <1>5, <1>6 DEF ClientStep, FetchNew

\* Produce's steps and the end of dead-lettering.
LEMMA ProduceForm ==
  ASSUME Held, NEW th \in Threads, ProduceStep(th)
  PROVE  StepForm
<1>1. Inv /\ DeadHeld(th) /\ GroupTypeOK /\ ThreadTypeOK /\ WalTypeOK
  BY DEF Held, Inv, TypeOK
<1>2. CASE CreateTopic(th) \/ Dispatch(th)
  BY <1>2 DEF CreateTopic, Dispatch, StepForm, LogStep, walVars, groupVars
<1>3. CASE WalAppend(th)
  <2>1. Target(th) \in Topics /\ Payload(th) \in Entry
    BY <1>1, <1>3, ProducerOK, PayloadOK DEF WalAppend, Producing
  <2>2. UNCHANGED <<group, persisted>>
    BY <1>3 DEF WalAppend, groupVars
  <2>3. \/ UNCHANGED log
        \/ log' = [log EXCEPT ![Target(th)] = Append(log[Target(th)], Payload(th))]
    BY <1>3 DEF WalAppend
  <2> QED
    BY <2>1, <2>2, <2>3 DEF StepForm, LogStep
<1>4. CASE SettleDead(th)
  <2>1. dead[th] # None
    BY <1>1, <1>4 DEF SettleDead, Inv, HandlerOK, ReaperOK, Producing, Threads
  <2>2. PICK k \in GroupKeys : k = dead[th][1]
    BY <1>1, <2>1 DEF ThreadTypeOK
  <2>3. dead[th][2] \in DOMAIN group[k].leases
    BY <1>1, <2>1, <2>2 DEF DeadHeld, ExpiredOffsets
  <2>4. SaveGroup(k, Settle(group[k], dead[th][2])) /\ UNCHANGED log
    BY <1>4, <2>2 DEF SettleDead, walVars
  <2> QED
    BY <2>3, <2>4, SettleForm
<1> QED
  BY <1>2, <1>3, <1>4 DEF ProduceStep

\* checkExpiredLeases.
LEMMA ReaperForm ==
  ASSUME Held, ReaperStep
  PROVE  StepForm
<1>1. Inv /\ GroupTypeOK
  BY DEF Held, Inv, TypeOK
<1>2. CASE Tick \/ \E t \in Topics : SweepTopic(t)
  BY <1>2 DEF Tick, SweepTopic, StepForm, LogStep, walVars, groupVars
<1>3. ASSUME NEW k \in GroupKeys, ReapGroup(k)
      PROVE  StepForm
  <2>1. UNCHANGED <<log, persisted>>
    BY <1>3 DEF ReapGroup, walVars
  <2>2. CASE UNCHANGED group
    BY <2>1, <2>2 DEF StepForm, LogStep
  <2>3. CASE ~UNCHANGED group
    <3> DEFINE o == First(ExpiredOffsets(group[k]))
               G == Redeliver(group[k], o)
    <3>1. ExpiredOffsets(group[k]) # {} /\ group' = [group EXCEPT ![k] = G]
      BY <1>1, <1>3, <2>3 DEF ReapGroup, GroupTypeOK
    <3>2. ExpiredOffsets(group[k]) \subseteq Nat
      BY <1>1 DEF GroupTypeOK, IsGroup, ExpiredOffsets
    <3>3. o \in ExpiredOffsets(group[k])
      BY <3>1, <3>2, FirstIsIn
    <3>4. Rewrites(k, G)
      BY <3>3 DEF Rewrites
    <3> QED
      BY <2>1, <3>1, <3>4 DEF StepForm, GroupStep
  <2> QED
    BY <2>2, <2>3
<1> QED
  BY <1>2, <1>3 DEF ReaperStep

\* Every step writes at most one log or rewrites one group, or is a crash.
LEMMA StepForms ==
  ASSUME Held, [Next]_vars
  PROVE  StepForm
<1>1. CASE UNCHANGED vars
  BY <1>1 DEF vars, walVars, groupVars, StepForm, LogStep
<1>2. ASSUME NEW c \in Clients, NEW r \in Requests[c], Begin(c, r)
      PROVE  StepForm
  BY <1>2 DEF Begin, walVars, groupVars, StepForm, LogStep
<1>3. ASSUME NEW k \in GroupKeys, NEW o \in DOMAIN group[k].leases, ExpireLease(k, o)
      PROVE  StepForm
  <2> DEFINE G == Expire(group[k], o)
  <2>1. group' = [group EXCEPT ![k] = G] /\ UNCHANGED <<log, persisted>>
    BY <1>3 DEF ExpireLease, walVars, Held, Inv, TypeOK, GroupTypeOK
  <2>2. Rewrites(k, G)
    BY DEF Rewrites
  <2> QED
    BY <2>1, <2>2 DEF StepForm, GroupStep
<1>4. CASE CloseStep \/ \E t \in Topics : Flush(t)
  BY <1>4 DEF CloseStep, CloseBegin, CloseLock, CloseTopic, CloseEnd, Flush,
     walVars, groupVars, StepForm, LogStep
<1>5. ASSUME NEW left \in [Topics -> UNION {disk[t] : t \in Topics}],
             NEW skipped \in SUBSET GroupKeys, Crash(left, skipped)
      PROVE  StepForm
  BY <1>5 DEF StepForm
<1> QED
  BY <1>1, <1>2, <1>3, <1>4, <1>5, ProduceForm, ClientForm, ReaperForm DEF Next

-----------------------------------------------------------------------------
(* What a goroutine knows under g.mu survives the steps of the others *)

\* A step leaves th its locks, and what th can rely on in a group it locked.
Respects(th) ==
  \A k \in GroupKeys : gmu[k] = th =>
    /\ gmu'[k] = th
    /\ Unsettled(group[k]) \subseteq Unsettled(group'[k])
    /\ \A o \in ExpiredOffsets(group[k]) :
         /\ o \in ExpiredOffsets(group'[k])
         /\ group'[k].leases[o].redeliveries = group[k].leases[o].redeliveries

\* A handler at rest keeps what it knows.
LEMMA HeldFrame ==
  ASSUME Inv, NEW c \in Clients, HeldOK(c), Respects(c),
         pc'[c] = pc[c], req'[c] = req[c], dead'[c] = dead[c], todo'[c] = todo[c]
  PROVE  HeldOK(c)'
<1>1. HandlerOK(c) /\ Key(c)' = Key(c)
  BY DEF Inv, Key
<1>2. CASE ~InFetch(c) /\ pc[c] # "nackDispatch"
  BY <1>1, <1>2 DEF HeldOK, InFetch, HandlerOK
<1>3. CASE InFetch(c) \/ pc[c] = "nackDispatch"
  <2>1. Key(c) \in GroupKeys /\ gmu[Key(c)] = c
    BY <1>1, <1>3, KeyOK DEF InFetch, GroupStates, HeldOK
  <2> QED
    BY <1>1, <2>1 DEF HeldOK, InFetch, Respects
<1> QED
  BY <1>2, <1>3

\* So is the answer it has put together so far.
LEMMA AnswerFrame ==
  ASSUME Inv, NEW c \in Clients, HeldOK(c), AnswerOK(c), Respects(c),
         pc'[c] = pc[c], req'[c] = req[c], dead'[c] = dead[c], todo'[c] = todo[c],
         msgs'[c] = msgs[c], Len(resp'[c]) <= 1
  PROVE  AnswerOK(c)'
<1>1. HandlerOK(c) /\ Key(c)' = Key(c)
  BY DEF Inv, Key
<1>2. CASE ~InFetch(c)
  BY <1>1, <1>2 DEF AnswerOK, InFetch
<1>3. CASE InFetch(c)
  <2>1. Key(c) \in GroupKeys /\ gmu[Key(c)] = c
    BY <1>1, <1>3, KeyOK DEF InFetch, GroupStates, HeldOK
  <2> QED
    BY <1>1, <1>3, <2>1 DEF AnswerOK, InFetch, Respects
<1> QED
  BY <1>2, <1>3

\* And the lease it dead-letters.
LEMMA DeadFrame ==
  ASSUME Inv, NEW th \in Threads, DeadHeld(th), Respects(th), dead'[th] = dead[th]
  PROVE  DeadHeld(th)'
<1> SUFFICES ASSUME dead[th] # None
             PROVE  /\ gmu'[dead[th][1]] = th
                    /\ dead[th][2] \in ExpiredOffsets(group'[dead[th][1]])
                    /\ Exhausted(dead[th][1], dead[th][2])'
  BY DEF DeadHeld
<1>1. dead[th][1] \in GroupKeys
  BY DEF Inv, TypeOK, ThreadTypeOK
<1> QED
  BY <1>1 DEF DeadHeld, Respects, Exhausted

\* A step of th that respects everyone else.
Others(th) ==
  /\ \A d \in Threads : d # th =>
       /\ Respects(d) /\ pc'[d] = pc[d] /\ dead'[d] = dead[d]
       /\ d \in Clients => req'[d] = req[d] /\ todo'[d] = todo[d] /\ msgs'[d] = msgs[d]
  /\ \A d \in Clients : Len(resp'[d]) <= 1

\* What is left to show of a step is what it does to its own goroutine.
LEMMA HeldStep ==
  ASSUME Held, Inv', SavedOK', NEW th \in Threads, Others(th),
         DeadHeld(th)', th \in Clients => HeldOK(th)' /\ AnswerOK(th)'
  PROVE  Held'
<1>1. ASSUME NEW c \in Clients
      PROVE  HeldOK(c)' /\ AnswerOK(c)'
  <2>1. CASE c = th
    BY <2>1
  <2>2. CASE c # th
    <3>1. c \in Threads /\ Inv /\ HeldOK(c) /\ AnswerOK(c)
      BY DEF Threads, Held
    <3>2. /\ Respects(c) /\ pc'[c] = pc[c] /\ dead'[c] = dead[c] /\ Len(resp'[c]) <= 1
          /\ req'[c] = req[c] /\ todo'[c] = todo[c] /\ msgs'[c] = msgs[c]
      BY <2>2, <3>1 DEF Others
    <3> QED
      BY <3>1, <3>2, HeldFrame, AnswerFrame
  <2> QED
    BY <2>1, <2>2
<1>2. ASSUME NEW d \in Threads
      PROVE  DeadHeld(d)'
  <2>1. CASE d # th
    BY <2>1, DeadFrame DEF Others, Held
  <2> QED
    BY <2>1
<1> QED
  BY <1>1, <1>2 DEF Held

\* The saved offset never runs ahead of the committed one.
LEMMA SavedStays ==
  ASSUME Held, [Next]_vars
  PROVE  SavedOK'
<1>1. Inv /\ SavedOK /\ GroupTypeOK
  BY DEF Held, Inv, TypeOK
<1>2. CASE LogStep
  BY <1>1, <1>2 DEF LogStep, SavedOK
<1>3. ASSUME NEW k \in GroupKeys, NEW G, GroupStep(k, G)
      PROVE  SavedOK'
  <2>1. IsGroup(group[k]) /\ WindowOK(k)
    BY <1>1 DEF Inv, GroupTypeOK
  <2>2. PICK n \in Nat : WindowTo(group[k], n)
    BY <2>1 DEF WindowOK
  <2>3. IsGroup(G) /\ group[k].committed <= G.committed
    <3>1. \A o : /\ IsGroup(Expire(group[k], o))
                 /\ Expire(group[k], o).committed = group[k].committed
      BY <2>1, ExpireKeeps
    <3>2. \A o : /\ IsGroup(Redeliver(group[k], o))
                 /\ Redeliver(group[k], o).committed = group[k].committed
      BY <2>1, RedeliverKeeps
    <3>3. \A o : /\ IsGroup(Settle(group[k], o))
                 /\ group[k].committed <= Settle(group[k], o).committed
      BY <2>1, <2>2, SettleKeeps
    <3>4. \A m \in Nat : /\ IsGroup(LeaseNew(group[k], m))
                         /\ LeaseNew(group[k], m).committed = group[k].committed
      BY <2>1, <2>2, LeaseNewKeeps
    <3>5. group[k].committed \in Nat
      BY <2>1 DEF IsGroup
    <3> QED
      BY <1>3, <3>1, <3>2, <3>3, <3>4, <3>5 DEF GroupStep, Rewrites
  <2>4. group'[k] = G /\ \A j \in GroupKeys : j # k => group'[j] = group[j]
    BY <1>1, <1>3, <2>3, GroupUpdate DEF GroupStep
  <2>5. /\ persisted'[k] \in {persisted[k], G.committed}
        /\ \A j \in GroupKeys : j # k => persisted'[j] = persisted[j]
    BY <1>1, <1>3 DEF GroupStep, GroupTypeOK
  <2> QED
    BY <1>1, <2>1, <2>3, <2>4, <2>5 DEF SavedOK, IsGroup, GroupTypeOK
<1>4. ASSUME NEW left, NEW skipped, Crash(left, skipped)
      PROVE  SavedOK'
  BY <1>1, <1>4 DEF Crash, LoadedGroup, SavedOK, GroupTypeOK
<1> QED
  BY <1>2, <1>3, <1>4, StepForms DEF StepForm

\* A step that changes neither a group nor a lock.
LEMMA RespectsSame ==
  ASSUME NEW d, UNCHANGED <<group, gmu>>
  PROVE  Respects(d)
BY DEF Respects

\* A step on a group that d has not locked.
LEMMA RespectsOther ==
  ASSUME Inv, NEW d, NEW k \in GroupKeys, gmu[k] # d,
         \A j \in GroupKeys : j # k => group'[j] = group[j] /\ gmu'[j] = gmu[j]
  PROVE  Respects(d)
BY DEF Respects

\* A handler starts, waits or answers; nothing else changes.
LEMMA QuietHeld ==
  ASSUME Held, Inv', SavedOK', NEW th \in Threads,
         UNCHANGED <<group, gmu, dead, todo>>,
         \A d \in Threads : d # th => pc'[d] = pc[d],
         \A d \in Clients : d # th => req'[d] = req[d] /\ msgs'[d] = msgs[d],
         \A d \in Clients : Len(resp'[d]) <= 1,
         th \in Clients =>
           /\ pc[th] # "fetchExpired"
           /\ pc'[th] \notin {"fetchExpired", "nackDispatch"}
           /\ \/ pc[th] # "idle" /\ req'[th] = req[th] /\ msgs'[th] = msgs[th]
              \/ /\ dead[th] = None /\ Len(msgs'[th]) <= 1
                 /\ msgs'[th] = <<>> \/ pc'[th] = "idle"
  PROVE  Held'
<1>1. \A d : Respects(d)
  BY RespectsSame
<1>2. Others(th)
  BY <1>1 DEF Others
<1>3. DeadHeld(th)'
  BY <1>1, DeadFrame DEF Held
<1>4. ASSUME th \in Clients
      PROVE  HeldOK(th)' /\ AnswerOK(th)'
  <2>1. /\ HeldOK(th) /\ AnswerOK(th) /\ HandlerOK(th)
        /\ dead'[th] = dead[th] /\ todo'[th] = todo[th]
        /\ msgs'[th] \in Seq(Nat)
    BY <1>4 DEF Held, Inv, TypeOK, ThreadTypeOK
  <2>2. CASE dead[th] = None
    <3>1. todo[th] = {} /\ msgs'[th] \in Seq(Nat)
      BY <1>4, <2>1, <2>2 DEF HandlerOK
    <3>2. HeldOK(th)'
      BY <1>4, <2>1, <2>2, <3>1 DEF HeldOK, InFetch
    <3>3. Len(msgs'[th]) <= 1 /\ (msgs'[th] = <<>> \/ pc'[th] = "idle")
      BY <1>4, <2>1, <2>2 DEF AnswerOK, InFetch
    <3>4. AnswerOK(th)'
      BY <1>4, <2>1, <2>2, <3>1, <3>3 DEF AnswerOK, InFetch
    <3> QED
      BY <3>2, <3>4
  <2>3. CASE dead[th] # None
    <3>1. Key(th)' = Key(th) /\ msgs'[th] = msgs[th]
      BY <1>4, <2>3 DEF Key
    <3> QED
      BY <1>4, <2>1, <2>3, <3>1 DEF HeldOK, AnswerOK, InFetch
  <2> QED
    BY <2>2, <2>3
<1> QED
  BY <1>2, <1>3, <1>4, HeldStep

\* A channel holds at most one answer.
LEMMA OneAnswer ==
  ASSUME Held
  PROVE  \A d \in Clients : Len(resp[d]) <= 1 /\ resp[d] \in Seq(Nat)
BY DEF Held, AnswerOK, Inv, TypeOK, SyncTypeOK

\* The steps of a handler that holds no lock.
LEMMA HandlerHeld ==
  ASSUME Held, Inv', SavedOK', NEW c \in Clients,
         \/ \E r \in Requests[c] : Begin(c, r)
         \/ GetOrCreateGroup(c) \/ Enqueue(c) \/ Receive(c) \/ PollTimeout(c)
         \/ Unqueue(c)
  PROVE  Held'
<1> USE DEF Begin, GetOrCreateGroup, Enqueue, Receive, PollTimeout, Unqueue
<1>1. UNCHANGED <<group, gmu, dead, todo>>
  BY DEF groupVars, lockVars
<1>2. pc[c] \notin Producing /\ pc[c] # "fetchExpired" /\ c \in Threads
  BY DEF Producing, Threads
<1>3. dead[c] = None /\ ThreadTypeOK /\ SyncTypeOK /\ HandlerOK(c)
  BY <1>2, NotDead DEF Held, Inv, TypeOK
<1>4. PICK l : Goto(c, l) /\ l \notin {"fetchExpired", "nackDispatch"}
  <2>1. CASE GetOrCreateGroup(c)
    <3>1. req[c].op \in {"fetch", "ack", "nack"}
      BY <1>3, <2>1 DEF HandlerOK, GroupStates, GroupOps
    <3>2. Goto(c, "idle") \/ Goto(c, req[c].op)
      BY <2>1 DEF Return
    <3> QED
      BY <3>1, <3>2
  <2>2. CASE ~GetOrCreateGroup(c)
    <3>1. \/ Goto(c, "group") \/ Goto(c, "create") \/ Goto(c, "idle")
          \/ Goto(c, "wait") \/ Goto(c, "unqueue")
      BY <2>2 DEF Return
    <3> QED
      BY <3>1
  <2> QED
    BY <2>1, <2>2
<1>5. pc'[c] = l /\ \A d \in Threads : d # c => pc'[d] = pc[d]
  BY <1>2, <1>4, GotoMoves DEF Held
<1>6. \A d \in Clients : d # c => req'[d] = req[d] /\ msgs'[d] = msgs[d]
  BY <1>3 DEF Return, reqVars, ThreadTypeOK
<1>7. \A d \in Clients : Len(resp'[d]) <= 1
  <2>1. resp' = resp \/ resp' = [resp EXCEPT ![c] = <<>>]
    BY DEF queueVars
  <2> QED
    BY <1>3, <2>1, OneAnswer DEF SyncTypeOK
<1>8. \/ pc[c] # "idle" /\ req'[c] = req[c] /\ msgs'[c] = msgs[c]
      \/ Len(msgs'[c]) <= 1 /\ (msgs'[c] = <<>> \/ pc'[c] = "idle")
  <2>1. CASE \E r \in Requests[c] : Begin(c, r)
    BY <1>3, <2>1 DEF ThreadTypeOK
  <2>2. CASE Return(c, <<>>)
    BY <1>3, <2>2, SMTT(30) DEF Return, ThreadTypeOK
  <2>3. CASE Return(c, resp[c])
    BY <1>3, <2>3, OneAnswer DEF Return, Goto, ThreadTypeOK, Threads
  <2>4. CASE pc[c] # "idle" /\ UNCHANGED reqVars
    BY <2>4 DEF reqVars
  <2> QED
    BY <2>1, <2>2, <2>3, <2>4
<1> QED
  BY <1>1, <1>2, <1>3, <1>4, <1>5, <1>6, <1>7, <1>8, QuietHeld

\* Produce's steps.
LEMMA ProduceHeld ==
  ASSUME Held, Inv', SavedOK', NEW th \in Threads,
         CreateTopic(th) \/ WalAppend(th) \/ Dispatch(th)
  PROVE  Held'
<1> USE DEF CreateTopic, WalAppend, Dispatch
<1>1. UNCHANGED <<group, gmu, dead, todo, resp>>
  BY DEF groupVars, lockVars, queueVars
<1>2. pc[th] \in Producing /\ pc[th] \notin {"idle", "fetchExpired"}
  BY DEF Producing
<1>3. Inv /\ ThreadTypeOK /\ (dead[th] = None => th \in Clients)
  BY <1>2, ProducerOK DEF Held, Inv, TypeOK
<1>4. PICK l : Goto(th, l) /\ l \notin {"fetchExpired", "nackDispatch"}
  BY DEF Return, EndProduce
<1>5. pc'[th] = l /\ \A d \in Threads : d # th => pc'[d] = pc[d]
  BY <1>3, <1>4, GotoMoves
<1>6. UNCHANGED reqVars \/ (dead[th] = None /\ Return(th, <<>>))
  BY DEF EndProduce
<1>7. \A d \in Clients : d # th => req'[d] = req[d] /\ msgs'[d] = msgs[d]
  BY <1>3, <1>6 DEF Return, reqVars, ThreadTypeOK
<1>8. th \in Clients => \/ pc[th] # "idle" /\ req'[th] = req[th] /\ msgs'[th] = msgs[th]
                        \/ dead[th] = None /\ msgs'[th] = <<>>
  BY <1>2, <1>3, <1>6 DEF Return, reqVars, ThreadTypeOK
<1> QED
  BY <1>1, <1>2, <1>4, <1>5, <1>7, <1>8, OneAnswer, QuietHeld

\* Steps of the expiry loop outside a group, of Close and of the flush loop.
LEMMA LoopHeld ==
  ASSUME Held, Inv', SavedOK',
         \/ Tick \/ (\E t \in Topics : SweepTopic(t)) \/ CloseStep
         \/ \E t \in Topics : Flush(t)
  PROVE  Held'
<1> USE DEF Tick, SweepTopic, CloseStep, CloseBegin, CloseLock, CloseTopic, CloseEnd, Flush
<1>1. UNCHANGED <<group, gmu, dead, todo, resp, req, msgs>>
  BY DEF groupVars, lockVars, queueVars, reqVars
<1>2. UNCHANGED pc \/ \E l : Goto(Reaper, l)
  OBVIOUS
<1>3. Reaper \in Threads /\ Reaper \notin Clients
  BY ConstantsOK DEF Threads
<1>4. \A d \in Threads : d # Reaper => pc'[d] = pc[d]
  BY <1>2, <1>3, GotoMoves DEF Held
<1> QED
  BY <1>1, <1>3, <1>4, OneAnswer, QuietHeld

-----------------------------------------------------------------------------
(* The steps under g.mu *)

\* A step of th on a group that nobody else has locked.
LEMMA OthersOn ==
  ASSUME Held, NEW th \in Threads, NEW k \in GroupKeys, gmu[k] \in {None, th},
         \A j \in GroupKeys : j # k => group'[j] = group[j] /\ gmu'[j] = gmu[j],
         \A d \in Threads : d # th => pc'[d] = pc[d] /\ dead'[d] = dead[d],
         \A d \in Clients : d # th => /\ req'[d] = req[d] /\ todo'[d] = todo[d]
                                     /\ msgs'[d] = msgs[d],
         \A d \in Clients : Len(resp'[d]) <= 1
  PROVE  Others(th)
<1>1. ASSUME NEW d \in Threads, d # th
      PROVE  Respects(d)
  <2>1. gmu[k] # d
    BY <1>1, ConstantsOK
  <2> QED
    BY <2>1, RespectsOther DEF Held
<1> QED
  BY <1>1 DEF Others

\* A handler that left its group's critical section knows nothing.
LEMMA OutOfGroup ==
  ASSUME NEW c \in Clients, dead'[c] = None, todo'[c] = {},
         pc'[c] \notin {"fetchExpired", "nackDispatch"},
         pc'[c] = "idle" \/ msgs'[c] = <<>>,
         \A i, j \in 1 .. Len(msgs'[c]) : i < j => msgs'[c][i] < msgs'[c][j],
         Len(resp'[c]) <= 1
  PROVE  HeldOK(c)' /\ AnswerOK(c)' /\ DeadHeld(c)'
BY DEF HeldOK, AnswerOK, DeadHeld, InFetch

\* The handler answers with nothing.
LEMMA ReturnNothing ==
  ASSUME Inv, NEW c \in Clients, Return(c, <<>>)
  PROVE  /\ pc'[c] = "idle" /\ msgs'[c] = <<>>
         /\ \A d \in Threads : d # c => pc'[d] = pc[d]
         /\ \A d \in Clients : d # c => req'[d] = req[d] /\ msgs'[d] = msgs[d]
<1>1. c \in Threads
  BY DEF Threads
<1> QED
  BY <1>1, GotoMoves DEF Return, Inv, TypeOK, ThreadTypeOK

\* First of a set of offsets comes before the others.
LEMMA FirstIsLeast ==
  ASSUME NEW S, S \subseteq Nat, S # {}
  PROVE  First(S) \in S /\ \A p \in S : First(S) <= p
BY LeastNatural DEF First

\* What a handler outside fetchAvailable has gathered.
LEMMA NothingGathered ==
  ASSUME Held, NEW c \in Clients, pc[c] \in GroupStates \ {"fetchExpired"}
  PROVE  /\ c \in Threads /\ dead[c] = None /\ todo[c] = {} /\ msgs[c] = <<>>
         /\ Key(c) \in GroupKeys
<1>1. Inv /\ HandlerOK(c) /\ AnswerOK(c)
  BY DEF Held, Inv
<1>2. dead[c] = None /\ c \in Threads
  BY <1>1, NotDead DEF GroupStates, Producing
<1> QED
  BY <1>1, <1>2, KeyOK DEF HandlerOK, AnswerOK, InFetch, GroupStates

\* Ack settles a lease of a group that nobody has locked.
LEMMA AckHeld ==
  ASSUME Held, Inv', SavedOK', NEW c \in Clients, Ack(c)
  PROVE  Held'
<1>1. c \in Threads /\ dead[c] = None /\ todo[c] = {}
  BY NothingGathered DEF Ack, GroupStates
<1>2. PICK k \in GroupKeys : k = Key(c)
  BY NothingGathered DEF Ack, GroupStates
<1>3. /\ gmu[k] = None /\ UNCHANGED <<gmu, dead, todo, resp>>
      /\ Return(c, <<>>)
  BY <1>2 DEF Ack, lockVars, queueVars
<1>4. \A j \in GroupKeys : j # k => group'[j] = group[j]
  BY <1>2 DEF Ack, SaveGroup, groupVars, Held, Inv, TypeOK, GroupTypeOK
<1>5. /\ pc'[c] = "idle" /\ msgs'[c] = <<>>
      /\ \A d \in Threads : d # c => pc'[d] = pc[d]
      /\ \A d \in Clients : d # c => req'[d] = req[d] /\ msgs'[d] = msgs[d]
  BY <1>3, ReturnNothing DEF Held
<1>6. Others(c)
  BY <1>1, <1>3, <1>4, <1>5, OneAnswer, OthersOn
<1>7. HeldOK(c)' /\ AnswerOK(c)' /\ DeadHeld(c)'
  BY <1>1, <1>3, <1>5, OneAnswer, OutOfGroup
<1> QED
  BY <1>1, <1>6, <1>7, HeldStep

\* Nack expires the lease and keeps the lock.
LEMMA NackLeaseHeld ==
  ASSUME Held, Inv', SavedOK', NEW c \in Clients, NackLease(c)
  PROVE  Held'
<1>1. c \in Threads /\ dead[c] = None /\ todo[c] = {} /\ msgs[c] = <<>>
  BY NothingGathered DEF NackLease, GroupStates
<1>2. PICK k \in GroupKeys : k = Key(c)
  BY NothingGathered DEF NackLease, GroupStates
<1>3. gmu[k] = None /\ UNCHANGED <<dead, todo, resp>>
  BY <1>2 DEF NackLease, queueVars
<1>4. Inv /\ IsGroup(group[k]) /\ GroupTypeOK /\ SyncTypeOK /\ ThreadTypeOK
  BY DEF Held, Inv, TypeOK, GroupTypeOK
<1>5. CASE Return(c, <<>>) /\ UNCHANGED <<group, gmu>>
  <2>1. /\ pc'[c] = "idle" /\ msgs'[c] = <<>>
        /\ \A d \in Threads : d # c => pc'[d] = pc[d]
        /\ \A d \in Clients : d # c => req'[d] = req[d] /\ msgs'[d] = msgs[d]
    BY <1>4, <1>5, ReturnNothing
  <2>2. Others(c)
    BY <1>1, <1>3, <1>5, <2>1, OneAnswer, OthersOn
  <2>3. HeldOK(c)' /\ AnswerOK(c)' /\ DeadHeld(c)'
    BY <1>1, <1>3, <2>1, OneAnswer, OutOfGroup
  <2> QED
    BY <1>1, <2>2, <2>3, HeldStep
<1>6. CASE ~(Return(c, <<>>) /\ UNCHANGED <<group, gmu>>)
  <2> DEFINE o == req[c].offset
             G == Expire(group[k], o)
  <2>1. /\ o \in DOMAIN group[k].leases /\ ~IsAcked(group[k], o)
        /\ group' = [group EXCEPT ![k] = G]
        /\ gmu' = [gmu EXCEPT ![k] = c]
        /\ Goto(c, "nackDispatch") /\ UNCHANGED reqVars
    BY <1>2, <1>4, <1>6 DEF NackLease, GroupTypeOK
  <2>2. o \in ExpiredOffsets(G)
    BY <1>4, <2>1, ExpireLeases DEF Unsettled, IsAcked
  <2>3. /\ group'[k] = G /\ gmu'[k] = c
        /\ \A j \in GroupKeys : j # k => group'[j] = group[j] /\ gmu'[j] = gmu[j]
    BY <1>4, <2>1 DEF GroupTypeOK, SyncTypeOK
  <2>4. /\ pc'[c] = "nackDispatch" /\ UNCHANGED <<req, msgs>>
        /\ \A d \in Threads : d # c => pc'[d] = pc[d]
    BY <1>1, <1>4, <2>1, GotoMoves DEF reqVars
  <2>5. Others(c)
    BY <1>1, <1>3, <2>3, <2>4, OneAnswer, OthersOn
  <2>6. Key(c)' = k
    BY <1>2, <2>4 DEF Key
  <2> HIDE DEF G
  <2>7. HeldOK(c)' /\ AnswerOK(c)' /\ DeadHeld(c)'
    BY <1>1, <1>3, <2>2, <2>3, <2>4, <2>6, OneAnswer DEF HeldOK, AnswerOK,
       DeadHeld, InFetch
  <2> QED
    BY <1>1, <2>5, <2>7, HeldStep
<1> QED
  BY <1>5, <1>6

\* A send fills a channel that was empty, and only that one.
LEMMA SendOne ==
  ASSUME Held, NEW c \in Clients, NEW o, Send(c, o)
  PROVE  \A d \in Clients : Len(resp'[d]) <= 1
<1>1. resp' = resp \/ resp' = [resp EXCEPT ![c] = <<o>>]
  BY DEF Send
<1>2. \A d \in Clients : resp'[d] = resp[d] \/ resp'[d] = <<o>>
  BY <1>1 DEF Held, Inv, TypeOK, SyncTypeOK
<1>3. ASSUME NEW d \in Clients
      PROVE  Len(resp'[d]) <= 1
  <2>1. CASE resp'[d] = resp[d]
    BY <2>1, OneAnswer
  <2>2. CASE resp'[d] = <<o>>
    BY <2>2
  <2> QED
    BY <1>2, <2>1, <2>2
<1> QED
  BY <1>3

\* The second half of Nack gives the lock back.
LEMMA NackDispatchHeld ==
  ASSUME Held, Inv', SavedOK', NEW c \in Clients, NackDispatch(c)
  PROVE  Held'
<1>1. c \in Threads /\ dead[c] = None /\ todo[c] = {}
  BY NothingGathered DEF NackDispatch, GroupStates
<1>2. PICK k \in GroupKeys : k = Key(c)
  BY NothingGathered DEF NackDispatch, GroupStates
<1>3. /\ gmu[k] = c /\ gmu' = [gmu EXCEPT ![k] = None]
      /\ UNCHANGED <<dead, todo>> /\ Return(c, <<>>)
  BY <1>2 DEF NackDispatch, Held, HeldOK
<1>4. Inv /\ GroupTypeOK /\ SyncTypeOK
  BY DEF Held, Inv, TypeOK
<1>5. /\ \A j \in GroupKeys : j # k => group'[j] = group[j] /\ gmu'[j] = gmu[j]
  BY <1>2, <1>3, <1>4 DEF NackDispatch, GroupTypeOK, SyncTypeOK
<1>6. \A d \in Clients : Len(resp'[d]) <= 1
  <2>1. CASE UNCHANGED resp
    BY <2>1, OneAnswer
  <2>2. CASE ~UNCHANGED resp
    <3>1. pending[k] # <<>> /\ Send(Head(pending[k]), req[c].offset)
      BY <1>2, <2>2 DEF NackDispatch, queueVars
    <3>2. Head(pending[k]) \in Clients
      BY <1>4, <3>1 DEF SyncTypeOK
    <3> QED
      BY <3>1, <3>2, SendOne
  <2> QED
    BY <2>1, <2>2
<1>7. /\ pc'[c] = "idle" /\ msgs'[c] = <<>>
      /\ \A d \in Threads : d # c => pc'[d] = pc[d]
      /\ \A d \in Clients : d # c => req'[d] = req[d] /\ msgs'[d] = msgs[d]
  BY <1>3, <1>4, ReturnNothing
<1>8. Others(c)
  BY <1>1, <1>3, <1>5, <1>6, <1>7, OthersOn
<1>9. HeldOK(c)' /\ AnswerOK(c)' /\ DeadHeld(c)'
  BY <1>1, <1>3, <1>6, <1>7, OutOfGroup
<1> QED
  BY <1>1, <1>8, <1>9, HeldStep

\* fetchAvailable takes the lock and collects the expired offsets.
LEMMA FetchLockHeld ==
  ASSUME Held, Inv', SavedOK', NEW c \in Clients, FetchLock(c)
  PROVE  Held'
<1>1. c \in Threads /\ dead[c] = None /\ msgs[c] = <<>>
  BY NothingGathered DEF FetchLock, GroupStates
<1>2. PICK k \in GroupKeys : k = Key(c)
  BY NothingGathered DEF FetchLock, GroupStates
<1>3. /\ gmu[k] = None /\ gmu' = [gmu EXCEPT ![k] = c]
      /\ todo' = [todo EXCEPT ![c] = ExpiredOffsets(group[k])]
      /\ Goto(c, "fetchExpired")
      /\ UNCHANGED <<group, dead, resp, req, msgs>>
  BY <1>2 DEF FetchLock, groupVars, queueVars, reqVars
<1>4. Inv /\ SyncTypeOK /\ ThreadTypeOK
  BY DEF Held, Inv, TypeOK
<1>5. gmu'[k] = c /\ \A j \in GroupKeys : j # k => group'[j] = group[j] /\ gmu'[j] = gmu[j]
  BY <1>3, <1>4 DEF SyncTypeOK
<1>6. /\ pc'[c] = "fetchExpired"
      /\ \A d \in Threads : d # c => pc'[d] = pc[d]
  BY <1>1, <1>3, <1>4, GotoMoves
<1>7. /\ todo'[c] = ExpiredOffsets(group[k])
      /\ \A d \in Clients : d # c => todo'[d] = todo[d]
  BY <1>3, <1>4 DEF ThreadTypeOK
<1>8. Others(c)
  BY <1>1, <1>3, <1>5, <1>6, <1>7, OneAnswer, OthersOn
<1>9. Key(c)' = k
  BY <1>2, <1>3 DEF Key
<1>10. HeldOK(c)' /\ AnswerOK(c)' /\ DeadHeld(c)'
  BY <1>1, <1>3, <1>5, <1>6, <1>7, <1>9, OneAnswer DEF HeldOK, AnswerOK,
     DeadHeld, InFetch
<1> QED
  BY <1>1, <1>8, <1>10, HeldStep

\* fetchAvailable visits an expired lease.
LEMMA FetchExpiredHeld ==
  ASSUME Held, Inv', SavedOK', NEW c \in Clients, FetchExpired(c)
  PROVE  Held'
<1>1. /\ Inv /\ HandlerOK(c) /\ HeldOK(c) /\ AnswerOK(c)
      /\ GroupTypeOK /\ SyncTypeOK /\ ThreadTypeOK
  BY DEF Held, Inv, TypeOK
<1>2. c \in Threads /\ dead[c] = None /\ pc[c] = "fetchExpired"
  BY <1>1, NotDead DEF FetchExpired, Producing
<1>3. PICK k \in GroupKeys : k = Key(c)
  BY <1>1, <1>2, KeyOK DEF GroupStates
<1>4. PICK o : o = First(todo[c])
  OBVIOUS
<1>5. o \in todo[c] /\ (\A p \in todo[c] : o <= p) /\ todo[c] \subseteq Nat
  BY <1>1, <1>4, FirstIsLeast DEF FetchExpired, ThreadTypeOK
<1>6. gmu[k] = c /\ \A p \in todo[c] : p \in ExpiredOffsets(group[k])
  BY <1>1, <1>2, <1>3 DEF HeldOK, InFetch
<1>7. UNCHANGED <<gmu, resp, req>> /\ IsGroup(group[k])
  BY <1>1 DEF FetchExpired, lockVars, queueVars, GroupTypeOK
<1>8. Key(c)' = k
  BY <1>3, <1>7 DEF Key
<1>9. /\ \A i \in 1 .. Len(msgs[c]) :
           /\ msgs[c][i] \in Unsettled(group[k])
           /\ \A p \in todo[c] : msgs[c][i] < p
      /\ \A i, j \in 1 .. Len(msgs[c]) : i < j => msgs[c][i] < msgs[c][j]
      /\ msgs[c] \in Seq(Nat)
  BY <1>1, <1>2, <1>3 DEF AnswerOK, InFetch, ThreadTypeOK
<1>10. CASE Exhausted(k, o)
  <2>1. /\ dead' = [dead EXCEPT ![c] = <<k, o>>] /\ UNCHANGED <<group, msgs, todo>>
        /\ \E l : Goto(c, l) /\ l \in {"create", "settle"}
    BY <1>3, <1>4, <1>10 DEF FetchExpired
  <2>2. /\ pc'[c] \in {"create", "settle"}
        /\ \A d \in Threads : d # c => pc'[d] = pc[d]
    BY <1>1, <1>2, <2>1, GotoMoves
  <2>3. dead'[c] = <<k, o>> /\ \A d \in Threads : d # c => dead'[d] = dead[d]
    BY <1>1, <1>2, <2>1 DEF ThreadTypeOK
  <2>4. Others(c)
    BY <1>2, <1>6, <1>7, <2>1, <2>2, <2>3, OneAnswer, OthersOn
  <2>5. <<k, o>> # None /\ <<k, o>>[1] = k /\ <<k, o>>[2] = o
    BY <1>5, ConstantsOK
  <2>6. DeadHeld(c)'
    BY <1>5, <1>6, <1>7, <1>10, <2>1, <2>3, <2>5 DEF DeadHeld, Exhausted
  <2>7. HeldOK(c)'
    BY <1>5, <1>6, <1>7, <1>8, <2>1, <2>2, <2>3, <2>5 DEF HeldOK, InFetch
  <2>8. AnswerOK(c)'
    BY <1>7, <1>8, <1>9, <2>1, <2>3, <2>5, OneAnswer DEF AnswerOK, InFetch
  <2> QED
    BY <1>2, <2>4, <2>6, <2>7, <2>8, HeldStep
<1>11. CASE ~Exhausted(k, o)
  <2>1. /\ todo' = [todo EXCEPT ![c] = todo[c] \ {o}]
        /\ UNCHANGED <<pc, dead>>
        /\ \/ UNCHANGED <<group, msgs>>
           \/ /\ group' = [group EXCEPT ![k] = Redeliver(group[k], o)]
              /\ msgs' = [msgs EXCEPT ![c] = Append(msgs[c], o)]
    BY <1>1, <1>3, <1>4, <1>11 DEF FetchExpired, GroupTypeOK, ThreadTypeOK
  <2>2. /\ todo'[c] = todo[c] \ {o}
        /\ \A d \in Clients : d # c => todo'[d] = todo[d] /\ msgs'[d] = msgs[d]
    BY <1>1, <2>1 DEF ThreadTypeOK
  <2>3. \A j \in GroupKeys : j # k => group'[j] = group[j]
    BY <1>1, <2>1 DEF GroupTypeOK
  <2>4. Others(c)
    BY <1>2, <1>6, <1>7, <2>1, <2>2, <2>3, OneAnswer, OthersOn
  <2>5. DeadHeld(c)'
    BY <1>2, <2>1 DEF DeadHeld
  <2>6. /\ ExpiredOffsets(group[k]) \ {o} \subseteq ExpiredOffsets(group'[k])
        /\ Unsettled(group'[k]) = Unsettled(group[k])
    <3>1. group'[k] = group[k] \/ group'[k] = Redeliver(group[k], o)
      BY <1>1, <2>1 DEF GroupTypeOK
    <3> QED
      BY <1>7, <3>1, RedeliverLeases
  <2>7. HeldOK(c)'
    BY <1>2, <1>6, <1>7, <1>8, <2>1, <2>2, <2>6 DEF HeldOK, InFetch
  <2>8. AnswerOK(c)'
    <3>1. o \in Unsettled(group[k]) /\ o \in Nat
      BY <1>5, <1>6 DEF ExpiredOffsets, Unsettled
    <3>2. CASE msgs'[c] = msgs[c]
      BY <1>2, <1>7, <1>8, <1>9, <2>1, <2>2, <2>6, <3>2, OneAnswer
         DEF AnswerOK, InFetch
    <3>3. CASE msgs'[c] = Append(msgs[c], o)
      <4>1. Len(msgs'[c]) = Len(msgs[c]) + 1 /\ Len(msgs[c]) \in Nat
        BY <1>9, <3>3, <3>1
      <4>2. /\ \A i \in 1 .. Len(msgs[c]) : msgs'[c][i] = msgs[c][i] /\ msgs[c][i] \in Nat
            /\ msgs'[c][Len(msgs[c]) + 1] = o
        BY <1>9, <3>3, <3>1
      <4>3. ASSUME NEW i \in 1 .. Len(msgs'[c])
            PROVE  /\ msgs'[c][i] \in Unsettled(group'[k])
                   /\ \A p \in todo'[c] : msgs'[c][i] < p
        <5>1. CASE i \in 1 .. Len(msgs[c])
          BY <1>9, <2>2, <2>6, <4>2, <5>1
        <5>2. CASE i = Len(msgs[c]) + 1
          <6>1. \A p \in todo[c] \ {o} : o < p
            BY <1>5, <3>1
          <6> QED
            BY <2>2, <2>6, <3>1, <4>2, <5>2, <6>1
        <5> QED
          BY <4>1, <5>1, <5>2
      <4>4. ASSUME NEW i \in 1 .. Len(msgs'[c]), NEW j \in 1 .. Len(msgs'[c]), i < j
            PROVE  msgs'[c][i] < msgs'[c][j]
        <5>1. i \in 1 .. Len(msgs[c])
          BY <4>1, <4>4
        <5>2. CASE j \in 1 .. Len(msgs[c])
          BY <1>9, <4>2, <4>4, <5>1, <5>2
        <5>3. CASE j = Len(msgs[c]) + 1
          BY <1>5, <1>9, <4>2, <5>1, <5>3
        <5> QED
          BY <4>1, <5>2, <5>3
      <4> QED
        BY <1>2, <1>7, <1>8, <2>1, <4>3, <4>4, OneAnswer DEF AnswerOK, InFetch
    <3>4. msgs'[c] \in {msgs[c], Append(msgs[c], o)}
      BY <1>1, <2>1 DEF ThreadTypeOK
    <3> QED
      BY <3>2, <3>3, <3>4
  <2> QED
    BY <1>2, <2>4, <2>5, <2>7, <2>8, HeldStep
<1> QED
  BY <1>10, <1>11

\* The new records follow every message gathered before.
LEMMA FoundAscends ==
  ASSUME NEW s \in Seq(Nat), NEW m \in Nat, NEW n \in Nat, NEW f \in Seq(Nat),
         Len(f) = n, \A i \in 1 .. n : f[i] = m + i - 1,
         \A i, j \in 1 .. Len(s) : i < j => s[i] < s[j],
         \A i \in 1 .. Len(s) : s[i] < m
  PROVE  /\ \A i, j \in 1 .. Len(s \o f) : i < j => (s \o f)[i] < (s \o f)[j]
         /\ s \o f = <<>> => s = <<>>
<1> DEFINE t == s \o f
<1>4. /\ Len(t) = Len(s) + n /\ Len(s) \in Nat
      /\ \A i \in 1 .. Len(s) : t[i] = s[i] /\ s[i] \in Nat
      /\ \A i \in (Len(s) + 1) .. Len(t) : t[i] = f[i - Len(s)]
  <2>0. Len(t) = Len(s) + Len(f)
    BY ConcatProperties, Zenon
  <2>1. Len(t) = Len(s) + n /\ Len(s) \in Nat
    BY <2>0
  <2>2. \A i \in 1 .. Len(s) + Len(f) :
          t[i] = IF i <= Len(s) THEN s[i] ELSE f[i - Len(s)]
    BY ConcatProperties, Zenon
  <2> HIDE DEF t
  <2>3. \A i \in 1 .. Len(s) : t[i] = s[i] /\ s[i] \in Nat
    BY <2>1, <2>2
  <2>4. ASSUME NEW i \in (Len(s) + 1) .. Len(t)
        PROVE  t[i] = f[i - Len(s)]
    <3>1. i \in 1 .. Len(s) + Len(f) /\ ~(i <= Len(s))
      BY <2>1
    <3> QED
      BY <2>2, <3>1, Zenon
  <2> QED
    BY <2>1, <2>3, <2>4
<1> HIDE DEF t
<1>5. \A i \in (Len(s) + 1) .. Len(t) : t[i] = m + (i - Len(s)) - 1
  BY <1>4
<1>6. ASSUME NEW i \in 1 .. Len(t), NEW j \in 1 .. Len(t), i < j
      PROVE  t[i] < t[j]
  <2>1. CASE j \in 1 .. Len(s)
    <3>1. i \in 1 .. Len(s)
      BY <1>6, <2>1
    <3>2. s[i] < s[j]
      BY <1>6, <2>1, <3>1, Zenon
    <3> QED
      BY <1>4, <2>1, <3>1, <3>2
  <2>2. CASE i \in 1 .. Len(s) /\ j \in (Len(s) + 1) .. Len(t)
    <3>1. s[i] < m /\ s[i] \in Nat /\ t[i] = s[i]
      BY <1>4, <2>2, Zenon
    <3>2. t[j] = m + (j - Len(s)) - 1
      BY <1>5, <2>2, Zenon
    <3> QED
      BY <1>4, <2>2, <3>1, <3>2, SMTT(30)
  <2>3. CASE i \in (Len(s) + 1) .. Len(t) /\ j \in (Len(s) + 1) .. Len(t)
    BY <1>4, <1>5, <1>6, <2>3
  <2> QED
    BY <1>4, <1>6, <2>1, <2>2, <2>3
<1>7. ASSUME t = <<>>
      PROVE  s = <<>>
  BY <1>4, <1>7
<1> QED
  BY <1>6, <1>7 DEF t

\* The end of fetchAvailable gives the lock back.
LEMMA FetchNewHeld ==
  ASSUME Held, Inv', SavedOK', NEW c \in Clients, NEW n \in 0 .. NewCount(c), FetchNew(c, n)
  PROVE  Held'
<1>1. /\ Inv /\ HandlerOK(c) /\ HeldOK(c) /\ AnswerOK(c)
      /\ GroupTypeOK /\ SyncTypeOK /\ ThreadTypeOK
  BY DEF Held, Inv, TypeOK
<1>2. c \in Threads /\ dead[c] = None /\ pc[c] = "fetchExpired" /\ n \in Nat
  BY <1>1, NotDead DEF FetchNew, Producing
<1>3. PICK k \in GroupKeys : k = Key(c)
  BY <1>1, <1>2, KeyOK DEF GroupStates
<1>4. PICK m \in Nat : WindowTo(group[k], m)
  BY <1>1 DEF Inv, WindowOK
<1>5. NextOffset(group[k]) = m
  BY <1>1, <1>4, NextOffsetOfWindow DEF GroupTypeOK
<1>6. PICK found, fresh : /\ fresh = [i \in 1 .. n |-> m + i - 1]
                          /\ found = msgs[c] \o fresh
  OBVIOUS
<1>7. /\ gmu[k] = c /\ gmu' = [gmu EXCEPT ![k] = None]
      /\ todo' = [todo EXCEPT ![c] = {}]
      /\ UNCHANGED <<dead, resp>>
      /\ \/ found = <<>> /\ Goto(c, "enqueue") /\ UNCHANGED <<req, msgs>>
         \/ Return(c, found)
  BY <1>1, <1>2, <1>3, <1>5, <1>6 DEF FetchNew, HeldOK, InFetch, queueVars, reqVars
<1>8. \A j \in GroupKeys : j # k => group'[j] = group[j] /\ gmu'[j] = gmu[j]
  BY <1>1, <1>3, <1>7 DEF FetchNew, GroupTypeOK, SyncTypeOK
<1>9. todo'[c] = {} /\ \A d \in Clients : d # c => todo'[d] = todo[d]
  BY <1>1, <1>7 DEF ThreadTypeOK
<1>10. /\ \A i, j \in 1 .. Len(found) : i < j => found[i] < found[j]
       /\ found = <<>> => msgs[c] = <<>>
  <2>1. \A i \in 1 .. Len(msgs[c]) : msgs[c][i] \in Unsettled(group[k])
    BY <1>1, <1>2, <1>3 DEF AnswerOK, InFetch
  <2>2. \A o \in Unsettled(group[k]) : o < m
    BY <1>1, <1>4 DEF Unsettled, WindowTo, GroupTypeOK, IsGroup
  <2>3. /\ msgs[c] \in Seq(Nat)
        /\ \A i, j \in 1 .. Len(msgs[c]) : i < j => msgs[c][i] < msgs[c][j]
    BY <1>1 DEF AnswerOK, ThreadTypeOK
  <2>4. \A i \in 1 .. Len(msgs[c]) : msgs[c][i] < m
    BY <2>1, <2>2
  <2>5. msgs[c] \in Seq(Nat) /\ m \in Nat /\ n \in Nat
    BY <1>2, <2>3
  <2>6. fresh \in Seq(Nat) /\ Len(fresh) = n /\ \A i \in 1 .. n : fresh[i] = m + i - 1
    <3>1. \A i \in 1 .. n : m + i - 1 \in Nat
      BY <2>5
    <3> QED
      BY <1>6, <2>5, <3>1
  <2> QED
    BY <1>6, <2>3, <2>4, <2>5, <2>6, FoundAscends, ZenonT(60)
<1>11. /\ \/ pc'[c] = "enqueue" /\ found = <<>> /\ msgs'[c] = msgs[c]
          \/ pc'[c] = "idle" /\ msgs'[c] = found
       /\ \A d \in Threads : d # c => pc'[d] = pc[d]
       /\ \A d \in Clients : d # c => req'[d] = req[d] /\ msgs'[d] = msgs[d]
  <2>1. CASE Return(c, found)
    BY <1>1, <1>2, <2>1, GotoMoves DEF Return, ThreadTypeOK
  <2>2. CASE found = <<>> /\ Goto(c, "enqueue") /\ UNCHANGED <<req, msgs>>
    BY <1>1, <1>2, <2>2, GotoMoves
  <2> QED
    BY <1>7, <2>1, <2>2
<1>12. Others(c)
  BY <1>2, <1>7, <1>8, <1>9, <1>11, OneAnswer, OthersOn
<1>13. HeldOK(c)' /\ AnswerOK(c)' /\ DeadHeld(c)'
  <2>1. \A i, j \in 1 .. Len(msgs'[c]) : i < j => msgs'[c][i] < msgs'[c][j]
    BY <1>10, <1>11
  <2>2. dead'[c] = None /\ (pc'[c] = "idle" \/ msgs'[c] = <<>>)
    BY <1>2, <1>7, <1>10, <1>11
  <2>3. pc'[c] \notin {"fetchExpired", "nackDispatch"} /\ Len(resp'[c]) <= 1
    BY <1>7, <1>11, OneAnswer
  <2> QED
    BY <1>9, <2>1, <2>2, <2>3, OutOfGroup
<1> QED
  BY <1>2, <1>12, <1>13, HeldStep

\* checkExpiredLeases takes the lock of a group nobody has locked.
LEMMA ReapGroupHeld ==
  ASSUME Held, Inv', SavedOK', NEW k \in GroupKeys, ReapGroup(k)
  PROVE  Held'
<1>1. Inv /\ ReaperOK /\ GroupTypeOK /\ SyncTypeOK /\ ThreadTypeOK
  BY DEF Held, Inv, TypeOK
<1>2. Reaper \in Threads /\ Reaper \notin Clients
  BY ConstantsOK DEF Threads
<1>3. /\ gmu[k] = None /\ pc[Reaper] = "reap" /\ UNCHANGED <<req, msgs, todo>>
      /\ \E l : Goto(Reaper, l)
  BY DEF ReapGroup, EndVisit, reqVars
<1>4. dead[Reaper] = None
  BY <1>1, <1>3 DEF ReaperOK, Producing
<1> DEFINE o == First(ExpiredOffsets(group[k]))
<1>5. \/ UNCHANGED <<gmu, dead>>
      \/ /\ ExpiredOffsets(group[k]) # {} /\ Exhausted(k, o) /\ UNCHANGED group
         /\ gmu' = [gmu EXCEPT ![k] = Reaper]
         /\ dead' = [dead EXCEPT ![Reaper] = <<k, o>>]
  BY DEF ReapGroup
<1>6. \A j \in GroupKeys : j # k => group'[j] = group[j] /\ gmu'[j] = gmu[j]
  <2>1. group' = group \/ group' = [group EXCEPT ![k] = Redeliver(@, o)]
    BY DEF ReapGroup
  <2>2. gmu' = gmu \/ gmu' = [gmu EXCEPT ![k] = Reaper]
    BY DEF ReapGroup
  <2> QED
    BY <1>1, <2>1, <2>2 DEF GroupTypeOK, SyncTypeOK
<1>7. \A d \in Clients : Len(resp'[d]) <= 1
  <2>1. CASE UNCHANGED resp
    BY <2>1, OneAnswer
  <2>2. CASE ~UNCHANGED resp
    <3>1. pending[k] # <<>> /\ Send(Head(pending[k]), o)
      BY <2>2 DEF ReapGroup, queueVars
    <3>2. Head(pending[k]) \in Clients
      BY <1>1, <3>1 DEF SyncTypeOK
    <3> QED
      BY <3>1, <3>2, SendOne
  <2> QED
    BY <2>1, <2>2
<1>8. \A d \in Threads : d # Reaper => pc'[d] = pc[d] /\ dead'[d] = dead[d]
  <2>1. \A d \in Threads : d # Reaper => pc'[d] = pc[d]
    BY <1>1, <1>2, <1>3, GotoMoves
  <2>2. \A d \in Threads : d # Reaper => dead'[d] = dead[d]
    BY <1>1, <1>5 DEF ThreadTypeOK
  <2> QED
    BY <2>1, <2>2
<1>9. Others(Reaper)
  BY <1>2, <1>3, <1>6, <1>7, <1>8, OthersOn
<1>10. DeadHeld(Reaper)'
  <2>1. CASE UNCHANGED <<gmu, dead>>
    BY <1>4, <2>1 DEF DeadHeld
  <2>2. CASE ~UNCHANGED <<gmu, dead>>
    <3>1. ExpiredOffsets(group[k]) \subseteq Nat
      BY <1>1 DEF GroupTypeOK, IsGroup, ExpiredOffsets
    <3>2. o \in ExpiredOffsets(group[k]) /\ Exhausted(k, o) /\ UNCHANGED group
      BY <1>5, <2>2, <3>1, FirstIsIn
    <3> HIDE DEF o
    <3>3. gmu'[k] = Reaper /\ dead'[Reaper] = <<k, o>>
      BY <1>1, <1>2, <1>5, <2>2 DEF SyncTypeOK, ThreadTypeOK, o
    <3>4. <<k, o>>[1] = k /\ <<k, o>>[2] = o
      OBVIOUS
    <3> QED
      BY <3>2, <3>3, <3>4 DEF DeadHeld, Exhausted
  <2> QED
    BY <2>1, <2>2
<1> QED
  BY <1>2, <1>9, <1>10, HeldStep

\* The end of dead-lettering settles a lease that its goroutine has locked.
LEMMA SettleDeadHeld ==
  ASSUME Held, Inv', SavedOK', NEW th \in Threads, SettleDead(th)
  PROVE  Held'
<1>1. Inv /\ DeadHeld(th) /\ GroupTypeOK /\ SyncTypeOK /\ ThreadTypeOK
  BY DEF Held, Inv, TypeOK
<1>2. dead[th] # None
  BY <1>1 DEF SettleDead, Inv, HandlerOK, ReaperOK, Producing, Threads
<1>3. PICK k \in GroupKeys, o \in Nat : dead[th] = <<k, o>>
  BY <1>1, <1>2 DEF ThreadTypeOK
<1>4. gmu[k] = th /\ IsGroup(group[k])
  BY <1>1, <1>2, <1>3 DEF DeadHeld, GroupTypeOK
<1>5. /\ group' = [group EXCEPT ![k] = Settle(group[k], o)]
      /\ dead' = [dead EXCEPT ![th] = None]
      /\ UNCHANGED <<req, msgs, resp>>
  BY <1>3 DEF SettleDead, SaveGroup, reqVars, queueVars
<1>6. /\ group'[k] = Settle(group[k], o)
      /\ \A j \in GroupKeys : j # k => group'[j] = group[j]
      /\ dead'[th] = None
      /\ \A d \in Threads : d # th => dead'[d] = dead[d]
  BY <1>1, <1>5 DEF GroupTypeOK, ThreadTypeOK
<1>7. DeadHeld(th)'
  BY <1>6 DEF DeadHeld
<1>8. CASE th = Reaper
  <2>1. /\ gmu' = [gmu EXCEPT ![k] = None] /\ UNCHANGED todo
        /\ \E l : Goto(Reaper, l)
    BY <1>3, <1>8 DEF SettleDead, EndVisit
  <2>2. \A d \in Threads : d # Reaper => pc'[d] = pc[d]
    BY <1>1, <1>8, <2>1, GotoMoves
  <2>3. \A j \in GroupKeys : j # k => gmu'[j] = gmu[j]
    BY <1>1, <2>1 DEF SyncTypeOK
  <2>4. Others(Reaper)
    BY <1>4, <1>5, <1>6, <1>8, <2>1, <2>2, <2>3, OneAnswer, OthersOn
  <2> QED
    BY <1>7, <1>8, <2>4, HeldStep, ConstantsOK
<1>9. CASE th # Reaper
  <2>1. th \in Clients /\ HandlerOK(th) /\ HeldOK(th) /\ AnswerOK(th)
    BY <1>9 DEF Threads, Held, Inv
  <2>2. /\ todo' = [todo EXCEPT ![th] = todo[th] \ {o}]
        /\ Goto(th, "fetchExpired") /\ UNCHANGED gmu
    BY <1>3, <1>9 DEF SettleDead, lockVars
  <2>3. /\ pc'[th] = "fetchExpired"
        /\ \A d \in Threads : d # th => pc'[d] = pc[d]
    BY <1>1, <2>2, GotoMoves
  <2>4. /\ todo'[th] = todo[th] \ {o}
        /\ \A d \in Clients : d # th => todo'[d] = todo[d]
    BY <1>1, <2>1, <2>2 DEF ThreadTypeOK
  <2>5. Others(th)
    BY <1>4, <1>5, <1>6, <2>2, <2>3, <2>4, OneAnswer, OthersOn
  <2>6. Key(th) = k /\ Key(th)' = k /\ o \in todo[th]
    BY <1>2, <1>3, <1>5, <2>1 DEF HandlerOK, HeldOK, Key
  <2>7. /\ Unsettled(group'[k]) = Unsettled(group[k]) \ {o}
        /\ ExpiredOffsets(group'[k]) = ExpiredOffsets(group[k]) \ {o}
    <3>1. PICK n \in Nat : WindowTo(group[k], n)
      BY <1>1 DEF Inv, WindowOK
    <3> QED
      BY <1>4, <1>6, <3>1, SettleLeases
  <2>8. HeldOK(th)'
    BY <1>4, <1>6, <2>1, <2>2, <2>3, <2>4, <2>6, <2>7 DEF HeldOK, InFetch
  <2>9. AnswerOK(th)'
    <3>1. /\ \A i \in 1 .. Len(msgs[th]) :
               /\ msgs[th][i] \in Unsettled(group[k])
               /\ \A p \in todo[th] : msgs[th][i] < p
          /\ \A i, j \in 1 .. Len(msgs[th]) : i < j => msgs[th][i] < msgs[th][j]
      BY <1>2, <2>1, <2>6 DEF AnswerOK, InFetch
    <3>2. \A i \in 1 .. Len(msgs[th]) : msgs[th][i] # o
      BY <2>6, <3>1
    <3>3. \A i \in 1 .. Len(msgs[th]) :
            /\ msgs[th][i] \in Unsettled(group'[k])
            /\ \A p \in todo'[th] : msgs[th][i] < p
      BY <2>4, <2>7, <3>1, <3>2
    <3> QED
      BY <1>5, <2>1, <2>3, <2>6, <3>1, <3>3, OneAnswer DEF AnswerOK, InFetch
  <2> QED
    BY <1>7, <2>5, <2>8, <2>9, HeldStep
<1> QED
  BY <1>8, <1>9

\* A lease that runs out takes nothing from those who hold locks.
LEMMA ExpireLeaseHeld ==
  ASSUME Held, Inv', SavedOK', NEW k \in GroupKeys, NEW o \in DOMAIN group[k].leases,
         ExpireLease(k, o)
  PROVE  Held'
<1>1. Inv /\ GroupTypeOK /\ IsGroup(group[k])
  BY DEF Held, Inv, TypeOK, GroupTypeOK
<1>2. UNCHANGED <<gmu, dead, pc, req, msgs, todo, resp>>
  BY DEF ExpireLease, lockVars, reqVars, queueVars
<1>3. /\ group'[k] = Expire(group[k], o)
      /\ \A j \in GroupKeys : j # k => group'[j] = group[j]
  BY <1>1 DEF ExpireLease, GroupTypeOK
<1>4. /\ Unsettled(group'[k]) = Unsettled(group[k])
      /\ ExpiredOffsets(group[k]) \subseteq ExpiredOffsets(group'[k])
      /\ \A p \in DOMAIN group[k].leases :
           group'[k].leases[p].redeliveries = group[k].leases[p].redeliveries
  BY <1>1, <1>3, ExpireLeases
<1>5. ExpiredOffsets(group[k]) \subseteq DOMAIN group[k].leases
  BY DEF ExpiredOffsets
<1>6. \A d : Respects(d)
  BY <1>2, <1>3, <1>4, <1>5 DEF Respects
<1>7. Others(Reaper)
  BY <1>2, <1>6, OneAnswer DEF Others
<1>8. Reaper \in Threads /\ Reaper \notin Clients
  BY ConstantsOK DEF Threads
<1>9. DeadHeld(Reaper)'
  BY <1>1, <1>2, <1>6, <1>8, DeadFrame DEF Held
<1> QED
  BY <1>7, <1>8, <1>9, HeldStep

\* After a crash nobody holds anything.
LEMMA CrashHeld ==
  ASSUME Held, Inv', SavedOK', NEW left, NEW skipped, Crash(left, skipped)
  PROVE  Held'
<1>1. \A c \in Clients : /\ dead'[c] = None /\ todo'[c] = {} /\ msgs'[c] = <<>>
                         /\ pc'[c] = "idle" /\ resp'[c] = <<>>
  BY ConstantsOK DEF Crash, Threads
<1>2. \A c \in Clients : HeldOK(c)' /\ AnswerOK(c)'
  BY <1>1 DEF HeldOK, AnswerOK, InFetch
<1>3. \A th \in Threads : DeadHeld(th)'
  BY DEF Crash, DeadHeld
<1> QED
  BY <1>2, <1>3 DEF Held

\* A fresh broker.
LEMMA HeldInit == Init => Held
<1> SUFFICES ASSUME Init PROVE Held
  OBVIOUS
<1>1. Inv
  BY InitInv
<1>2. \A c \in Clients : /\ dead[c] = None /\ todo[c] = {} /\ msgs[c] = <<>>
                         /\ pc[c] = "idle" /\ resp[c] = <<>>
  BY ConstantsOK DEF Init, Threads
<1>3. \A c \in Clients : HeldOK(c) /\ AnswerOK(c)
  BY <1>2 DEF HeldOK, AnswerOK, InFetch
<1>4. \A th \in Threads : DeadHeld(th)
  BY DEF Init, DeadHeld
<1>5. SavedOK
  BY DEF Init, SavedOK, LoadedGroup
<1> QED
  BY <1>1, <1>3, <1>4, <1>5 DEF Held

\* Lock ownership is inductive: no step of another goroutine invalidates what
\* fetchAvailable, Nack or a dead-lettering goroutine read under g.mu.
THEOREM HeldInductive == Held /\ [Next]_vars => Held'
<1> SUFFICES ASSUME Held, [Next]_vars PROVE Held'
  OBVIOUS
<1>1. Inv' /\ SavedOK'
  BY InvInductive, SavedStays DEF Held
<1>2. CASE UNCHANGED vars
  BY <1>1, <1>2 DEF vars, walVars, groupVars, queueVars, lockVars, reqVars, reaperVars,
     otherVars, Held, HeldOK, AnswerOK, DeadHeld, InFetch, Key, Exhausted
<1>3. ASSUME NEW c \in Clients, NEW r \in Requests[c], Begin(c, r)
      PROVE  Held'
  BY <1>1, <1>3, HandlerHeld
<1>4. ASSUME NEW th \in Threads, ProduceStep(th)
      PROVE  Held'
  BY <1>1, <1>4, ProduceHeld, SettleDeadHeld DEF ProduceStep
<1>5. ASSUME NEW c \in Clients, ClientStep(c)
      PROVE  Held'
  BY <1>1, <1>5, HandlerHeld, AckHeld, NackLeaseHeld, NackDispatchHeld,
     FetchLockHeld, FetchExpiredHeld, FetchNewHeld DEF ClientStep
<1>6. CASE ReaperStep \/ CloseStep \/ \E t \in Topics : Flush(t)
  BY <1>1, <1>6, LoopHeld, ReapGroupHeld DEF ReaperStep
<1>7. ASSUME NEW k \in GroupKeys, NEW o \in DOMAIN group[k].leases, ExpireLease(k, o)
      PROVE  Held'
  BY <1>1, <1>7, ExpireLeaseHeld
<1>8. ASSUME NEW left, NEW skipped, Crash(left, skipped)
      PROVE  Held'
  BY <1>1, <1>8, CrashHeld
<1> QED
  BY <1>2, <1>3, <1>4, <1>5, <1>6, <1>7, <1>8 DEF Next

\* It holds in every state of every behaviour.
THEOREM HeldAlways == Spec => []Held
BY HeldInit, HeldInductive, PTL DEF Spec

-----------------------------------------------------------------------------
(* What follows *)

\* fetchAvailable's answers are ascending, and while one is put together none
\* of its messages is settled by anyone else.
THEOREM AnswerOrderedAlways == Spec => []AnswerOrdered
<1>1. Held => AnswerOrdered
  <2> SUFFICES ASSUME Held, NEW c \in Clients
               PROVE  /\ \A i, j \in 1 .. Len(msgs[c]) : i < j => msgs[c][i] < msgs[c][j]
                      /\ pc[c] = "fetchExpired" => \A i \in 1 .. Len(msgs[c]) :
                           /\ msgs[c][i] \in DOMAIN group[Key(c)].leases
                           /\ ~IsAcked(group[Key(c)], msgs[c][i])
    BY DEF AnswerOrdered
  <2>1. AnswerOK(c)
    BY DEF Held
  <2> QED
    BY <2>1 DEF AnswerOK, InFetch, Unsettled, IsAcked
<1> QED
  BY <1>1, HeldAlways, PTL

\* What a redelivery may be of, for one group.
RedeliveryDue(k) ==
  \A o \in DOMAIN group[k].leases \cap DOMAIN group'[k].leases :
    group'[k].leases[o].redeliveries > group[k].leases[o].redeliveries
      => group[k].leases[o].expired /\ ~group[k].leases[o].acked

\* No group is redelivered anything early by a single step.
LEMMA RedeliveryStep ==
  ASSUME Held, [Next]_vars, NEW k \in GroupKeys
  PROVE  RedeliveryDue(k)
<1>1. Inv /\ GroupTypeOK /\ IsGroup(group[k]) /\ WindowOK(k)
  BY DEF Held, Inv, TypeOK, GroupTypeOK
<1>2. PICK n \in Nat : WindowTo(group[k], n)
  BY <1>1 DEF WindowOK
<1>3. \A o \in DOMAIN group[k].leases : group[k].leases[o].redeliveries \in Nat
  BY <1>1 DEF IsGroup, Lease
<1>4. CASE group'[k] = group[k]
  BY <1>3, <1>4 DEF RedeliveryDue
<1>5. ASSUME NEW G, Rewrites(k, G), group'[k] = G
      PROVE  RedeliveryDue(k)
  <2>1. ASSUME NEW o, G = Expire(group[k], o)
        PROVE  RedeliveryDue(k)
    BY <1>1, <1>3, <1>5, <2>1, ExpireLeases DEF RedeliveryDue
  <2>2. ASSUME NEW o \in ExpiredOffsets(group[k]), G = Redeliver(group[k], o)
        PROVE  RedeliveryDue(k)
    <3>1. \A p \in DOMAIN group[k].leases : p # o => G.leases[p] = group[k].leases[p]
      BY <1>1, <2>2, RedeliverLeases
    <3>2. group[k].leases[o].expired /\ ~group[k].leases[o].acked
      BY <2>2 DEF ExpiredOffsets
    <3> QED
      BY <1>3, <1>5, <3>1, <3>2 DEF RedeliveryDue
  <2>3. ASSUME NEW o, G = Settle(group[k], o)
        PROVE  RedeliveryDue(k)
    BY <1>1, <1>2, <1>3, <1>5, <2>3, SettleLeases DEF RedeliveryDue
  <2>4. ASSUME NEW m \in Nat, G = LeaseNew(group[k], m)
        PROVE  RedeliveryDue(k)
    BY <1>1, <1>2, <1>3, <1>5, <2>4, NewLeases DEF RedeliveryDue
  <2> QED
    BY <1>5, <2>1, <2>2, <2>3, <2>4 DEF Rewrites
<1>6. ASSUME NEW left, NEW skipped, Crash(left, skipped)
      PROVE  RedeliveryDue(k)
  <2>1. DOMAIN group'[k].leases = {}
    BY <1>6 DEF Crash, LoadedGroup
  <2> QED
    BY <2>1 DEF RedeliveryDue
<1>7. ASSUME NEW j \in GroupKeys, NEW G, GroupStep(j, G)
      PROVE  RedeliveryDue(k)
  <2>1. group' = [group EXCEPT ![j] = G] /\ Rewrites(j, G)
    BY <1>7 DEF GroupStep
  <2>2. j = k => group'[k] = G
    BY <1>1, <2>1 DEF GroupTypeOK
  <2>3. j # k => group'[k] = group[k]
    BY <1>1, <2>1 DEF GroupTypeOK
  <2> QED
    BY <1>4, <1>5, <2>1, <2>2, <2>3
<1> QED
  BY <1>4, <1>6, <1>7, StepForms DEF StepForm, LogStep

\* No message is handed out again while its lease runs or after it was acked,
\* whoever races for it: fetchAvailable, Nack or checkExpiredLeases.
THEOREM NoEarlyRedeliveryAlways == Spec => NoEarlyRedelivery
<1>1. Held /\ [Next]_vars =>
        [\A k \in GroupKeys : \A o \in DOMAIN group[k].leases \cap DOMAIN group'[k].leases :
           group'[k].leases[o].redeliveries > group[k].leases[o].redeliveries
             => group[k].leases[o].expired /\ ~group[k].leases[o].acked]_vars
  BY RedeliveryStep DEF RedeliveryDue
<1> QED
  BY <1>1, HeldAlways, PTL DEF Spec, NoEarlyRedelivery
=============================================================================
