---------------------------- MODULE QueueProofs ----------------------------
(***************************************************************************)
(* The broker implements the abstract work queue, and the queue of waiting *)
(* fetches is sound, for every instance of Coordinator. Who holds g.mu;    *)
(* and what is true of locks and redeliveries when no fetch waits.         *)
(***************************************************************************)
EXTENDS LeaseProofs

\* The refinement mapping of Work, as state functions.
Size == [t \in Topics |-> Len(log[t])]
Given == [k \in GroupKeys |-> NextOffset(group[k])]
Out == [k \in GroupKeys |-> Unsettled(group[k])]

\* What a step that concerns no group and no log is for the work queue.
LEMMA MapStutter ==
  ASSUME UNCHANGED <<Size, Given, Out>>
  PROVE  UNCHANGED Work!vars
BY DEF Size, Given, Out, Unsettled, Work!vars

\* An append to one log (wal.Append).
LEMMA MapPublish ==
  ASSUME NEW t \in Topics, UNCHANGED <<Given, Out>>,
         Size' = [Size EXCEPT ![t] = Size[t] + 1]
  PROVE  Work!Publish(t)
BY DEF Size, Given, Out, Unsettled, Work!Publish

\* A record that leaves what a group was given.
LEMMA MapSettle ==
  ASSUME NEW k \in GroupKeys, NEW m \in Out[k], UNCHANGED <<Size, Given>>,
         Out' = [Out EXCEPT ![k] = Out[k] \ {m}]
  PROVE  Work!Settle(k, m)
BY DEF Size, Given, Out, Unsettled, Work!Settle

\* Records given to a group for the first time.
LEMMA MapDeliver ==
  ASSUME NEW k \in GroupKeys, NEW n \in Nat, UNCHANGED Size,
         Given[k] + n <= Size[k[1]],
         Given' = [Given EXCEPT ![k] = Given[k] + n],
         Out' = [Out EXCEPT ![k] = Out[k] \cup Given[k] .. (Given[k] + n - 1)]
  PROVE  Work!Deliver(k, n)
BY DEF Size, Given, Out, Unsettled, Work!Deliver

\* A crash and the restart after it.
LEMMA MapRestart ==
  ASSUME \A t \in Topics : Size'[t] <= Size[t] + 1,
         \A k \in GroupKeys : Given'[k] <= Given[k] /\ \A m \in Out[k] : Given'[k] <= m,
         Out' = [k \in GroupKeys |-> {}]
  PROVE  Work!Restart
BY DEF Size, Given, Out, Unsettled, Work!Restart

\* The end of a group's window is its next offset; a later window of the same
\* group gives the later one.
LEMMA GivenIs ==
  ASSUME Held, NEW k \in GroupKeys
  PROVE  /\ IsGroup(group[k]) /\ group[k].committed \in Nat
         /\ WindowTo(group[k], Given[k])
         /\ Given[k] = NextOffset(group[k]) /\ Given[k] \in Nat
         /\ Out[k] = Unsettled(group[k])
         /\ \A o \in Out[k] : o \in Nat /\ group[k].committed <= o
<1>1. IsGroup(group[k]) /\ WindowOK(k) /\ group[k].committed \in Nat
  BY DEF Held, Inv, TypeOK, GroupTypeOK, IsGroup
<1>2. PICK n \in Nat : WindowTo(group[k], n)
  BY <1>1 DEF WindowOK
<1>3. NextOffset(group[k]) = n
  BY <1>1, <1>2, NextOffsetOfWindow
<1>4. Out[k] = Unsettled(group[k]) /\ Given[k] = n
  BY <1>3 DEF Out, Given
<1>5. \A o \in Out[k] : o \in Nat /\ group[k].committed <= o
  BY <1>1, <1>2, <1>4 DEF Unsettled, WindowTo
<1> QED
  BY <1>1, <1>2, <1>3, <1>4, <1>5

\* A function that differs from f at one place.
LEMMA ExceptIs ==
  ASSUME NEW S, NEW f, NEW g, NEW x \in S, NEW v,
         f = [y \in S |-> f[y]], g = [y \in S |-> g[y]],
         g[x] = v, \A y \in S : y # x => g[y] = f[y]
  PROVE  g = [f EXCEPT ![x] = v]
OBVIOUS

\* A step that rewrites one group changes the mapping at that group only.
LEMMA MapGroup ==
  ASSUME Held, NEW k \in GroupKeys, NEW G, group' = [group EXCEPT ![k] = G], UNCHANGED log
  PROVE  /\ UNCHANGED Size
         /\ Given' = [Given EXCEPT ![k] = NextOffset(G)]
         /\ Out' = [Out EXCEPT ![k] = Unsettled(G)]
<1>1. /\ group'[k] = G
      /\ \A j \in GroupKeys : j # k => group'[j] = group[j]
  BY DEF Held, Inv, TypeOK, GroupTypeOK
<1>2. UNCHANGED Size
  BY DEF Size
<1>3. Given' = [Given EXCEPT ![k] = NextOffset(G)]
  <2>1. /\ Given = [j \in GroupKeys |-> Given[j]] /\ Given' = [j \in GroupKeys |-> Given'[j]]
        /\ Given'[k] = NextOffset(G) /\ \A j \in GroupKeys : j # k => Given'[j] = Given[j]
    BY <1>1 DEF Given
  <2> QED
    BY <2>1, ExceptIs
<1>4. Out' = [Out EXCEPT ![k] = Unsettled(G)]
  <2>1. /\ Out = [j \in GroupKeys |-> Out[j]] /\ Out' = [j \in GroupKeys |-> Out'[j]]
        /\ Out'[k] = Unsettled(G) /\ \A j \in GroupKeys : j # k => Out'[j] = Out[j]
    BY <1>1 DEF Out
  <2> QED
    BY <2>1, ExceptIs
<1> QED
  BY <1>2, <1>3, <1>4

\* An append to one log adds one to its size.
LEMMA MapLog ==
  ASSUME Held, NEW t \in Topics, NEW e \in Entry,
         log' = [log EXCEPT ![t] = Append(log[t], e)], UNCHANGED group
  PROVE  /\ Size' = [Size EXCEPT ![t] = Size[t] + 1]
         /\ UNCHANGED <<Given, Out>>
<1>1. WalTypeOK
  BY DEF Held, Inv, TypeOK
<1>2. log[t] \in Seq(Entry) /\ Len(Append(log[t], e)) = Len(log[t]) + 1
  BY <1>1 DEF WalTypeOK
<1>3. /\ log'[t] = Append(log[t], e)
      /\ \A u \in Topics : u # t => log'[u] = log[u]
  BY <1>1 DEF WalTypeOK
<1>4. Size' = [Size EXCEPT ![t] = Size[t] + 1]
  <2>1. /\ Size = [u \in Topics |-> Size[u]] /\ Size' = [u \in Topics |-> Size'[u]]
        /\ Size'[t] = Size[t] + 1 /\ \A u \in Topics : u # t => Size'[u] = Size[u]
    BY <1>2, <1>3 DEF Size
  <2> QED
    BY <2>1, ExceptIs
<1> QED
  BY <1>4 DEF Given, Out

\* What each change of a group is for the work queue: a lease that runs out or
\* is handed out again changes nothing, a settled one leaves, new ones come.
LEMMA GroupRefines ==
  ASSUME Held, NEW k \in GroupKeys, NEW G, GroupStep(k, G)
  PROVE  [Work!Next]_Work!vars
<1> DEFINE g == group[k]
           n == Given[k]
<1>1. /\ IsGroup(g) /\ WindowTo(g, n) /\ n \in Nat /\ n = NextOffset(g)
      /\ Out[k] = Unsettled(g)
  BY GivenIs
<1>2. /\ UNCHANGED Size
      /\ Given' = [Given EXCEPT ![k] = NextOffset(G)]
      /\ Out' = [Out EXCEPT ![k] = Unsettled(G)]
  BY MapGroup DEF GroupStep
<1>3. CASE NextOffset(G) = n /\ Unsettled(G) = Unsettled(g)
  <2>1. Given' = Given /\ Out' = Out
    BY <1>1, <1>2, <1>3 DEF Given, Out
  <2> QED
    BY <1>2, <2>1, MapStutter
<1> HIDE DEF n
<1>4. ASSUME NEW o, G = Expire(g, o) \/ G = Redeliver(g, o)
      PROVE  [Work!Next]_Work!vars
  <2>1. IsGroup(G) /\ WindowTo(G, n)
    BY <1>1, <1>4, ExpireKeeps, RedeliverKeeps DEF WindowTo
  <2>2. Unsettled(G) = Unsettled(g)
    BY <1>1, <1>4, ExpireLeases, RedeliverLeases
  <2> QED
    BY <1>3, <2>1, <2>2, NextOffsetOfWindow
<1>5. ASSUME NEW o, G = Settle(g, o)
      PROVE  [Work!Next]_Work!vars
  <2>1. IsGroup(G) /\ WindowTo(G, n) /\ Unsettled(G) = Unsettled(g) \ {o}
    BY <1>1, <1>5, SettleKeeps, SettleLeases
  <2>2. NextOffset(G) = n
    BY <2>1, NextOffsetOfWindow
  <2>3. CASE o \in Unsettled(g)
    <3>1. UNCHANGED Given /\ Out' = [Out EXCEPT ![k] = Out[k] \ {o}]
      BY <1>1, <1>2, <2>1, <2>2 DEF Given, n
    <3>2. Work!Settle(k, o)
      BY <1>1, <1>2, <2>3, <3>1, MapSettle, ZenonT(60)
    <3> QED
      BY <1>1, <2>3, <3>2 DEF Work!Next, Out, Unsettled
  <2>4. CASE o \notin Unsettled(g)
    BY <1>3, <2>1, <2>2, <2>4
  <2> QED
    BY <2>3, <2>4
<1>6. ASSUME NEW m \in Nat, m = 0 \/ n + m <= Len(log[k[1]]), G = LeaseNew(g, m)
      PROVE  [Work!Next]_Work!vars
  <2>1. /\ IsGroup(G) /\ WindowTo(G, n + m)
        /\ Unsettled(G) = Unsettled(g) \cup n .. (n + m - 1)
    <3>1. IsGroup(G) /\ WindowTo(G, n + m)
      BY <1>1, <1>6, LeaseNewKeeps
    <3>2. Unsettled(G) = Unsettled(g) \cup n .. (n + m - 1)
      BY <1>1, <1>6, NewLeases
    <3> QED
      BY <3>1, <3>2
  <2>2. NextOffset(G) = n + m
    BY <2>1, NextOffsetOfWindow
  <2>3. CASE m = 0
    BY <1>1, <1>3, <2>1, <2>2, <2>3
  <2>4. CASE m # 0
    <3>1. k[1] \in Topics
      BY ConstantsOK DEF GroupKeys
    <3>2. Size[k[1]] = Len(log[k[1]]) /\ Size[k[1]] \in Nat
      BY <3>1 DEF Size, Held, Inv, TypeOK, WalTypeOK
    <3>3. Given[k] + m <= Size[k[1]]
      BY <1>6, <2>4, <3>2 DEF n
    <3>4. Work!Deliver(k, m)
      BY <1>1, <1>2, <2>1, <2>2, <3>3, MapDeliver DEF n
    <3>5. m \in 1 .. (Size[k[1]] - Given[k])
      BY <1>1, <2>4, <3>2, <3>3 DEF n
    <3>6. m \in 1 .. ([t \in Topics |-> Len(log[t])][k[1]]
                       - [j \in GroupKeys |-> NextOffset(group[j])][k])
      BY <3>5 DEF Size, Given
    <3> QED
      BY <3>4, <3>6 DEF Work!Next
  <2> QED
    BY <2>3, <2>4
<1> QED
  BY <1>1, <1>4, <1>5, <1>6 DEF GroupStep, Rewrites, n

(***************************************************************************)
(* What a restart may find: no log that is longer than the broker's by     *)
(* more than the one record of an append that failed (wal.Append), and in  *)
(* the file, if only the process dies, no record of the log less.          *)
(***************************************************************************)
FoundOK ==
  \A t \in Topics :
    /\ Len(log[t]) <= Len(file[t])
    /\ \A c \in disk[t] : Len(c) <= Len(log[t]) + 1

\* A step that appends nothing and no crash adds nothing to what may be found.
FoundLess ==
  /\ UNCHANGED <<log, file>>
  /\ \A t \in Topics : disk'[t] \subseteq disk[t]

\* Such a step keeps FoundOK.
LEMMA FoundFrame ==
  ASSUME FoundOK, FoundLess
  PROVE  FoundOK'
BY DEF FoundOK, FoundLess

\* So does wal.Append, whether it succeeds or fails.
LEMMA FoundAppend ==
  ASSUME Held, FoundOK, NEW th \in Threads, WalAppend(th)
  PROVE  FoundOK'
<1> PICK t, w : t = Target(th) /\ w = Append(log[t], Payload(th))
  OBVIOUS
<1>1. t \in Topics /\ Payload(th) \in Entry /\ WalTypeOK
  BY ProducerOK, PayloadOK DEF WalAppend, Producing, Held, Inv, TypeOK
<1>2. /\ log \in [Topics -> Seq(Entry)] /\ file \in [Topics -> Seq(Entry)]
      /\ disk \in [Topics -> SUBSET Seq(Entry)] /\ \A u \in Topics : file[u] \in disk[u]
  BY <1>1 DEF WalTypeOK
<1>3. w \in Seq(Entry) /\ Len(w) = Len(log[t]) + 1 /\ Len(log[t]) \in Nat
  BY <1>1, <1>2
<1>4. PICK f, D : AppendLeaves(th, f, D)
  BY <1>1, AppendLeft
<1>5. /\ file' = [file EXCEPT ![t] = f] /\ disk' = [disk EXCEPT ![t] = D]
      /\ D \subseteq disk[t] \cup {file[t], w}
      /\ \/ f = file[t] /\ log' = log
         \/ f = w /\ log' \in {log, [log EXCEPT ![t] = w]}
  BY <1>4 DEF AppendLeaves, OnDisk
<1>6. ASSUME NEW u \in Topics, u # t
      PROVE  log'[u] = log[u] /\ file'[u] = file[u] /\ disk'[u] = disk[u]
  BY <1>2, <1>5, <1>6
<1>7. /\ file'[t] = f /\ disk'[t] = D
      /\ \/ f = file[t] /\ log'[t] = log[t]
         \/ f = w /\ log'[t] \in {log[t], w}
  BY <1>1, <1>2, <1>5
<1>8. /\ Len(log[t]) <= Len(file[t])
      /\ \A c \in disk[t] \cup {file[t], w} : Len(c) <= Len(w)
  BY <1>1, <1>2, <1>3 DEF FoundOK
<1>9. Len(log'[t]) \in {Len(log[t]), Len(w)} /\ Len(log'[t]) <= Len(file'[t])
  BY <1>3, <1>7, <1>8
<1>10. \A c \in disk'[t] : Len(c) <= Len(w)
  BY <1>5, <1>7, <1>8
<1>11. \A c \in disk'[t] : Len(c) <= Len(log'[t]) + 1
  <2>1. ASSUME NEW c \in disk'[t]
        PROVE  Len(c) \in Nat
    BY <1>2, <1>3, <1>5, <1>7, <2>1
  <2> QED
    BY <1>3, <1>9, <1>10, <2>1
<1> QED
  BY <1>6, <1>9, <1>11 DEF FoundOK

\* After a crash the log is what was found.
LEMMA FoundCrash ==
  ASSUME Held, FoundOK, NEW left \in [Topics -> UNION {disk[t] : t \in Topics}],
         NEW skipped, Crash(left, skipped)
  PROVE  FoundOK'
<1>1. WalTypeOK
  BY DEF Held, Inv, TypeOK
<1>2. ASSUME NEW t \in Topics
      PROVE  /\ left[t] \in Seq(Entry) /\ log'[t] = left[t] /\ file'[t] = left[t]
             /\ \A c \in disk'[t] : c \in Seq(Entry) /\ Len(c) <= Len(left[t]) + 1
  <2>1. \A u \in Topics : disk[u] \subseteq Seq(Entry) /\ file[u] \in disk[u]
    BY <1>1 DEF WalTypeOK
  <2>2. left[t] \in Seq(Entry) /\ log'[t] = left[t] /\ file'[t] = left[t]
    BY <2>1 DEF Crash
  <2>3. CASE disk' = [u \in Topics |-> {left[u]}]
    BY <2>2, <2>3
  <2>4. CASE left = file /\ UNCHANGED disk
    <3>1. Len(log[t]) <= Len(left[t]) /\ log[t] \in Seq(Entry)
      BY <1>1, <2>4 DEF FoundOK, WalTypeOK
    <3>2. \A c \in disk'[t] : c \in Seq(Entry) /\ Len(c) <= Len(log[t]) + 1
      BY <2>1, <2>4 DEF FoundOK
    <3> QED
      BY <2>2, <3>1, <3>2
  <2> QED
    BY <2>2, <2>3, <2>4 DEF Crash
<1> QED
  BY <1>2 DEF FoundOK

\* All other steps leave the logs alone, or sync one (Flush, CloseTopic).
LEMMA FoundForms ==
  ASSUME Held, [Next]_vars
  PROVE  \/ FoundLess
         \/ \E th \in Threads : WalAppend(th)
         \/ \E left \in [Topics -> UNION {disk[t] : t \in Topics}],
              skipped \in SUBSET GroupKeys : Crash(left, skipped)
<1>1. WalTypeOK
  BY DEF Held, Inv, TypeOK
<1>2. CASE UNCHANGED <<log, file, disk>>
  BY <1>2 DEF FoundLess
<1>3. ASSUME NEW c \in Clients, ClientStep(c)
      PROVE  UNCHANGED <<log, file, disk>>
  BY <1>3 DEF ClientStep, GetOrCreateGroup, Ack, NackLease, NackDispatch, FetchLock,
     FetchExpired, Enqueue, FetchNew, Receive, PollTimeout, Unqueue, walVars
<1>4. ASSUME NEW th \in Threads, CreateTopic(th) \/ Dispatch(th) \/ SettleDead(th)
      PROVE  UNCHANGED <<log, file, disk>>
  BY <1>4 DEF CreateTopic, Dispatch, SettleDead, walVars
<1>5. CASE ReaperStep
  BY <1>2, <1>5 DEF ReaperStep, Tick, SweepTopic, ReapGroup, walVars
<1>6. ASSUME NEW t \in Topics, CloseTopic(t) \/ Flush(t)
      PROVE  FoundLess
  BY <1>1, <1>6 DEF CloseTopic, Flush, FoundLess, WalTypeOK
<1>7. CASE CloseBegin \/ CloseLock \/ CloseEnd
  BY <1>2, <1>7 DEF CloseBegin, CloseLock, CloseEnd, walVars
<1>8. ASSUME NEW c \in Clients, NEW m \in Requests[c], Begin(c, m)
      PROVE  UNCHANGED <<log, file, disk>>
  BY <1>8 DEF Begin, walVars
<1>9. ASSUME NEW k \in GroupKeys, NEW o \in DOMAIN group[k].leases, ExpireLease(k, o)
      PROVE  UNCHANGED <<log, file, disk>>
  BY <1>9 DEF ExpireLease, walVars
<1>10. CASE UNCHANGED vars
  BY <1>2, <1>10 DEF vars, walVars
<1> QED
  BY <1>2, <1>3, <1>4, <1>5, <1>6, <1>7, <1>8, <1>9, <1>10
     DEF Next, ProduceStep, CloseStep

\* Every step keeps it.
LEMMA FoundNext ==
  ASSUME Held, FoundOK, [Next]_vars
  PROVE  FoundOK'
BY FoundForms, FoundFrame, FoundAppend, FoundCrash

\* It holds at the start, when there is nothing to find.
LEMMA FoundInit == Init => FoundOK
BY DEF Init, FoundOK

\* A crash goes back to the saved offset, or to 0, which is not past anything
\* that the group has not settled; a log may have the record that failed.
LEMMA CrashRefines ==
  ASSUME Held, FoundOK, NEW left, NEW skipped, Crash(left, skipped)
  PROVE  Work!Restart
<1>1. WalTypeOK /\ GroupTypeOK /\ SavedOK
  BY DEF Held, Inv, TypeOK
<1>2. ASSUME NEW t \in Topics
      PROVE  Size'[t] <= Size[t] + 1
  <2>1. log'[t] \in disk[t]
    BY <1>1 DEF Crash, WalTypeOK
  <2> QED
    BY <2>1 DEF Size, FoundOK
<1>3. ASSUME NEW k \in GroupKeys
      PROVE  /\ Given'[k] \in Nat /\ Given'[k] <= persisted[k]
             /\ Out'[k] = {}
  <2>1. PICK n : n = persisted'[k]
    OBVIOUS
  <2>2. group'[k] = LoadedGroup(n) /\ n \in {persisted[k], 0} /\ persisted[k] \in Nat
    BY <1>1, <2>1 DEF Crash, GroupTypeOK
  <2>3. IsGroup(group'[k]) /\ WindowTo(group'[k], n) /\ Unsettled(group'[k]) = {}
    BY <2>2 DEF LoadedGroup, IsGroup, WindowTo, Lease, Unsettled
  <2>4. NextOffset(group'[k]) = n
    BY <2>3, NextOffsetOfWindow
  <2> QED
    BY <2>2, <2>3, <2>4 DEF Given, Out
<1>4. Out' = [k \in GroupKeys |-> {}]
  BY <1>3 DEF Out
<1>5. ASSUME NEW k \in GroupKeys
      PROVE  Given'[k] <= Given[k] /\ \A m \in Out[k] : Given'[k] <= m
  <2>1. persisted[k] \in Nat /\ persisted[k] <= group[k].committed
    BY <1>1 DEF GroupTypeOK, SavedOK
  <2>2. /\ group[k].committed \in Nat /\ group[k].committed <= Given[k] /\ Given[k] \in Nat
        /\ \A m \in Out[k] : m \in Nat /\ group[k].committed <= m
    BY GivenIs DEF WindowTo
  <2> QED
    BY <1>3, <2>1, <2>2
<1> QED
  BY <1>2, <1>4, <1>5, MapRestart

\* Every step of the broker is a step of the work queue or none.
LEMMA StepRefines ==
  ASSUME Held, FoundOK, [Next]_vars
  PROVE  [Work!Next]_Work!vars
<1>1. CASE LogStep /\ UNCHANGED log
  <2>1. UNCHANGED <<Size, Given, Out>>
    BY <1>1 DEF LogStep, Size, Given, Out
  <2> QED
    BY <2>1, MapStutter
<1>2. ASSUME NEW t \in Topics, NEW e \in Entry, LogStep,
             log' = [log EXCEPT ![t] = Append(log[t], e)]
      PROVE  [Work!Next]_Work!vars
  <2>1. Work!Publish(t)
    BY <1>2, MapLog, MapPublish DEF LogStep
  <2> QED
    BY <2>1 DEF Work!Next
<1>3. ASSUME NEW left, NEW skipped, Crash(left, skipped)
      PROVE  [Work!Next]_Work!vars
  BY <1>3, CrashRefines DEF Work!Next
<1> QED
  BY <1>1, <1>2, <1>3, GroupRefines, StepForms DEF StepForm, LogStep

\* The broker starts as an empty work queue.
LEMMA InitRefines == Init => Work!Init
<1> SUFFICES ASSUME Init PROVE Work!Init
  OBVIOUS
<1>1. ASSUME NEW k \in GroupKeys
      PROVE  NextOffset(group[k]) = 0 /\ Unsettled(group[k]) = {}
  <2>1. IsGroup(LoadedGroup(0)) /\ WindowTo(LoadedGroup(0), 0) /\ Unsettled(LoadedGroup(0)) = {}
    BY DEF LoadedGroup, IsGroup, WindowTo, Lease, Unsettled
  <2>2. group[k] = LoadedGroup(0)
    BY DEF Init
  <2> QED
    BY <2>1, <2>2, NextOffsetOfWindow
<1>2. \A t \in Topics : Len(log[t]) = 0
  BY DEF Init
<1>3. /\ [t \in Topics |-> Len(log[t])] = [t \in Topics |-> 0]
      /\ [k \in GroupKeys |-> NextOffset(group[k])] = [k \in GroupKeys |-> 0]
      /\ [k \in GroupKeys |-> Unsettled(group[k])] = [k \in GroupKeys |-> {}]
  BY <1>1, <1>2
<1> QED
  BY <1>3 DEF Work!Init, Unsettled

(***************************************************************************)
(* The broker implements the work queue: records are given to a group in   *)
(* order and without gaps (fetchAvailable), each stays with it until Ack   *)
(* or the end of dead-lettering settles it, and a restart never skips one  *)
(* that was not settled, whatever it finds in the files: logs without what *)
(* was not synced, or with the record of a failed Append (wal.go), a state *)
(* file that cannot be read.                                               *)
(***************************************************************************)
THEOREM WorkQueueImplemented == Spec => ImplementsWorkQueue
<1>1. Held /\ FoundOK /\ [Next]_vars => [Work!Next]_Work!vars
  BY StepRefines
<1>2. Held /\ FoundOK /\ [Next]_vars => FoundOK'
  BY FoundNext
<1>3. Spec => []FoundOK
  BY <1>2, FoundInit, HeldAlways, PTL DEF Spec
<1> QED
  BY <1>1, <1>3, InitRefines, HeldAlways, PTL DEF Spec, ImplementsWorkQueue, Work!Spec

-----------------------------------------------------------------------------
(* The queue of waiting fetches *)

\* A queue names a handler at most once.
Once(q) == \A i, j \in 1 .. Len(q) : q[i] = q[j] => i = j

\* The handler is in Fetch's select or on its way out of it.
Waits(c) == pc[c] \in {"wait", "unqueue"}

\* What QueueSound says of one queue and of one channel.
QueueOK(k) ==
  /\ Once(pending[k])
  /\ \A i \in 1 .. Len(pending[k]) :
       Waits(pending[k][i]) /\ Key(pending[k][i]) = k /\ resp[pending[k][i]] = <<>>

ChannelOK(c) ==
  resp[c] # <<>> => Waits(c) /\ resp[c][1] < NextOffset(group[Key(c)])

\* QueueSound, queue by queue and channel by channel.
LEMMA QueueParts ==
  QueueSound <=> /\ \A k \in GroupKeys : QueueOK(k)
                 /\ \A c \in Clients : ChannelOK(c)
BY DEF QueueSound, QueueOK, ChannelOK, Once, Waits

\* The same after a step.
LEMMA QueuePartsNext ==
  ASSUME \A k \in GroupKeys : QueueOK(k)', \A c \in Clients : ChannelOK(c)'
  PROVE  QueueSound'
<1>1. ((\A k \in GroupKeys : QueueOK(k)) /\ (\A c \in Clients : ChannelOK(c)))'
  OBVIOUS
<1> QED
  BY <1>1, QueueParts, PTL

\* The first waiting fetch leaves the queue; the others stay, and are others.
LEMMA OnceTail ==
  ASSUME NEW q \in Seq(Clients), q # <<>>, Once(q)
  PROVE  /\ Once(Tail(q)) /\ Head(q) = q[1] /\ 1 \in 1 .. Len(q)
         /\ \A i \in 1 .. Len(Tail(q)) :
              \E j \in 1 .. Len(q) : Tail(q)[i] = q[j] /\ q[j] # Head(q)
<1>1. /\ Len(q) \in Nat /\ Len(q) # 0 /\ Head(q) = q[1]
      /\ Len(Tail(q)) = Len(q) - 1
      /\ \A i \in 1 .. Len(Tail(q)) : Tail(q)[i] = q[i + 1]
  BY HeadTailProperties, EmptySeq
<1>2. ASSUME NEW i \in 1 .. Len(Tail(q))
      PROVE  i + 1 \in 1 .. Len(q) /\ q[i + 1] # q[1]
  BY <1>1 DEF Once
<1>3. Once(Tail(q))
  BY <1>1, <1>2 DEF Once
<1> QED
  BY <1>1, <1>2, <1>3

\* Fetch's cleanup takes the handler out and leaves the others.
LEMMA OnceWithout ==
  ASSUME NEW q \in Seq(Clients), NEW c, Once(q)
  PROVE  /\ Once(Without(q, c))
         /\ \A i \in 1 .. Len(Without(q, c)) :
              \E j \in 1 .. Len(q) : Without(q, c)[i] = q[j] /\ q[j] # c
<1> DEFINE at == {i \in 1 .. Len(q) : q[i] = c}
<1>1. CASE at = {}
  BY <1>1 DEF Without
<1>2. CASE at # {}
  <2>1. First(at) \in at
    <3>1. at \subseteq Nat
      OBVIOUS
    <3> QED
      BY <1>2, <3>1, FirstIsIn
  <2> DEFINE f == First(at)
             a == SubSeq(q, 1, f - 1)
             b == SubSeq(q, f + 1, Len(q))
  <2>2. Without(q, c) = a \o b
    BY <1>2 DEF Without
  <2>3. f \in 1 .. Len(q) /\ q[f] = c /\ Len(q) \in Nat
    BY <2>1
  <2> HIDE DEF f
  <2>4. /\ a \in Seq(Clients) /\ Len(a) = f - 1
        /\ \A i \in 1 .. (f - 1) : a[i] = q[i]
    <3>1. 1 \in 1 .. Len(q) + 1 /\ f - 1 \in 1 - 1 .. Len(q)
      BY <2>3
    <3> QED
      BY <2>3, <3>1, SubSeqProperties
  <2>5. /\ b \in Seq(Clients) /\ Len(b) = Len(q) - f
        /\ \A i \in 1 .. (Len(q) - f) : b[i] = q[f + i]
    <3>1. f + 1 \in 1 .. Len(q) + 1 /\ Len(q) \in (f + 1) - 1 .. Len(q)
      BY <2>3
    <3> QED
      BY <2>3, <3>1, SubSeqProperties
  <2> HIDE DEF a, b
  <2>6. /\ Len(a \o b) = Len(q) - 1
        /\ \A i \in 1 .. (Len(q) - 1) : (a \o b)[i] = IF i < f THEN q[i] ELSE q[i + 1]
    <3>1. /\ Len(a \o b) = Len(a) + Len(b)
          /\ \A i \in 1 .. Len(a) + Len(b) :
               (a \o b)[i] = IF i <= Len(a) THEN a[i] ELSE b[i - Len(a)]
      BY <2>4, <2>5, ConcatProperties, Zenon
    <3> QED
      BY <2>3, <2>4, <2>5, <3>1
  <2> DEFINE w == a \o b
             To(i) == IF i < f THEN i ELSE i + 1
  <2> HIDE DEF w
  <2>7. ASSUME NEW i \in 1 .. (Len(q) - 1)
        PROVE  To(i) \in 1 .. Len(q) /\ w[i] = q[To(i)] /\ q[To(i)] # c
    BY <2>3, <2>6 DEF Once, w
  <2>8. \A i, j \in 1 .. (Len(q) - 1) : To(i) = To(j) => i = j
    BY <2>3
  <2>9. Once(w)
    BY <2>3, <2>6, <2>7, <2>8 DEF Once, w
  <2>10. Without(q, c) = w /\ Len(w) = Len(q) - 1
    BY <2>2, <2>6 DEF w
  <2> QED
    BY <2>7, <2>9, <2>10
<1> QED
  BY <1>1, <1>2

\* The offsets a group was given only go on, but for a crash.
LEMMA NextGrows ==
  ASSUME Held, [Next]_vars, UNCHANGED crashes
  PROVE  \A k \in GroupKeys :
           /\ NextOffset(group[k]) \in Nat /\ NextOffset(group'[k]) \in Nat
           /\ NextOffset(group[k]) <= NextOffset(group'[k])
<1>1. Inv /\ GroupTypeOK /\ crashes \in Nat
  BY DEF Held, Inv, TypeOK, RestTypeOK
<1>2. ASSUME NEW j \in GroupKeys, NEW G, GroupStep(j, G)
      PROVE  /\ NextOffset(G) \in Nat
             /\ NextOffset(group[j]) <= NextOffset(G)
  <2> DEFINE n == NextOffset(group[j])
  <2>1. IsGroup(group[j]) /\ WindowTo(group[j], n) /\ n \in Nat
    BY GivenIs
  <2> HIDE DEF n
  <2>2. ASSUME IsGroup(G), NEW m \in Nat, WindowTo(G, n + m)
        PROVE  NextOffset(G) = n + m
    BY <2>2, NextOffsetOfWindow
  <2>3. n + 0 = n
    BY <2>1
  <2>4. ASSUME NEW o, G = Expire(group[j], o) \/ G = Redeliver(group[j], o)
                        \/ G = Settle(group[j], o)
        PROVE  NextOffset(G) = n + 0
    <3>1. IsGroup(G) /\ WindowTo(G, n)
      BY <2>1, <2>4, ExpireKeeps, RedeliverKeeps, SettleKeeps DEF WindowTo
    <3> QED
      BY <2>2, <2>3, <3>1
  <2>5. ASSUME NEW m \in Nat, G = LeaseNew(group[j], m)
        PROVE  NextOffset(G) = n + m
    BY <2>1, <2>2, <2>5, LeaseNewKeeps
  <2>6. \E m \in Nat : NextOffset(G) = n + m
    BY <1>2, <2>4, <2>5 DEF GroupStep, Rewrites
  <2> QED
    BY <2>1, <2>6 DEF n
<1>3. ASSUME NEW k \in GroupKeys
      PROVE  /\ NextOffset(group[k]) \in Nat /\ NextOffset(group'[k]) \in Nat
             /\ NextOffset(group[k]) <= NextOffset(group'[k])
  <2>1. NextOffset(group[k]) \in Nat
    BY GivenIs
  <2>2. CASE group'[k] = group[k]
    BY <2>1, <2>2
  <2>3. ASSUME NEW j \in GroupKeys, NEW G, GroupStep(j, G)
        PROVE  group'[k] = group[k] \/ (j = k /\ group'[k] = G)
    BY <1>1, <2>3 DEF GroupStep, GroupTypeOK
  <2>4. ASSUME NEW left, NEW skipped, Crash(left, skipped)
        PROVE  FALSE
    BY <1>1, <2>4 DEF Crash
  <2> QED
    BY <1>2, <2>1, <2>2, <2>3, <2>4, StepForms DEF StepForm, LogStep
<1> QED
  BY <1>3

\* A handler that a step of th leaves in its select.
Stays(th, d) == d # th \/ (pc'[d] \in {"wait", "unqueue"} /\ req'[d] = req[d])

(***************************************************************************)
(* A step of th keeps the queues sound if it adds nobody, takes th out     *)
(* unless it goes on waiting, and sends only to a handler it takes out.    *)
(***************************************************************************)
LEMMA QueueFrame ==
  ASSUME Held, QueueSound, Inv', [Next]_vars, UNCHANGED crashes, NEW th \in Threads,
         \A d \in Threads : d # th => pc'[d] = pc[d],
         \A d \in Clients : d # th => req'[d] = req[d],
         \A k \in GroupKeys :
           /\ Once(pending'[k])
           /\ \A i \in 1 .. Len(pending'[k]) : \E j \in 1 .. Len(pending[k]) :
                /\ pending'[k][i] = pending[k][j] /\ Stays(th, pending[k][j])
                /\ resp'[pending[k][j]] = <<>>,
         \A d \in Clients : resp'[d] # <<>> =>
           /\ Stays(th, d)
           /\ \/ resp'[d] = resp[d]
              \/ Waits(d) /\ resp'[d][1] < NextOffset(group'[Key(d)])
  PROVE  QueueSound'
<1>1. /\ \A k \in GroupKeys : QueueOK(k)
      /\ \A c \in Clients : ChannelOK(c)
  BY QueueParts
<1>2. Inv /\ SyncTypeOK /\ SyncTypeOK'
  BY DEF Held, Inv, TypeOK
<1>3. ASSUME NEW d \in Clients, Waits(d), Stays(th, d)
      PROVE  /\ Waits(d)' /\ Key(d)' = Key(d) /\ Key(d) \in GroupKeys
  <2>1. d \in Threads /\ HandlerOK(d) /\ pc[d] \in GroupStates
    BY <1>2, <1>3 DEF Threads, Inv, Waits, GroupStates
  <2>2. Key(d) \in GroupKeys
    BY <2>1, KeyOK
  <2>3. pc'[d] \in {"wait", "unqueue"} /\ req'[d] = req[d]
    BY <1>3, <2>1 DEF Stays, Waits
  <2> QED
    BY <2>2, <2>3 DEF Waits, Key
<1>4. ASSUME NEW k \in GroupKeys
      PROVE  QueueOK(k)'
  <2>1. ASSUME NEW i \in 1 .. Len(pending'[k])
        PROVE  /\ pc'[pending'[k][i]] \in {"wait", "unqueue"}
               /\ <<req'[pending'[k][i]].topic, req'[pending'[k][i]].group>> = k
               /\ resp'[pending'[k][i]] = <<>>
    <3>1. PICK j \in 1 .. Len(pending[k]) :
             /\ pending'[k][i] = pending[k][j] /\ Stays(th, pending[k][j])
             /\ resp'[pending[k][j]] = <<>>
      BY <2>1
    <3>2. pending[k][j] \in Clients
      BY <1>2 DEF SyncTypeOK
    <3>3. Waits(pending[k][j]) /\ Key(pending[k][j]) = k
      BY <1>1 DEF QueueOK
    <3>4. PICK d \in Clients : d = pending[k][j]
      BY <3>2
    <3>5. Waits(d)' /\ Key(d)' = k
      BY <1>3, <3>1, <3>3, <3>4
    <3> QED
      BY <3>1, <3>4, <3>5 DEF Waits, Key
  <2> QED
    BY <2>1 DEF QueueOK, Waits, Key
<1>5. ASSUME NEW c \in Clients
      PROVE  ChannelOK(c)'
  <2> SUFFICES ASSUME resp'[c] # <<>>
               PROVE  Waits(c)' /\ resp'[c][1] < NextOffset(group'[Key(c)'])
    BY DEF ChannelOK
  <2>1. CASE resp'[c] = resp[c]
    <3>1. Waits(c) /\ resp[c][1] < NextOffset(group[Key(c)])
      BY <1>1, <2>1 DEF ChannelOK
    <3>2. Waits(c)' /\ Key(c)' = Key(c) /\ Key(c) \in GroupKeys
      BY <1>3, <3>1
    <3>3. /\ NextOffset(group[Key(c)]) \in Nat /\ NextOffset(group'[Key(c)]) \in Nat
          /\ NextOffset(group[Key(c)]) <= NextOffset(group'[Key(c)])
      BY <3>2, NextGrows
    <3>4. resp[c][1] \in Nat
      <4>1. resp[c] \in Seq(Nat) /\ resp[c] # <<>>
        BY <1>2, <2>1 DEF SyncTypeOK
      <4> QED
        BY <4>1
    <3> QED
      BY <2>1, <3>1, <3>2, <3>3, <3>4
  <2>2. CASE resp'[c] # resp[c]
    BY <1>3, <2>2
  <2> QED
    BY <2>1, <2>2
<1> QED
  BY <1>4, <1>5, QueuePartsNext

\* A goroutine that does not wait is in no queue, and its channel is empty.
LEMMA NotWaiting ==
  ASSUME Held, QueueSound, NEW th \in Threads, ~Waits(th)
  PROVE  /\ \A k \in GroupKeys : \A i \in 1 .. Len(pending[k]) : pending[k][i] # th
         /\ th \in Clients => resp[th] = <<>>
BY QueueParts DEF QueueOK, ChannelOK

\* Its steps that leave the queues and the channels alone keep them sound.
LEMMA QueueQuiet ==
  ASSUME Held, QueueSound, Inv', [Next]_vars, UNCHANGED <<crashes, pending, resp>>,
         NEW th \in Threads, ~Waits(th),
         \A d \in Threads : d # th => pc'[d] = pc[d],
         \A d \in Clients : d # th => req'[d] = req[d]
  PROVE  QueueSound'
<1>1. ASSUME NEW k \in GroupKeys
      PROVE  /\ Once(pending'[k])
             /\ \A i \in 1 .. Len(pending'[k]) : \E j \in 1 .. Len(pending[k]) :
                  /\ pending'[k][i] = pending[k][j] /\ Stays(th, pending[k][j])
                  /\ resp'[pending[k][j]] = <<>>
  BY NotWaiting, QueueParts DEF QueueOK, Stays
<1>2. ASSUME NEW d \in Clients, resp'[d] # <<>>
      PROVE  Stays(th, d) /\ resp'[d] = resp[d]
  BY <1>2, NotWaiting DEF Stays
<1> QED
  BY <1>1, <1>2, QueueFrame

\* A handler that starts, answers or works on its group, without the queue.
LEMMA HandlerQueue ==
  ASSUME Held, QueueSound, Inv', [Next]_vars, NEW c \in Clients,
         \/ \E r \in Requests[c] : Begin(c, r)
         \/ GetOrCreateGroup(c) \/ Ack(c) \/ NackLease(c) \/ FetchLock(c)
         \/ FetchExpired(c) \/ \E n \in 0 .. NewCount(c) : FetchNew(c, n)
  PROVE  QueueSound'
<1> USE DEF Begin, GetOrCreateGroup, Ack, NackLease, FetchLock, FetchExpired, FetchNew
<1>1. UNCHANGED <<crashes, pending, resp>>
  BY DEF otherVars, queueVars
<1>2. c \in Threads /\ ~Waits(c) /\ Inv /\ ThreadTypeOK
  BY DEF Threads, Waits, Held, Inv, TypeOK
<1>3. UNCHANGED pc \/ \E l : Goto(c, l)
  BY DEF Return
<1>4. \A d \in Threads : d # c => pc'[d] = pc[d]
  BY <1>2, <1>3, GotoMoves
<1>5. UNCHANGED req \/ \E r : req' = [req EXCEPT ![c] = r]
  BY DEF Return, reqVars
<1>6. \A d \in Clients : d # c => req'[d] = req[d]
  BY <1>2, <1>5 DEF ThreadTypeOK
<1> QED
  BY <1>1, <1>2, <1>4, <1>6, QueueQuiet

\* Produce and the end of dead-lettering.
LEMMA ProduceQueue ==
  ASSUME Held, QueueSound, Inv', [Next]_vars, NEW th \in Threads, ProduceStep(th)
  PROVE  QueueSound'
<1> USE DEF ProduceStep, CreateTopic, WalAppend, Dispatch, SettleDead
<1>1. UNCHANGED <<crashes, pending, resp>>
  BY DEF otherVars, queueVars
<1>2. ~Waits(th) /\ Inv /\ ThreadTypeOK
  BY DEF Waits, Held, Inv, TypeOK
<1>3. \E l : Goto(th, l)
  BY DEF Return, EndProduce, EndVisit
<1>4. \A d \in Threads : d # th => pc'[d] = pc[d]
  BY <1>2, <1>3, GotoMoves
<1>5. UNCHANGED req \/ \E r : req' = [req EXCEPT ![th] = r]
  BY DEF Return, EndProduce, reqVars
<1>6. \A d \in Clients : d # th => req'[d] = req[d]
  BY <1>2, <1>5 DEF ThreadTypeOK
<1> QED
  BY <1>1, <1>2, <1>4, <1>6, QueueQuiet

\* The other loops, Close, and the passing of a lease's time.
LEMMA LoopQueue ==
  ASSUME Held, QueueSound, Inv', [Next]_vars,
         \/ Tick \/ (\E t \in Topics : SweepTopic(t)) \/ CloseStep
         \/ (\E t \in Topics : Flush(t)) \/ UNCHANGED vars
         \/ \E k \in GroupKeys : \E o \in DOMAIN group[k].leases : ExpireLease(k, o)
  PROVE  QueueSound'
<1> USE DEF Tick, SweepTopic, CloseStep, CloseBegin, CloseLock, CloseTopic, CloseEnd,
            Flush, ExpireLease
<1>1. UNCHANGED <<crashes, pending, resp, req>>
  BY DEF vars, otherVars, queueVars, reqVars
<1>2. Reaper \in Threads /\ Inv /\ ReaperOK
  BY DEF Threads, Held, Inv
<1>3. ~Waits(Reaper)
  BY <1>2 DEF ReaperOK, Waits, Producing
<1>4. UNCHANGED pc \/ \E l : Goto(Reaper, l)
  BY DEF vars
<1>5. \A d \in Threads : d # Reaper => pc'[d] = pc[d]
  BY <1>2, <1>4, GotoMoves
<1> QED
  BY <1>1, <1>2, <1>3, <1>5, QueueQuiet

\* A waiting handler is in no queue but that of its own group.
LEMMA OwnQueue ==
  ASSUME Held, QueueSound, NEW d \in Clients
  PROVE  \A k \in GroupKeys : \A i \in 1 .. Len(pending[k]) :
           pending[k][i] = d => k = Key(d) /\ resp[d] = <<>>
BY QueueParts DEF QueueOK

\* The handler's answer arrives: it left the queue when it was sent.
LEMMA ReceiveQueue ==
  ASSUME Held, QueueSound, Inv', [Next]_vars, NEW c \in Clients, Receive(c)
  PROVE  QueueSound'
<1>1. /\ UNCHANGED <<crashes, pending>> /\ resp[c] # <<>>
      /\ resp' = [resp EXCEPT ![c] = <<>>] /\ Return(c, resp[c])
  BY DEF Receive, otherVars
<1>2. c \in Threads /\ Inv /\ ThreadTypeOK /\ SyncTypeOK
  BY DEF Threads, Held, Inv, TypeOK
<1>3. /\ \A d \in Threads : d # c => pc'[d] = pc[d]
      /\ \A d \in Clients : d # c => req'[d] = req[d]
  BY <1>1, <1>2, GotoMoves DEF Return, ThreadTypeOK
<1>4. \A d \in Clients : resp'[d] = IF d = c THEN <<>> ELSE resp[d]
  BY <1>1, <1>2 DEF SyncTypeOK
<1>5. ASSUME NEW k \in GroupKeys
      PROVE  /\ Once(pending'[k])
             /\ \A i \in 1 .. Len(pending'[k]) : \E j \in 1 .. Len(pending[k]) :
                  /\ pending'[k][i] = pending[k][j] /\ Stays(c, pending[k][j])
                  /\ resp'[pending[k][j]] = <<>>
  <2>1. QueueOK(k)
    BY QueueParts
  <2>2. \A i \in 1 .. Len(pending[k]) : pending[k][i] # c /\ pending[k][i] \in Clients
    BY <1>1, <1>2, OwnQueue DEF SyncTypeOK
  <2> QED
    BY <1>1, <1>4, <2>1, <2>2 DEF QueueOK, Stays
<1>6. ASSUME NEW d \in Clients, resp'[d] # <<>>
      PROVE  Stays(c, d) /\ resp'[d] = resp[d]
  BY <1>4, <1>6 DEF Stays
<1> QED
  BY <1>1, <1>2, <1>3, <1>5, <1>6, QueueFrame

\* The timer fires; the handler is on its way out and still in the queue.
LEMMA PollTimeoutQueue ==
  ASSUME Held, QueueSound, Inv', [Next]_vars, NEW c \in Clients, PollTimeout(c)
  PROVE  QueueSound'
<1>1. UNCHANGED <<crashes, pending, resp, req>> /\ Goto(c, "unqueue")
  BY DEF PollTimeout, otherVars, queueVars, reqVars
<1>2. c \in Threads /\ Inv
  BY DEF Threads, Held
<1>3. pc'[c] = "unqueue" /\ \A d \in Threads : d # c => pc'[d] = pc[d]
  BY <1>1, <1>2, GotoMoves
<1>4. \A d : Stays(c, d)
  BY <1>1, <1>3 DEF Stays
<1>5. \A k \in GroupKeys :
        /\ Once(pending'[k])
        /\ \A i \in 1 .. Len(pending'[k]) : \E j \in 1 .. Len(pending[k]) :
             /\ pending'[k][i] = pending[k][j] /\ Stays(c, pending[k][j])
             /\ resp'[pending[k][j]] = <<>>
  BY <1>1, <1>4, QueueParts DEF QueueOK
<1> QED
  BY <1>1, <1>2, <1>3, <1>4, <1>5, QueueFrame

\* The cleanup takes the handler out of the queue and empties its channel.
LEMMA UnqueueQueue ==
  ASSUME Held, QueueSound, Inv', [Next]_vars, NEW c \in Clients, Unqueue(c)
  PROVE  QueueSound'
<1>1. PICK q \in GroupKeys : q = Key(c)
  BY NothingGathered DEF Unqueue, GroupStates
<1>2. /\ UNCHANGED crashes /\ Return(c, <<>>)
      /\ resp' = [resp EXCEPT ![c] = <<>>]
      /\ pending' = [pending EXCEPT ![q] = Without(pending[q], c)]
  BY <1>1 DEF Unqueue, otherVars, Held, Inv, TypeOK, SyncTypeOK
<1>3. c \in Threads /\ Inv /\ ThreadTypeOK /\ SyncTypeOK
  BY DEF Threads, Held, Inv, TypeOK
<1>4. /\ \A d \in Threads : d # c => pc'[d] = pc[d]
      /\ \A d \in Clients : d # c => req'[d] = req[d]
  BY <1>2, <1>3, GotoMoves DEF Return, ThreadTypeOK
<1>5. \A d \in Clients : resp'[d] = IF d = c THEN <<>> ELSE resp[d]
  BY <1>2, <1>3 DEF SyncTypeOK
<1>6. ASSUME NEW k \in GroupKeys
      PROVE  /\ Once(pending'[k])
             /\ \A i \in 1 .. Len(pending'[k]) : \E j \in 1 .. Len(pending[k]) :
                  /\ pending'[k][i] = pending[k][j] /\ Stays(c, pending[k][j])
                  /\ resp'[pending[k][j]] = <<>>
  <2>1. QueueOK(k) /\ Once(pending[k]) /\ pending[k] \in Seq(Clients)
    BY <1>3, QueueParts DEF QueueOK, SyncTypeOK
  <2>2. Once(pending'[k]) /\ \A i \in 1 .. Len(pending'[k]) :
          \E j \in 1 .. Len(pending[k]) : pending'[k][i] = pending[k][j] /\ pending[k][j] # c
    <3>1. CASE k = q
      <4>1. pending'[k] = Without(pending[k], c)
        BY <1>2, <1>3, <3>1 DEF SyncTypeOK
      <4> QED
        BY <2>1, <4>1, OnceWithout
    <3>2. CASE k # q
      <4>1. pending'[k] = pending[k]
        BY <1>2, <1>3, <3>2 DEF SyncTypeOK
      <4> QED
        BY <1>1, <2>1, <3>2, <4>1, OwnQueue
    <3> QED
      BY <3>1, <3>2
  <2>3. \A j \in 1 .. Len(pending[k]) : pending[k][j] \in Clients /\ resp[pending[k][j]] = <<>>
    BY <2>1 DEF QueueOK
  <2> QED
    BY <1>5, <2>2, <2>3 DEF Stays
<1>7. ASSUME NEW d \in Clients, resp'[d] # <<>>
      PROVE  Stays(c, d) /\ resp'[d] = resp[d]
  BY <1>5, <1>7 DEF Stays
<1> QED
  BY <1>2, <1>3, <1>4, <1>6, <1>7, QueueFrame

(***************************************************************************)
(* Nack and checkExpiredLeases take the first waiting fetch out of the     *)
(* queue; the channel they may send to is empty, and what they send was    *)
(* given to the group before.                                              *)
(***************************************************************************)
LEMMA PopQueue ==
  ASSUME Held, QueueSound, Inv', [Next]_vars, UNCHANGED crashes,
         NEW th \in Threads, ~Waits(th),
         \A d \in Threads : d # th => pc'[d] = pc[d],
         \A d \in Clients : d # th => req'[d] = req[d],
         NEW q \in GroupKeys, pending[q] # <<>>,
         pending' = [pending EXCEPT ![q] = Tail(pending[q])],
         NEW o \in ExpiredOffsets(group[q]), UNCHANGED resp \/ Send(Head(pending[q]), o)
  PROVE  QueueSound'
<1>1. SyncTypeOK /\ pending[q] \in Seq(Clients) /\ QueueOK(q)
  BY QueueParts DEF Held, Inv, TypeOK, SyncTypeOK
<1>2. /\ Once(Tail(pending[q])) /\ Head(pending[q]) = pending[q][1]
      /\ 1 \in 1 .. Len(pending[q])
      /\ \A i \in 1 .. Len(Tail(pending[q])) : \E j \in 1 .. Len(pending[q]) :
           Tail(pending[q])[i] = pending[q][j] /\ pending[q][j] # Head(pending[q])
  BY <1>1, OnceTail DEF QueueOK
<1>3. PICK w \in Clients : w = Head(pending[q])
  BY <1>1, <1>2
<1>4. Waits(w) /\ Key(w) = q /\ resp[w] = <<>> /\ w # th
  BY <1>1, <1>2, <1>3 DEF QueueOK
<1>5. \A d \in Clients : resp'[d] = resp[d] \/ (d = w /\ resp'[d] = <<o>>)
  BY <1>1, <1>3 DEF Send, SyncTypeOK
<1>6. o < NextOffset(group'[q])
  <2>1. o \in Nat /\ o < NextOffset(group[q])
    BY GivenIs DEF WindowTo, ExpiredOffsets
  <2> QED
    BY <2>1, NextGrows
<1>7. ASSUME NEW k \in GroupKeys
      PROVE  /\ Once(pending'[k])
             /\ \A i \in 1 .. Len(pending'[k]) : \E j \in 1 .. Len(pending[k]) :
                  /\ pending'[k][i] = pending[k][j] /\ Stays(th, pending[k][j])
                  /\ resp'[pending[k][j]] = <<>>
  <2>1. QueueOK(k) /\ pending[k] \in Seq(Clients)
    BY <1>1, QueueParts DEF SyncTypeOK
  <2> DEFINE Thinned(x) ==
               Once(pending'[x]) /\ \A i \in 1 .. Len(pending'[x]) :
                 \E j \in 1 .. Len(pending[x]) :
                   pending'[x][i] = pending[x][j] /\ pending[x][j] # w
  <2>2. Thinned(k)
    <3>1. CASE k = q
      <4>1. pending'[q] = Tail(pending[q])
        BY <1>1 DEF SyncTypeOK
      <4>2. ASSUME NEW i \in 1 .. Len(pending'[q])
            PROVE  \E j \in 1 .. Len(pending[q]) :
                     pending'[q][i] = pending[q][j] /\ pending[q][j] # w
        <5>1. i \in 1 .. Len(Tail(pending[q]))
          BY <4>1
        <5>2. PICK j \in 1 .. Len(pending[q]) :
                Tail(pending[q])[i] = pending[q][j] /\ pending[q][j] # Head(pending[q])
          BY <1>2, <5>1
        <5> QED
          BY <1>3, <4>1, <5>2
      <4>3. Once(pending'[q])
        BY <1>2, <4>1
      <4>4. Thinned(q)
        BY <4>2, <4>3
      <4> HIDE DEF Thinned
      <4> QED
        BY <3>1, <4>4
    <3>2. CASE k # q
      <4>1. pending'[k] = pending[k]
        BY <1>1, <3>2 DEF SyncTypeOK
      <4> QED
        BY <1>4, <2>1, <3>2, <4>1, OwnQueue DEF QueueOK
    <3> QED
      BY <3>1, <3>2
  <2>3. \A j \in 1 .. Len(pending[k]) :
          /\ pending[k][j] \in Clients /\ resp[pending[k][j]] = <<>>
          /\ pending[k][j] # th
    BY <2>1, NotWaiting DEF QueueOK
  <2>4. \A j \in 1 .. Len(pending[k]) : pending[k][j] # w =>
          Stays(th, pending[k][j]) /\ resp'[pending[k][j]] = <<>>
    BY <1>5, <2>3 DEF Stays
  <2> QED
    BY <2>2, <2>4, Zenon
<1>8. ASSUME NEW d \in Clients, resp'[d] # <<>>
      PROVE  /\ Stays(th, d)
             /\ resp'[d] = resp[d] \/ (Waits(d) /\ resp'[d][1] < NextOffset(group'[Key(d)]))
  <2>1. CASE resp'[d] = resp[d]
    BY <1>8, <2>1, NotWaiting DEF Stays
  <2>2. CASE d = w /\ resp'[d] = <<o>>
    <3>1. <<o>>[1] = o
      OBVIOUS
    <3> QED
      BY <1>4, <1>6, <2>2, <3>1 DEF Stays
  <2> QED
    BY <1>5, <2>1, <2>2
<1> QED
  BY <1>7, <1>8, QueueFrame

\* The second half of Nack.
LEMMA NackDispatchQueue ==
  ASSUME Held, QueueSound, Inv', [Next]_vars, NEW c \in Clients, NackDispatch(c)
  PROVE  QueueSound'
<1>1. PICK q \in GroupKeys : q = Key(c)
  BY NothingGathered DEF NackDispatch, GroupStates
<1>2. UNCHANGED crashes /\ Return(c, <<>>)
  BY DEF NackDispatch, otherVars
<1>3. c \in Threads /\ ~Waits(c) /\ Inv /\ ThreadTypeOK /\ SyncTypeOK
  BY DEF NackDispatch, Waits, Threads, Held, Inv, TypeOK
<1>4. /\ \A d \in Threads : d # c => pc'[d] = pc[d]
      /\ \A d \in Clients : d # c => req'[d] = req[d]
  BY <1>2, <1>3, ReturnNothing
<1>5. req[c].offset \in ExpiredOffsets(group[q])
  BY <1>1 DEF NackDispatch, Held, HeldOK
<1>6. CASE pending[q] = <<>>
  <2>1. UNCHANGED <<pending, resp>>
    BY <1>1, <1>6 DEF NackDispatch, queueVars
  <2> QED
    BY <1>2, <1>3, <1>4, <2>1, QueueQuiet
<1>7. CASE pending[q] # <<>>
  <2>1. pending' = [pending EXCEPT ![q] = Tail(pending[q])]
    BY <1>1, <1>3, <1>7 DEF NackDispatch, SyncTypeOK
  <2>2. UNCHANGED resp \/ Send(Head(pending[q]), req[c].offset)
    BY <1>1, <1>7 DEF NackDispatch
  <2> QED
    BY <1>2, <1>3, <1>4, <1>5, <1>7, <2>1, <2>2, PopQueue
<1> QED
  BY <1>6, <1>7

\* checkExpiredLeases in one group.
LEMMA ReapGroupQueue ==
  ASSUME Held, QueueSound, Inv', [Next]_vars, NEW q \in GroupKeys, ReapGroup(q)
  PROVE  QueueSound'
<1> DEFINE o == First(ExpiredOffsets(group[q]))
<1>1. UNCHANGED <<crashes, req>> /\ \E l : Goto(Reaper, l)
  BY DEF ReapGroup, EndVisit, otherVars, reqVars
<1>2. Reaper \in Threads /\ ~Waits(Reaper) /\ Inv /\ SyncTypeOK /\ GroupTypeOK
  BY DEF ReapGroup, Waits, Threads, Held, Inv, TypeOK
<1>3. \A d \in Threads : d # Reaper => pc'[d] = pc[d]
  BY <1>1, <1>2, GotoMoves
<1>4. CASE UNCHANGED <<pending, resp>>
  BY <1>1, <1>2, <1>3, <1>4, QueueQuiet
<1>5. CASE ~UNCHANGED <<pending, resp>>
  <2>1. /\ pending[q] # <<>> /\ ExpiredOffsets(group[q]) # {}
        /\ UNCHANGED resp \/ Send(Head(pending[q]), o)
    BY <1>5 DEF ReapGroup, queueVars
  <2>2. pending' = [pending EXCEPT ![q] = Tail(pending[q])]
    BY <1>2, <1>5 DEF ReapGroup, queueVars, SyncTypeOK
  <2>3. o \in ExpiredOffsets(group[q])
    <3>1. ExpiredOffsets(group[q]) \subseteq Nat
      BY <1>2 DEF GroupTypeOK, IsGroup, ExpiredOffsets
    <3> QED
      BY <2>1, <3>1, FirstIsIn
  <2> HIDE DEF o
  <2> QED
    BY <1>1, <1>2, <1>3, <2>1, <2>2, <2>3, PopQueue
<1> QED
  BY <1>4, <1>5

\* Fetch joins the queue with an empty channel.
LEMMA EnqueueQueue ==
  ASSUME Held, QueueSound, Inv', [Next]_vars, NEW c \in Clients, Enqueue(c)
  PROVE  QueueSound'
<1>1. PICK q \in GroupKeys : q = Key(c)
  BY NothingGathered DEF Enqueue, GroupStates
<1>2. Inv /\ SyncTypeOK /\ c \in Threads /\ ~Waits(c)
  BY DEF Enqueue, Waits, Threads, Held, Inv, TypeOK
<1>3. /\ UNCHANGED <<group, resp, req>> /\ Goto(c, "wait")
      /\ pending' = [pending EXCEPT ![q] = Append(pending[q], c)]
  BY <1>1, <1>2 DEF Enqueue, groupVars, reqVars, SyncTypeOK
<1>4. pc'[c] = "wait" /\ \A d \in Threads : d # c => pc'[d] = pc[d]
  BY <1>2, <1>3, GotoMoves
<1>5. /\ \A k \in GroupKeys : \A i \in 1 .. Len(pending[k]) : pending[k][i] # c
      /\ resp[c] = <<>>
  BY <1>2, NotWaiting
<1>6. \A d : Waits(d) /\ d \in Clients => Waits(d)'
  BY <1>4 DEF Waits, Threads
<1>7. \A d : Key(d)' = Key(d)
  BY <1>3 DEF Key
<1>8. ASSUME NEW k \in GroupKeys, k # q
      PROVE  QueueOK(k)'
  <2>1. pending'[k] = pending[k] /\ pending[k] \in Seq(Clients) /\ QueueOK(k)
    BY <1>2, <1>3, <1>8, QueueParts DEF SyncTypeOK
  <2>2. ASSUME NEW i \in 1 .. Len(pending'[k])
        PROVE  /\ pc'[pending'[k][i]] \in {"wait", "unqueue"}
               /\ <<req'[pending'[k][i]].topic, req'[pending'[k][i]].group>> = k
               /\ resp'[pending'[k][i]] = <<>>
    <3>1. PICK d \in Clients : d = pending[k][i]
      BY <2>1
    <3> QED
      BY <1>3, <1>6, <2>1, <3>1 DEF QueueOK, Key, Waits
  <2>3. Once(pending'[k])
    BY <2>1 DEF QueueOK
  <2> QED
    BY <2>2, <2>3 DEF QueueOK, Key, Waits
<1>9. QueueOK(q)'
  <2> DEFINE p == pending[q]
             r == pending'[q]
  <2>1. r = Append(p, c) /\ p \in Seq(Clients) /\ QueueOK(q)
    BY <1>2, <1>3, QueueParts DEF SyncTypeOK
  <2>2. /\ Len(p) \in Nat /\ Len(r) = Len(p) + 1 /\ r[Len(p) + 1] = c
        /\ \A i \in 1 .. Len(p) : r[i] = p[i] /\ p[i] \in Clients /\ p[i] # c
    BY <1>5, <2>1, AppendProperties
  <2>3. /\ Once(p)
        /\ \A i \in 1 .. Len(p) : Waits(p[i]) /\ Key(p[i]) = q /\ resp[p[i]] = <<>>
    BY <2>1 DEF QueueOK
  <2> HIDE DEF p, r
  <2>4. Once(r)
    BY <2>2, <2>3 DEF Once
  <2>5. ASSUME NEW i \in 1 .. Len(r)
        PROVE  /\ pc'[r[i]] \in {"wait", "unqueue"}
               /\ <<req'[r[i]].topic, req'[r[i]].group>> = q
               /\ resp'[r[i]] = <<>>
    <3>1. CASE i \in 1 .. Len(p)
      <4>1. PICK d \in Clients : d = p[i]
        BY <2>2, <3>1
      <4> QED
        BY <1>3, <1>6, <2>2, <2>3, <3>1, <4>1 DEF Waits, Key
    <3>2. CASE i = Len(p) + 1
      BY <1>1, <1>3, <1>4, <1>5, <2>2, <3>2 DEF Key
    <3> QED
      BY <2>2, <3>1, <3>2
  <2> QED
    BY <2>4, <2>5 DEF QueueOK, r, Waits, Key
<1>10. ASSUME NEW d \in Clients
       PROVE  ChannelOK(d)'
  BY <1>3, <1>6, <1>7, QueueParts DEF ChannelOK
<1> QED
  BY <1>8, <1>9, <1>10, QueuePartsNext

\* The queue of waiting fetches stays sound.
THEOREM QueueInductive == Held /\ QueueSound /\ [Next]_vars => QueueSound'
<1> SUFFICES ASSUME Held, QueueSound, [Next]_vars PROVE QueueSound'
  OBVIOUS
<1>1. Inv'
  BY InvInductive DEF Held
<1>2. ASSUME NEW c \in Clients, (\E r \in Requests[c] : Begin(c, r)) \/ ClientStep(c)
      PROVE  QueueSound'
  BY <1>1, <1>2, HandlerQueue, NackDispatchQueue, EnqueueQueue, ReceiveQueue,
     PollTimeoutQueue, UnqueueQueue DEF ClientStep
<1>3. ASSUME NEW th \in Threads, ProduceStep(th)
      PROVE  QueueSound'
  BY <1>1, <1>3, ProduceQueue
<1>4. CASE \/ ReaperStep \/ CloseStep \/ (\E t \in Topics : Flush(t)) \/ UNCHANGED vars
           \/ \E k \in GroupKeys : \E o \in DOMAIN group[k].leases : ExpireLease(k, o)
  BY <1>1, <1>4, LoopQueue, ReapGroupQueue DEF ReaperStep
<1>5. ASSUME NEW left, NEW skipped, Crash(left, skipped)
      PROVE  QueueSound'
  BY <1>5 DEF Crash, QueueSound
<1> QED
  BY <1>2, <1>3, <1>4, <1>5 DEF Next

\* Only handlers in Fetch's select are in t.pendingFetches, each once and with an
\* empty channel: no answer is dropped, and what is sent was given to the group.
THEOREM QueueSoundAlways == Spec => []QueueSound
<1>1. Init => QueueSound
  BY DEF Init, QueueSound
<1> QED
  BY <1>1, QueueInductive, HeldAlways, PTL DEF Spec

-----------------------------------------------------------------------------
(* Who holds g.mu, and what is true when no fetch waits *)

\* The goroutine is inside fetchAvailable or Nack of group k, or dead-letters
\* one of its records.
Inside(th, k) ==
  \/ dead[th] # None /\ dead[th][1] = k
  \/ th \in Clients /\ pc[th] \in {"fetchExpired", "nackDispatch"} /\ Key(th) = k

\* A g.mu is taken only by a goroutine inside that group (Held is the converse).
LocksOwned == \A k \in GroupKeys : gmu[k] # None => Inside(gmu[k], k)

\* A step of th takes locks for th only, and th is inside where it holds one.
LEMMA LocksStep ==
  ASSUME LocksOwned, NEW th,
         \A d \in Threads : d # th => pc'[d] = pc[d] /\ dead'[d] = dead[d],
         \A c \in Clients : c # th => req'[c] = req[c],
         SyncTypeOK,
         \A k \in GroupKeys : gmu'[k] \in {None, gmu[k], th},
         \A k \in GroupKeys : gmu'[k] = th => Inside(th, k)'
  PROVE  LocksOwned'
<1> SUFFICES ASSUME NEW k \in GroupKeys, gmu'[k] # None
             PROVE  Inside(gmu[k], k)'
  BY DEF LocksOwned
<1>1. CASE gmu'[k] = th
  BY <1>1 DEF Inside, Key
<1>2. CASE gmu'[k] # th
  <2>1. PICK d \in Threads : d = gmu'[k] /\ d = gmu[k] /\ d # th
    BY <1>2 DEF SyncTypeOK
  <2>2. Inside(d, k)
    BY <2>1 DEF LocksOwned
  <2>3. /\ pc'[d] = pc[d] /\ dead'[d] = dead[d]
        /\ d \in Clients => req'[d] = req[d] /\ Key(d)' = Key(d)
    BY <2>1 DEF Key
  <2> QED
    BY <2>1, <2>2, <2>3 DEF Inside, Key
<1> QED
  BY <1>1, <1>2

\* A goroutine that is inside no group holds no lock, and takes none.
LEMMA LocksOutside ==
  ASSUME Inv, LocksOwned, NEW th \in Threads,
         \A d \in Threads : d # th => pc'[d] = pc[d] /\ dead'[d] = dead[d],
         \A c \in Clients : c # th => req'[c] = req[c],
         UNCHANGED gmu, \A k \in GroupKeys : ~Inside(th, k)
  PROVE  LocksOwned'
<1>1. \A k \in GroupKeys : gmu[k] # th
  BY ConstantsOK DEF LocksOwned
<1> QED
  BY <1>1, LocksStep DEF Inv, TypeOK

\* What a goroutine that dead-letters nothing is inside of.
LEMMA InsideIs ==
  ASSUME NEW th, NEW k, dead[th] = None
  PROVE  Inside(th, k) <=> /\ th \in Clients /\ Key(th) = k
                           /\ pc[th] \in {"fetchExpired", "nackDispatch"}
BY DEF Inside

\* The steps of a handler that takes and releases no g.mu.
LEMMA HandlerLocks ==
  ASSUME Held, LocksOwned, NEW c \in Clients,
         \/ \E r \in Requests[c] : Begin(c, r)
         \/ GetOrCreateGroup(c) \/ Ack(c) \/ Enqueue(c) \/ Receive(c)
         \/ PollTimeout(c) \/ Unqueue(c)
  PROVE  LocksOwned'
<1> USE DEF Begin, GetOrCreateGroup, Ack, Enqueue, Receive, PollTimeout, Unqueue
<1>1. UNCHANGED <<gmu, dead>>
  BY DEF lockVars
<1>2. pc[c] \notin Producing /\ pc[c] \notin {"fetchExpired", "nackDispatch"}
  BY DEF Producing
<1>3. c \in Threads /\ dead[c] = None /\ Inv /\ ThreadTypeOK
  BY <1>2, NotDead DEF Held, Inv, TypeOK
<1>4. \E l : Goto(c, l)
  BY DEF Return
<1>5. \A d \in Threads : d # c => pc'[d] = pc[d] /\ dead'[d] = dead[d]
  BY <1>1, <1>3, <1>4, GotoMoves
<1>6. \A d \in Clients : d # c => req'[d] = req[d]
  BY <1>3 DEF Return, reqVars, ThreadTypeOK
<1> QED
  BY <1>1, <1>2, <1>3, <1>5, <1>6, InsideIs, LocksOutside

\* Produce takes no g.mu, and whoever dead-letters goes on to do so.
LEMMA ProduceLocks ==
  ASSUME Held, LocksOwned, NEW th \in Threads,
         CreateTopic(th) \/ WalAppend(th) \/ Dispatch(th)
  PROVE  LocksOwned'
<1> USE DEF CreateTopic, WalAppend, Dispatch
<1>1. UNCHANGED <<gmu, dead>>
  BY DEF lockVars
<1>2. pc[th] \in Producing /\ pc[th] \notin {"fetchExpired", "nackDispatch"}
  BY DEF Producing
<1>3. /\ Inv /\ ThreadTypeOK /\ SyncTypeOK
      /\ dead[th] = None => th \in Clients
  BY <1>2, ProducerOK DEF Held, Inv, TypeOK
<1>4. \E l : Goto(th, l)
  BY DEF Return, EndProduce
<1>5. \A d \in Threads : d # th => pc'[d] = pc[d] /\ dead'[d] = dead[d]
  BY <1>1, <1>3, <1>4, GotoMoves
<1>6. \A d \in Clients : d # th => req'[d] = req[d]
  BY <1>3 DEF Return, EndProduce, reqVars, ThreadTypeOK
<1>7. ASSUME NEW k \in GroupKeys, gmu'[k] = th
      PROVE  Inside(th, k)'
  <2>1. Inside(th, k)
    BY <1>1, <1>7, ConstantsOK DEF LocksOwned
  <2> QED
    BY <1>1, <1>2, <2>1 DEF Inside
<1>8. \A k \in GroupKeys : gmu'[k] \in {None, gmu[k], th}
  BY <1>1
<1> QED
  BY <1>3, <1>5, <1>6, <1>7, <1>8, LocksStep

\* Whoever holds g.mu is inside that group, and no other.
LEMMA LockedIs ==
  ASSUME Held, LocksOwned, NEW th \in Threads, NEW j \in GroupKeys, gmu[j] = th
  PROVE  /\ dead[th] # None => j = dead[th][1]
         /\ th \in Clients => j = Key(th)
         /\ dead[th] = None => th \in Clients
<1>1. Inside(th, j)
  BY ConstantsOK DEF LocksOwned
<1>2. th \in Clients => HandlerOK(th)
  BY DEF Held, Inv
<1>3. dead[th] # None => th \notin Clients \/ dead[th][1] = Key(th)
  BY <1>2 DEF HandlerOK
<1>4. th \in Clients /\ pc[th] \in {"fetchExpired", "nackDispatch"} => dead[th] = None
  BY <1>2 DEF HandlerOK, Producing
<1> QED
  BY <1>1, <1>3, <1>4 DEF Inside

\* A handler takes its group's g.mu, keeps it, or releases it.
LEMMA GroupLocks ==
  ASSUME Held, LocksOwned, NEW c \in Clients,
         \/ NackLease(c) \/ NackDispatch(c) \/ FetchLock(c)
         \/ \E n \in 0 .. NewCount(c) : FetchNew(c, n)
  PROVE  LocksOwned'
<1> USE DEF NackLease, NackDispatch, FetchLock, FetchNew
<1>1. UNCHANGED dead /\ pc[c] \in GroupStates /\ pc[c] \notin Producing
  BY DEF GroupStates, Producing
<1>2. /\ c \in Threads /\ dead[c] = None /\ Inv /\ ThreadTypeOK /\ SyncTypeOK
      /\ HandlerOK(c)
  BY <1>1, NotDead DEF Held, Inv, TypeOK
<1>3. PICK k \in GroupKeys : k = Key(c)
  BY <1>1, <1>2, KeyOK
<1>4. PICK l : Goto(c, l)
  BY DEF Return
<1>5. pc'[c] = l /\ \A d \in Threads : d # c => pc'[d] = pc[d] /\ dead'[d] = dead[d]
  BY <1>1, <1>2, <1>4, GotoMoves
<1>6. \A d \in Clients : d # c => req'[d] = req[d]
  BY <1>2 DEF Return, reqVars, ThreadTypeOK
<1>7. \A j \in GroupKeys : j # k => gmu'[j] = gmu[j] /\ gmu[j] # c
  BY <1>2, <1>3, LockedIs DEF SyncTypeOK
<1>8. \/ gmu'[k] = None
      \/ UNCHANGED gmu /\ gmu[k] = None
      \/ /\ gmu'[k] = c /\ req' = req /\ l \in {"fetchExpired", "nackDispatch"}
  BY <1>2, <1>3, <1>4, <1>5 DEF SyncTypeOK, Goto, Return, reqVars, ThreadTypeOK
<1>9. ASSUME NEW j \in GroupKeys, gmu'[j] = c
      PROVE  Inside(c, j)'
  BY <1>2, <1>3, <1>5, <1>7, <1>8, <1>9, ConstantsOK DEF Inside, Key
<1>10. \A j \in GroupKeys : gmu'[j] \in {None, gmu[j], c}
  BY <1>7, <1>8
<1> QED
  BY <1>2, <1>5, <1>6, <1>9, <1>10, LocksStep

\* fetchAvailable goes on to the next expired lease, or to dead-letter this one.
LEMMA FetchExpiredLocks ==
  ASSUME Held, LocksOwned, NEW c \in Clients, FetchExpired(c)
  PROVE  LocksOwned'
<1>1. UNCHANGED <<gmu, req>> /\ pc[c] = "fetchExpired"
  BY DEF FetchExpired, lockVars
<1>2. c \in Threads /\ dead[c] = None /\ Inv /\ HandlerOK(c) /\ ThreadTypeOK /\ SyncTypeOK
  BY <1>1, NotDead DEF Held, Inv, TypeOK, Producing
<1>3. PICK k \in GroupKeys : k = Key(c)
  BY <1>1, <1>2, KeyOK DEF GroupStates
<1>4. PICK o : o = First(todo[c])
  OBVIOUS
<1>5. \/ UNCHANGED <<pc, dead>>
      \/ dead' = [dead EXCEPT ![c] = <<k, o>>] /\ \E l : Goto(c, l)
  BY <1>3, <1>4 DEF FetchExpired
<1>6. \A d \in Threads : d # c => pc'[d] = pc[d] /\ dead'[d] = dead[d]
  BY <1>2, <1>5, GotoMoves DEF ThreadTypeOK
<1>7. o \in Nat
  BY <1>2, <1>4, FirstIsIn DEF FetchExpired, ThreadTypeOK
<1>8. <<k, o>> # None
  BY <1>7, ConstantsOK
<1>9. Inside(c, k)'
  <2>1. CASE UNCHANGED <<pc, dead>>
    BY <1>1, <1>3, <2>1 DEF Inside, Key
  <2>2. CASE dead' = [dead EXCEPT ![c] = <<k, o>>]
    BY <1>2, <1>8, <2>2 DEF Inside, ThreadTypeOK
  <2> QED
    BY <1>5, <2>1, <2>2
<1>10. \A j \in GroupKeys : gmu'[j] = c => j = k
  BY <1>1, <1>2, <1>3, LockedIs
<1> QED
  BY <1>1, <1>2, <1>6, <1>9, <1>10, LocksStep

\* The expiry loop takes the g.mu of a group whose lease it dead-letters.
LEMMA ReapGroupLocks ==
  ASSUME Held, LocksOwned, NEW k \in GroupKeys, ReapGroup(k)
  PROVE  LocksOwned'
<1> DEFINE o == First(ExpiredOffsets(group[k]))
<1>1. UNCHANGED req /\ pc[Reaper] = "reap"
  BY DEF ReapGroup, reqVars
<1>2. /\ Reaper \in Threads /\ Reaper \notin Clients /\ Inv
      /\ ThreadTypeOK /\ SyncTypeOK /\ IsGroup(group[k])
  BY ConstantsOK DEF Threads, Held, Inv, TypeOK, GroupTypeOK
<1>3. dead[Reaper] = None
  BY <1>1 DEF Held, Inv, ReaperOK, Producing
<1>4. \A j \in GroupKeys : gmu[j] # Reaper
  BY <1>2, <1>3, LockedIs
<1>5. \/ UNCHANGED <<gmu, dead>>
      \/ /\ gmu' = [gmu EXCEPT ![k] = Reaper]
         /\ dead' = [dead EXCEPT ![Reaper] = <<k, o>>]
         /\ ExpiredOffsets(group[k]) # {}
  BY DEF ReapGroup
<1>6. \E l : Goto(Reaper, l)
  BY DEF ReapGroup, EndVisit
<1>7. \A d \in Threads : d # Reaper => pc'[d] = pc[d] /\ dead'[d] = dead[d]
  BY <1>2, <1>5, <1>6, GotoMoves DEF ThreadTypeOK
<1>8. CASE UNCHANGED <<gmu, dead>>
  BY <1>1, <1>2, <1>4, <1>7, <1>8, LocksStep
<1>9. CASE /\ gmu' = [gmu EXCEPT ![k] = Reaper]
           /\ dead' = [dead EXCEPT ![Reaper] = <<k, o>>]
           /\ ExpiredOffsets(group[k]) # {}
  <2>1. ExpiredOffsets(group[k]) \subseteq Nat
    BY <1>2 DEF ExpiredOffsets, IsGroup
  <2>2. o \in Nat
    BY <1>9, <2>1, FirstIsIn
  <2>3. <<k, o>> # None
    BY <2>2, ConstantsOK
  <2> HIDE DEF o
  <2>4. Inside(Reaper, k)'
    BY <1>2, <1>9, <2>3 DEF Inside, ThreadTypeOK
  <2>5. \A j \in GroupKeys : gmu'[j] \in {gmu[j], Reaper} /\ (gmu'[j] = Reaper => j = k)
    BY <1>2, <1>4, <1>9 DEF SyncTypeOK
  <2> QED
    BY <1>1, <1>2, <1>7, <2>4, <2>5, LocksStep
<1> QED
  BY <1>5, <1>8, <1>9

\* After the lease is settled the expiry loop releases g.mu, and fetchAvailable
\* goes on under it.
LEMMA SettleDeadLocks ==
  ASSUME Held, LocksOwned, NEW th \in Threads, SettleDead(th)
  PROVE  LocksOwned'
<1>1. /\ Inv /\ ThreadTypeOK /\ SyncTypeOK /\ ReaperOK
      /\ Reaper \notin Clients
      /\ th \in Clients => HandlerOK(th)
  BY ConstantsOK DEF Held, Inv, TypeOK
<1>2. pc[th] = "settle" /\ UNCHANGED req /\ dead' = [dead EXCEPT ![th] = None]
  BY DEF SettleDead, reqVars
<1>3. dead[th] # None
  BY <1>1, <1>2 DEF HandlerOK, ReaperOK, Producing, Threads
<1>4. PICK k \in GroupKeys : k = dead[th][1]
  BY <1>1, <1>3 DEF ThreadTypeOK
<1>5. \E l : Goto(th, l)
  BY DEF SettleDead, EndVisit
<1>6. \A d \in Threads : d # th => pc'[d] = pc[d] /\ dead'[d] = dead[d]
  BY <1>1, <1>2, <1>5, GotoMoves DEF ThreadTypeOK
<1>7. \A j \in GroupKeys : gmu[j] = th => j = k
  BY <1>3, <1>4, LockedIs
<1>8. CASE th = Reaper
  <2>1. gmu' = [gmu EXCEPT ![k] = None]
    BY <1>4, <1>8 DEF SettleDead
  <2>2. \A j \in GroupKeys : gmu'[j] \in {None, gmu[j]} /\ gmu'[j] # th
    BY <1>1, <1>7, <1>8, <2>1, ConstantsOK DEF SyncTypeOK
  <2> QED
    BY <1>1, <1>2, <1>6, <2>2, LocksStep
<1>9. CASE th # Reaper
  <2>1. th \in Clients /\ k = Key(th)
    BY <1>1, <1>3, <1>4, <1>9 DEF HandlerOK, Threads
  <2>2. UNCHANGED gmu /\ pc'[th] = "fetchExpired"
    BY <1>1, <1>9, GotoMoves DEF SettleDead, lockVars
  <2>3. Inside(th, k)'
    BY <1>2, <2>1, <2>2 DEF Inside, Key
  <2> QED
    BY <1>1, <1>2, <1>6, <1>7, <2>2, <2>3, LocksStep
<1> QED
  BY <1>8, <1>9

\* No step leaves a lock with a goroutine that has left the group.
LEMMA LocksNext ==
  ASSUME Held, LocksOwned, [Next]_vars
  PROVE  LocksOwned'
<1>1. ASSUME NEW c \in Clients, (\E r \in Requests[c] : Begin(c, r)) \/ ClientStep(c)
      PROVE  LocksOwned'
  BY <1>1, HandlerLocks, GroupLocks, FetchExpiredLocks DEF ClientStep
<1>2. ASSUME NEW th \in Threads, ProduceStep(th)
      PROVE  LocksOwned'
  BY <1>2, ProduceLocks, SettleDeadLocks DEF ProduceStep
<1>3. CASE \/ Tick \/ (\E t \in Topics : SweepTopic(t)) \/ CloseStep
           \/ (\E t \in Topics : Flush(t)) \/ UNCHANGED vars
           \/ \E k \in GroupKeys : \E o \in DOMAIN group[k].leases : ExpireLease(k, o)
  <2> USE DEF Tick, SweepTopic, CloseStep, CloseBegin, CloseLock, CloseTopic, CloseEnd,
              Flush, ExpireLease
  <2>1. UNCHANGED <<gmu, dead, req>>
    BY <1>3 DEF vars, lockVars, reqVars
  <2>2. Reaper \in Threads /\ Reaper \notin Clients /\ Inv /\ SyncTypeOK
    BY ConstantsOK DEF Threads, Held, Inv, TypeOK
  <2>3. UNCHANGED pc \/ \E l : Goto(Reaper, l)
    BY <1>3 DEF vars
  <2>4. \A d \in Threads : d # Reaper => pc'[d] = pc[d]
    BY <2>2, <2>3, GotoMoves
  <2>5. \A k \in GroupKeys : gmu'[k] = Reaper => Inside(Reaper, k)'
    BY <2>1, <2>2, ConstantsOK DEF LocksOwned, Inside
  <2> QED
    BY <2>1, <2>2, <2>4, <2>5, LocksStep
<1>4. ASSUME NEW left, NEW skipped, Crash(left, skipped)
      PROVE  LocksOwned'
  BY <1>4 DEF Crash, LocksOwned
<1> QED
  BY <1>1, <1>2, <1>3, <1>4, ReapGroupLocks DEF Next, ReaperStep

\* No path of Nack, fetchAvailable or checkExpiredLeases leaves g.mu locked behind
\* it: whoever holds it is inside that group's critical section.
THEOREM LocksOwnedAlways == Spec => []LocksOwned
<1>1. Init => LocksOwned
  BY DEF Init, LocksOwned
<1> QED
  BY <1>1, LocksNext, HeldAlways, PTL DEF Spec

-----------------------------------------------------------------------------
(* Without long polls *)

\* No client asks to wait for messages.
NoPolls == \A c \in Clients : \A r \in Requests[c] : ~r.poll

(***************************************************************************)
(* Then no fetch is ever queued, so nobody keeps t.mu from one step to the *)
(* next and the expiry loop enters no group.                               *)
(***************************************************************************)
Unqueued ==
  /\ \A k \in GroupKeys : pending[k] = <<>>
  /\ \A t \in Topics : tmu[t] = None
  /\ \A th \in Threads : pc[th] \notin {"blocked", "enqueue", "wait", "unqueue", "reap"}
  /\ \A c \in Clients : pc[c] # "idle" => ~req[c].poll
  /\ dead[Reaper] = None

\* A goroutine moves, to a place where nobody waits.
LEMMA UnqueuedStep ==
  ASSUME Inv, Unqueued, NEW th \in Threads, NEW l,
         l \notin {"blocked", "enqueue", "wait", "unqueue", "reap"},
         UNCHANGED pc \/ Goto(th, l),
         UNCHANGED <<pending, tmu>>, dead'[Reaper] = dead[Reaper],
         \A c \in Clients : c # th => req'[c] = req[c],
         th \in Clients => pc'[th] = "idle" \/ ~req'[th].poll
  PROVE  Unqueued'
<1>1. \A d \in Threads : d # th => pc'[d] = pc[d]
  BY GotoMoves
<1>2. pc'[th] \in {pc[th], l}
  BY GotoMoves
<1>3. Clients \subseteq Threads
  BY DEF Threads
<1> QED
  BY <1>1, <1>2, <1>3 DEF Unqueued

(***************************************************************************)
(* What a step of a handler in Fetch, Ack or Nack leaves alone, and where  *)
(* it goes: the places of a long poll only with a request that waits or    *)
(* from there, and nackDispatch only from Nack.                            *)
(***************************************************************************)
HandlerGoes(c, l) ==
  /\ \/ UNCHANGED <<pc, req>>
     \/ Goto(c, l) /\ UNCHANGED req
     \/ l = "idle" /\ \E m : Return(c, m)
  /\ \/ l \in {"idle", "fetchExpired", "create", "settle"}
     \/ l \in {"enqueue", "wait", "unqueue"} /\ (req[c].poll \/ pc[c] \in {"enqueue", "wait"})
     \/ l = "nackDispatch" /\ pc[c] = "nack"
     \/ l = req[c].op /\ pc[c] = "group"

HandlerMoves(c) ==
  /\ pc[c] \in GroupStates
  /\ UNCHANGED dead \/ \E x : dead' = [dead EXCEPT ![c] = x]
  /\ \/ UNCHANGED <<pending, tmu>>
     \/ pc[c] \in {"enqueue", "unqueue"} \/ pending[Key(c)] # <<>>
  /\ \E l : HandlerGoes(c, l)

\* Every step of a handler is of this kind.
LEMMA HandlerMovesAlways ==
  ASSUME NEW c \in Clients, ClientStep(c)
  PROVE  HandlerMoves(c)
<1> USE DEF HandlerMoves, HandlerGoes, GroupStates, queueVars, lockVars, reqVars
<1>1. CASE GetOrCreateGroup(c)
  BY <1>1 DEF GetOrCreateGroup
<1>2. CASE Ack(c)
  BY <1>2 DEF Ack
<1>3. CASE NackLease(c)
  BY <1>3 DEF NackLease
<1>4. CASE NackDispatch(c)
  BY <1>4 DEF NackDispatch
<1>5. CASE FetchLock(c)
  BY <1>5 DEF FetchLock
<1>6. CASE FetchExpired(c)
  BY <1>6 DEF FetchExpired
<1>7. CASE pc[c] = "fetchExpired" /\ \E n \in 0 .. NewCount(c) : FetchNew(c, n)
  BY <1>7 DEF FetchNew
<1>8. CASE Enqueue(c)
  BY <1>8 DEF Enqueue
<1>9. CASE Receive(c)
  BY <1>9 DEF Receive
<1>10. CASE PollTimeout(c)
  BY <1>10 DEF PollTimeout
<1>11. CASE Unqueue(c)
  BY <1>11 DEF Unqueue
<1> HIDE DEF HandlerMoves
<1> QED
  BY <1>1, <1>2, <1>3, <1>4, <1>5, <1>6, <1>7, <1>8, <1>9, <1>10, <1>11
     DEF ClientStep

\* Requests that do not wait never reach the queue.
LEMMA HandlerUnqueued ==
  ASSUME NoPolls, Held, Unqueued, NEW c \in Clients,
         (\E r \in Requests[c] : Begin(c, r)) \/ ClientStep(c)
  PROVE  Unqueued'
<1>1. /\ c \in Threads /\ c # Reaper /\ Inv /\ HandlerOK(c) /\ ThreadTypeOK
      /\ pc[c] \notin {"enqueue", "wait", "unqueue"}
  BY ConstantsOK DEF Threads, Held, Inv, TypeOK, Unqueued
<1>2. ASSUME NEW r \in Requests[c], Begin(c, r)
      PROVE  Unqueued'
  <2>1. r \in Request /\ ~r.poll
    BY ConstantsOK DEF NoPolls
  <2>2. /\ UNCHANGED <<pending, tmu, dead>>
        /\ req' = [req EXCEPT ![c] = [r EXCEPT !.value = produced]]
        /\ Goto(c, IF r.op \in {"ack", "nack"} THEN "group" ELSE "create")
    BY <1>2 DEF Begin, queueVars, lockVars
  <2>3. ~[r EXCEPT !.value = produced].poll
    BY <2>1 DEF Request
  <2>4. ~req'[c].poll /\ \A d \in Clients : d # c => req'[d] = req[d]
    BY <1>1, <2>2, <2>3 DEF ThreadTypeOK
  <2> QED
    BY <1>1, <2>2, <2>4, UnqueuedStep
<1>3. CASE ClientStep(c)
  <2>1. HandlerMoves(c)
    BY <1>3, HandlerMovesAlways
  <2>2. pc[c] \in GroupStates
    BY <2>1 DEF HandlerMoves
  <2>3. /\ Key(c) \in GroupKeys /\ pc[c] # "idle"
        /\ ~req[c].poll /\ pending[Key(c)] = <<>>
    BY <1>1, <2>2, KeyOK DEF GroupStates, Unqueued
  <2>4. UNCHANGED <<pending, tmu>>
    BY <1>1, <2>1, <2>3 DEF HandlerMoves
  <2>5. dead'[Reaper] = dead[Reaper]
    BY <1>1, <2>1 DEF HandlerMoves, ThreadTypeOK, Threads
  <2>6. PICK l : HandlerGoes(c, l)
    BY <2>1 DEF HandlerMoves
  <2>7. l \notin {"blocked", "enqueue", "wait", "unqueue", "reap"}
    BY <1>1, <2>3, <2>6 DEF HandlerGoes, HandlerOK, GroupStates, GroupOps
  <2>8. UNCHANGED pc \/ Goto(c, l)
    BY <2>6 DEF HandlerGoes, Return
  <2>9. \A d \in Clients : d # c => req'[d] = req[d]
    BY <1>1, <2>6 DEF HandlerGoes, Return, ThreadTypeOK
  <2>10. pc'[c] = "idle" \/ ~req'[c].poll
    BY <1>1, <2>3, <2>6, GotoMoves DEF HandlerGoes, Return
  <2> QED
    BY <1>1, <2>4, <2>5, <2>7, <2>8, <2>9, <2>10, UnqueuedStep
<1> QED
  BY <1>2, <1>3

\* No Produce meets a waiting fetch.
LEMMA ProduceUnqueued ==
  ASSUME Held, Unqueued, NEW th \in Threads, ProduceStep(th)
  PROVE  Unqueued'
<1> USE DEF ProduceStep, CreateTopic, WalAppend, Dispatch, SettleDead
<1>1. /\ Inv /\ ThreadTypeOK /\ pc[th] \in Producing /\ ReaperOK
      /\ th \in Clients => HandlerOK(th)
  BY DEF Held, Inv, TypeOK, Producing
<1>2. th # Reaper /\ th \in Clients
  BY <1>1 DEF ReaperOK, Unqueued, Threads
<1>3. ~Waiters(Target(th)) /\ pc[th] # "idle" /\ ~req[th].poll
  BY <1>1, <1>2 DEF Waiters, Unqueued, Producing
<1>4. UNCHANGED <<pending, tmu>>
  BY <1>2, <1>3 DEF queueVars, lockVars
<1>5. dead'[Reaper] = dead[Reaper]
  <2>1. UNCHANGED dead \/ \E x : dead' = [dead EXCEPT ![th] = x]
    OBVIOUS
  <2> QED
    BY <1>1, <1>2, <2>1 DEF ThreadTypeOK, Threads
<1>6. \/ \E l : /\ l \notin {"blocked", "enqueue", "wait", "unqueue", "reap"}
                /\ Goto(th, l) /\ UNCHANGED req
      \/ Return(th, <<>>)
  BY <1>2, <1>3 DEF EndProduce, reqVars
<1>7. CASE Return(th, <<>>)
  <2>1. \A d \in Clients : d # th => req'[d] = req[d]
    BY <1>1, <1>7 DEF Return, ThreadTypeOK
  <2>2. Goto(th, "idle") /\ pc'[th] = "idle"
    BY <1>1, <1>7, GotoMoves DEF Return
  <2> QED
    BY <1>1, <1>4, <1>5, <2>1, <2>2, UnqueuedStep
<1>8. ASSUME NEW l, l \notin {"blocked", "enqueue", "wait", "unqueue", "reap"},
             Goto(th, l), UNCHANGED req
      PROVE  Unqueued'
  BY <1>1, <1>3, <1>4, <1>5, <1>8, UnqueuedStep
<1> QED
  BY <1>6, <1>7, <1>8

\* The expiry loop finds no group to visit; Close and time change no queue.
LEMMA LoopUnqueued ==
  ASSUME Held, Unqueued,
         \/ ReaperStep \/ CloseStep \/ (\E t \in Topics : Flush(t)) \/ UNCHANGED vars
         \/ \E k \in GroupKeys : \E o \in DOMAIN group[k].leases : ExpireLease(k, o)
  PROVE  Unqueued'
<1> USE DEF ReaperStep, Tick, SweepTopic, CloseStep, CloseBegin, CloseLock, CloseTopic,
            CloseEnd, Flush, ExpireLease
<1>1. Reaper \in Threads /\ Reaper \notin Clients /\ Inv /\ pc[Reaper] # "reap"
  BY ConstantsOK DEF Threads, Held, Inv, Unqueued
<1>2. \A k \in GroupKeys : ~ReapGroup(k)
  BY <1>1 DEF ReapGroup
<1>3. \A t \in Topics : ~Waiters(t)
  BY DEF Waiters, Unqueued
<1>4. UNCHANGED <<pending, tmu, req, dead>>
  BY <1>2, <1>3 DEF vars, queueVars, lockVars, reqVars
<1>5. UNCHANGED pc \/ Goto(Reaper, "stopped")
  BY <1>2, <1>3 DEF vars
<1>6. "stopped" \notin {"blocked", "enqueue", "wait", "unqueue", "reap"}
  OBVIOUS
<1>7. UNCHANGED <<pending, tmu>> /\ dead'[Reaper] = dead[Reaper]
  BY <1>4
<1>8. \A c \in Clients : c # Reaper => req'[c] = req[c]
  BY <1>4
<1> QED
  BY <1>1, <1>5, <1>6, <1>7, <1>8, UnqueuedStep

\* Without long polls no fetch is queued and t.mu is free between the steps.
LEMMA UnqueuedNext ==
  ASSUME NoPolls, Held, Unqueued, [Next]_vars
  PROVE  Unqueued'
<1>1. ASSUME NEW left, NEW skipped, Crash(left, skipped)
      PROVE  Unqueued'
  BY <1>1, ConstantsOK DEF Crash, Unqueued, Threads
<1> QED
  BY <1>1, HandlerUnqueued, ProduceUnqueued, LoopUnqueued DEF Next

\* Without long polls the broker cannot stand still on its locks: t.mu is free
\* between any two steps, and a handler that holds g.mu is inside fetchAvailable
\* or Nack of that group and waits for no other g.mu.
THEOREM NoCircularWaitAlways == ASSUME NoPolls PROVE Spec => []NoCircularWait
<1>1. Init => Unqueued
  BY ConstantsOK DEF Init, Unqueued, Threads
<1>2. Held /\ Unqueued /\ [Next]_vars => Unqueued'
  BY UnqueuedNext
<1>3. Held /\ LocksOwned /\ Unqueued => NoCircularWait
  <2> SUFFICES ASSUME Held, LocksOwned, Unqueued, NEW k \in GroupKeys, gmu[k] # None
               PROVE  \E c \in Clients :
                        /\ gmu[k] = c
                        /\ pc[c] \in {"fetchExpired", "nackDispatch", "create", "append",
                                     "dispatch", "settle"}
                        /\ Key(c) = k
    BY DEF NoCircularWait, Unqueued
  <2>1. PICK c \in Threads : c = gmu[k]
    BY DEF Held, Inv, TypeOK, SyncTypeOK
  <2>2. c \in Clients /\ k = Key(c)
    BY <2>1, LockedIs DEF Unqueued, Threads
  <2>3. Inside(c, k) /\ HandlerOK(c) /\ pc[c] # "blocked"
    BY <2>1, <2>2 DEF LocksOwned, Held, Inv, Unqueued
  <2>4. pc[c] \in {"fetchExpired", "nackDispatch", "create", "append", "dispatch", "settle"}
    BY <2>3 DEF Inside, HandlerOK, Producing
  <2> QED
    BY <2>1, <2>2, <2>4
<1> QED
  BY <1>1, <1>2, <1>3, LocksOwnedAlways, HeldAlways, PTL DEF Spec

-----------------------------------------------------------------------------
(* How often a message is handed out *)

\* No client rejects a message.
NoNacks == \A c \in Clients : \A r \in Requests[c] : r.op # "nack"

\* Then no handler is in Nack.
NackFree ==
  \A c \in Clients : /\ pc[c] \notin {"nack", "nackDispatch"}
                     /\ pc[c] # "idle" => req[c].op # "nack"

\* One goroutine moves, and not into Nack.
LEMMA NackFreeStep ==
  ASSUME Inv, NackFree, NEW th \in Threads, NEW l, l \notin {"nack", "nackDispatch"},
         UNCHANGED pc \/ Goto(th, l),
         \A c \in Clients : c # th => req'[c] = req[c],
         th \in Clients => pc'[th] = "idle" \/ req'[th].op # "nack"
  PROVE  NackFree'
<1>1. \A d \in Threads : d # th => pc'[d] = pc[d]
  BY GotoMoves
<1>2. pc'[th] \in {pc[th], l}
  BY GotoMoves
<1>3. Clients \subseteq Threads
  BY DEF Threads
<1> QED
  BY <1>1, <1>2, <1>3 DEF NackFree

\* A request that does not ask for Nack never gets there.
LEMMA HandlerNackFree ==
  ASSUME NoNacks, Held, NackFree, NEW c \in Clients,
         (\E r \in Requests[c] : Begin(c, r)) \/ ClientStep(c)
  PROVE  NackFree'
<1>1. /\ c \in Threads /\ Inv /\ HandlerOK(c) /\ ThreadTypeOK
      /\ pc[c] \notin {"nack", "nackDispatch"}
  BY DEF Threads, Held, Inv, TypeOK, NackFree
<1>2. ASSUME NEW r \in Requests[c], Begin(c, r)
      PROVE  NackFree'
  <2>1. r \in Request /\ r.op # "nack"
    BY ConstantsOK DEF NoNacks
  <2>2. /\ req' = [req EXCEPT ![c] = [r EXCEPT !.value = produced]]
        /\ Goto(c, IF r.op \in {"ack", "nack"} THEN "group" ELSE "create")
    BY <1>2 DEF Begin
  <2>3. [r EXCEPT !.value = produced].op # "nack"
    BY <2>1 DEF Request
  <2>4. req'[c].op # "nack" /\ \A d \in Clients : d # c => req'[d] = req[d]
    BY <1>1, <2>2, <2>3 DEF ThreadTypeOK
  <2> QED
    BY <1>1, <2>2, <2>4, NackFreeStep
<1>3. CASE ClientStep(c)
  <2>1. HandlerMoves(c)
    BY <1>3, HandlerMovesAlways
  <2>2. pc[c] # "idle" /\ req[c].op # "nack"
    BY <2>1 DEF HandlerMoves, GroupStates, NackFree
  <2>3. PICK l : HandlerGoes(c, l)
    BY <2>1 DEF HandlerMoves
  <2>4. l \notin {"nack", "nackDispatch"}
    BY <1>1, <2>2, <2>3 DEF HandlerGoes, HandlerOK, GroupStates, GroupOps
  <2>5. UNCHANGED pc \/ Goto(c, l)
    BY <2>3 DEF HandlerGoes, Return
  <2>6. \A d \in Clients : d # c => req'[d] = req[d]
    BY <1>1, <2>3 DEF HandlerGoes, Return, ThreadTypeOK
  <2>7. pc'[c] = "idle" \/ req'[c].op # "nack"
    BY <1>1, <2>2, <2>3, GotoMoves DEF HandlerGoes, Return
  <2> QED
    BY <1>1, <2>4, <2>5, <2>6, <2>7, NackFreeStep
<1> QED
  BY <1>2, <1>3

\* Nor does Produce, the expiry loop, Close or time.
LEMMA OtherNackFree ==
  ASSUME Held, NackFree,
         \/ \E th \in Threads : ProduceStep(th)
         \/ ReaperStep \/ CloseStep \/ (\E t \in Topics : Flush(t)) \/ UNCHANGED vars
         \/ \E k \in GroupKeys : \E o \in DOMAIN group[k].leases : ExpireLease(k, o)
  PROVE  NackFree'
<1>1. /\ Reaper \in Threads /\ Reaper \notin Clients /\ Inv /\ ThreadTypeOK
      /\ Clients \subseteq Threads
  BY ConstantsOK DEF Threads, Held, Inv, TypeOK
<1>2. ASSUME NEW th \in Threads, ProduceStep(th)
      PROVE  NackFree'
  <2>1. PICK l : /\ l \notin {"nack", "nackDispatch"} /\ Goto(th, l)
                 /\ UNCHANGED req \/ (Return(th, <<>>) /\ l = "idle")
    BY <1>2 DEF ProduceStep, CreateTopic, WalAppend, Dispatch, SettleDead, EndProduce,
       EndVisit, Return, reqVars
  <2>2. pc[th] # "idle"
    BY <1>2 DEF ProduceStep, CreateTopic, WalAppend, Dispatch, SettleDead
  <2>3. \A d \in Clients : d # th => req'[d] = req[d]
    BY <1>1, <2>1 DEF Return, ThreadTypeOK
  <2>4. th \in Clients => pc'[th] = "idle" \/ req'[th].op # "nack"
    BY <1>1, <2>1, <2>2, GotoMoves DEF NackFree
  <2> QED
    BY <1>1, <2>1, <2>3, <2>4, NackFreeStep
<1>3. CASE ReaperStep
  <2>1. UNCHANGED req
    BY <1>3 DEF ReaperStep, Tick, SweepTopic, ReapGroup, reqVars
  <2>2. \E l : l \notin {"nack", "nackDispatch"} /\ (UNCHANGED pc \/ Goto(Reaper, l))
    BY <1>3 DEF ReaperStep, Tick, SweepTopic, ReapGroup, EndVisit
  <2> QED
    BY <1>1, <2>1, <2>2, NackFreeStep
<1>4. CASE \/ CloseStep \/ (\E t \in Topics : Flush(t)) \/ UNCHANGED vars
           \/ \E k \in GroupKeys : \E o \in DOMAIN group[k].leases : ExpireLease(k, o)
  <2>1. UNCHANGED <<pc, req>>
    BY <1>4 DEF CloseStep, CloseBegin, CloseLock, CloseTopic, CloseEnd, Flush, ExpireLease,
       vars, reqVars
  <2> QED
    BY <2>1 DEF NackFree
<1> QED
  BY <1>2, <1>3, <1>4

\* If nobody asks for Nack, nobody is in it.
LEMMA NackFreeNext ==
  ASSUME NoNacks, Held, NackFree, [Next]_vars
  PROVE  NackFree'
<1>1. ASSUME NEW left, NEW skipped, Crash(left, skipped)
      PROVE  NackFree'
  BY <1>1, ConstantsOK DEF Crash, NackFree, Threads
<1> QED
  BY <1>1, HandlerNackFree, OtherNackFree DEF Next

\* Nack finds no waiting fetch to give the message to.
NackKeeps == \A c \in Clients : NackDispatch(c) => pending[Key(c)] = <<>>

\* Only a redelivery of a lease that has some left raises a count.
LEMMA BoundedGroup ==
  ASSUME Held, RedeliveriesBounded, NEW k \in GroupKeys, NEW G,
         group' = [group EXCEPT ![k] = G],
         \/ \E o : G = Expire(group[k], o)
         \/ \E o : G = Settle(group[k], o)
         \/ \E n \in Nat : G = LeaseNew(group[k], n)
         \/ \E o \in DOMAIN group[k].leases : ~Exhausted(k, o) /\ G = Redeliver(group[k], o)
  PROVE  RedeliveriesBounded'
<1>1. GroupTypeOK /\ IsGroup(group[k]) /\ WindowOK(k) /\ MaxRedeliveries \in Nat
  BY ConstantsOK DEF Held, Inv, TypeOK, GroupTypeOK
<1>2. PICK n \in Nat : WindowTo(group[k], n)
  BY <1>1 DEF WindowOK
<1>3. \A o \in DOMAIN group[k].leases : /\ group[k].leases[o].redeliveries \in Nat
                                        /\ group[k].leases[o].redeliveries <= MaxRedeliveries
  BY <1>1 DEF IsGroup, Lease, RedeliveriesBounded
<1>4. \A p \in DOMAIN G.leases : G.leases[p].redeliveries <= MaxRedeliveries
  <2>1. ASSUME NEW o, G = Expire(group[k], o)
        PROVE  \A p \in DOMAIN G.leases : G.leases[p].redeliveries <= MaxRedeliveries
    BY <1>1, <1>3, <2>1, ExpireKeeps, ExpireLeases
  <2>2. ASSUME NEW o, G = Settle(group[k], o)
        PROVE  \A p \in DOMAIN G.leases : G.leases[p].redeliveries <= MaxRedeliveries
    BY <1>1, <1>2, <1>3, <2>2, SettleLeases
  <2>3. ASSUME NEW m \in Nat, G = LeaseNew(group[k], m)
        PROVE  \A p \in DOMAIN G.leases : G.leases[p].redeliveries <= MaxRedeliveries
    <3>1. \A p \in DOMAIN G.leases : G.leases[p] = NewLease \/ p \in DOMAIN group[k].leases
      BY <2>3 DEF LeaseNew
    <3>2. NewLease.redeliveries <= MaxRedeliveries
      BY <1>1 DEF NewLease
    <3> QED
      BY <1>1, <1>2, <1>3, <2>3, <3>1, <3>2, NewLeases
  <2>4. ASSUME NEW o \in DOMAIN group[k].leases, ~Exhausted(k, o),
               G = Redeliver(group[k], o)
        PROVE  \A p \in DOMAIN G.leases : G.leases[p].redeliveries <= MaxRedeliveries
    <3> DEFINE l == [expired      |-> FALSE,
                     redeliveries |-> group[k].leases[o].redeliveries + 1,
                     acked        |-> group[k].leases[o].acked]
    <3>1. group[k].leases[o].redeliveries + 1 <= MaxRedeliveries
      BY <1>1, <1>3, <2>4 DEF Exhausted
    <3>2. l \in Lease /\ l.redeliveries <= MaxRedeliveries
      BY <1>1, <3>1 DEF IsGroup, Lease
    <3>3. G = WithLease(group[k], o, l)
      BY <2>4 DEF Redeliver
    <3> HIDE DEF l
    <3> QED
      BY <1>1, <1>3, <3>2, <3>3, WithLeaseKeeps
  <2> QED
    BY <2>1, <2>2, <2>3, <2>4
<1>5. group'[k] = G /\ \A j \in GroupKeys : j # k => group'[j] = group[j]
  BY <1>1 DEF GroupTypeOK
<1> QED
  BY <1>4, <1>5 DEF RedeliveriesBounded

\* The steps of a handler.
LEMMA HandlerBounded ==
  ASSUME Held, NackKeeps, RedeliveriesBounded, NEW c \in Clients, ClientStep(c)
  PROVE  RedeliveriesBounded'
<1>1. Inv /\ HandlerOK(c) /\ HeldOK(c) /\ GroupTypeOK /\ ThreadTypeOK
  BY DEF Held, Inv, TypeOK
<1>2. CASE UNCHANGED group
  BY <1>2 DEF RedeliveriesBounded
<1>3. CASE ~UNCHANGED group
  <2>1. PICK k \in GroupKeys : k = Key(c)
    BY <1>1, <1>3, KeyOK DEF ClientStep, GetOrCreateGroup, FetchLock, Enqueue, Receive,
       PollTimeout, Unqueue, Ack, NackLease, NackDispatch, FetchExpired, FetchNew,
       groupVars, GroupStates
  <2>2. CASE Ack(c)
    <3>1. group' = [group EXCEPT ![k] = Settle(group[k], req[c].offset)]
      BY <1>3, <2>1, <2>2 DEF Ack, SaveGroup, groupVars
    <3> QED
      BY <3>1, BoundedGroup
  <2>3. CASE NackLease(c)
    <3>1. group' = [group EXCEPT ![k] = Expire(group[k], req[c].offset)]
      BY <1>1, <1>3, <2>1, <2>3 DEF NackLease, GroupTypeOK
    <3> QED
      BY <3>1, BoundedGroup
  <2>4. CASE FetchExpired(c)
    <3> DEFINE o == First(todo[c])
    <3>1. o \in todo[c]
      BY <1>1, <2>4, FirstIsIn DEF FetchExpired, ThreadTypeOK
    <3>2. o \in DOMAIN group[k].leases
      BY <1>1, <2>1, <3>1 DEF HeldOK, ExpiredOffsets
    <3>3. ~Exhausted(k, o) /\ group' = [group EXCEPT ![k] = Redeliver(group[k], o)]
      BY <1>1, <1>3, <2>1, <2>4 DEF FetchExpired, GroupTypeOK
    <3> QED
      BY <3>2, <3>3, BoundedGroup
  <2>5. ASSUME NEW n \in 0 .. NewCount(c), FetchNew(c, n)
        PROVE  RedeliveriesBounded'
    <3>1. n \in Nat
      BY <2>5
    <3>2. group' = [group EXCEPT ![k] = LeaseNew(group[k], n)]
      BY <1>1, <2>1, <2>5 DEF FetchNew, GroupTypeOK
    <3> QED
      BY <3>1, <3>2, BoundedGroup
  <2>6. ~NackDispatch(c)
    BY <1>3, <2>1 DEF NackDispatch, NackKeeps
  <2>7. Ack(c) \/ NackLease(c) \/ FetchExpired(c) \/ \E n \in 0 .. NewCount(c) : FetchNew(c, n)
    BY <1>3, <2>6 DEF ClientStep, GetOrCreateGroup, FetchLock, Enqueue, Receive,
       PollTimeout, Unqueue, groupVars
  <2> QED
    BY <2>2, <2>3, <2>4, <2>5, <2>7
<1> QED
  BY <1>2, <1>3

\* The expiry loop, dead-lettering, time, and a restart.
LEMMA OtherBounded ==
  ASSUME Held, RedeliveriesBounded,
         \/ \E th \in Threads : ProduceStep(th)
         \/ ReaperStep
         \/ \E k \in GroupKeys : \E o \in DOMAIN group[k].leases : ExpireLease(k, o)
         \/ \E left, skipped : Crash(left, skipped)
  PROVE  RedeliveriesBounded'
<1>1. Inv /\ GroupTypeOK /\ ThreadTypeOK /\ ReaperOK
  BY DEF Held, Inv, TypeOK
<1>2. ASSUME NEW th \in Threads, ProduceStep(th), ~UNCHANGED group
      PROVE  RedeliveriesBounded'
  <2>1. SettleDead(th)
    BY <1>2 DEF ProduceStep, CreateTopic, WalAppend, Dispatch, groupVars
  <2>2. dead[th] \in GroupKeys \X Nat
    BY <1>1, <2>1 DEF SettleDead, Inv, HandlerOK, ReaperOK, Producing, ThreadTypeOK, Threads
  <2>3. PICK k \in GroupKeys : k = dead[th][1]
    BY <2>2
  <2>4. group' = [group EXCEPT ![k] = Settle(group[k], dead[th][2])]
    BY <2>1, <2>3 DEF SettleDead, SaveGroup
  <2> QED
    BY <2>4, BoundedGroup
<1>3. ASSUME NEW k \in GroupKeys, ReapGroup(k), ~UNCHANGED group
      PROVE  RedeliveriesBounded'
  <2> DEFINE o == First(ExpiredOffsets(group[k]))
  <2>1. /\ ExpiredOffsets(group[k]) # {} /\ ~Exhausted(k, o)
        /\ group' = [group EXCEPT ![k] = Redeliver(group[k], o)]
    BY <1>1, <1>3 DEF ReapGroup, GroupTypeOK
  <2>2. ExpiredOffsets(group[k]) \subseteq Nat
    BY <1>1 DEF ExpiredOffsets, GroupTypeOK, IsGroup
  <2>3. o \in DOMAIN group[k].leases
    BY <2>1, <2>2, FirstIsIn DEF ExpiredOffsets
  <2> QED
    BY <2>1, <2>3, BoundedGroup
<1>4. ASSUME NEW k \in GroupKeys, NEW o, ExpireLease(k, o)
      PROVE  RedeliveriesBounded'
  <2>1. group' = [group EXCEPT ![k] = Expire(group[k], o)]
    BY <1>1, <1>4 DEF ExpireLease, GroupTypeOK
  <2> QED
    BY <2>1, BoundedGroup
<1>5. ASSUME NEW left, NEW skipped, Crash(left, skipped)
      PROVE  RedeliveriesBounded'
  BY <1>5 DEF Crash, LoadedGroup, RedeliveriesBounded
<1>6. CASE UNCHANGED group
  BY <1>6 DEF RedeliveriesBounded
<1>7. ReaperStep => UNCHANGED group \/ \E k \in GroupKeys : ReapGroup(k)
  BY DEF ReaperStep, Tick, SweepTopic, groupVars
<1> QED
  BY <1>2, <1>3, <1>4, <1>5, <1>6, <1>7

\* As long as Nack finds no waiting fetch no lease is handed out too often.
LEMMA BoundedNext ==
  ASSUME Held, NackKeeps, RedeliveriesBounded, [Next]_vars
  PROVE  RedeliveriesBounded'
<1>1. CASE \/ UNCHANGED vars \/ CloseStep \/ (\E t \in Topics : Flush(t))
           \/ \E c \in Clients : \E r \in Requests[c] : Begin(c, r)
  <2>1. UNCHANGED group
    BY <1>1 DEF vars, CloseStep, CloseBegin, CloseLock, CloseTopic, CloseEnd, Flush, Begin,
       groupVars
  <2> QED
    BY <2>1 DEF RedeliveriesBounded
<1> QED
  BY <1>1, HandlerBounded, OtherBounded DEF Next

\* MaxRedeliveries bounds how often fetchAvailable and checkExpiredLeases hand a
\* message out again. Nack is the only way round it, and only when it meets a
\* fetch in a long poll: the bound holds if clients use one of the two at most.
THEOREM RedeliveriesBoundedAlways ==
  ASSUME NoPolls \/ NoNacks PROVE Spec => []RedeliveriesBounded
<1>1. Init => RedeliveriesBounded
  BY DEF Init, LoadedGroup, RedeliveriesBounded
<1>2. CASE NoPolls
  <2>1. Init => Unqueued
    BY ConstantsOK DEF Init, Unqueued, Threads
  <2>2. Held /\ Unqueued => NackKeeps
    <3> SUFFICES ASSUME Held, Unqueued, NEW c \in Clients, NackDispatch(c)
                 PROVE  pending[Key(c)] = <<>>
      BY DEF NackKeeps
    <3>1. Key(c) \in GroupKeys
      BY KeyOK DEF Held, Inv, NackDispatch, GroupStates
    <3> QED
      BY <3>1 DEF Unqueued
  <2>3. Held /\ Unqueued /\ [Next]_vars => Unqueued'
    BY <1>2, UnqueuedNext
  <2>4. Held /\ Unqueued /\ RedeliveriesBounded /\ [Next]_vars => RedeliveriesBounded'
    BY <2>2, BoundedNext
  <2> QED
    BY <1>1, <2>1, <2>3, <2>4, HeldAlways, PTL DEF Spec
<1>3. CASE NoNacks
  <2>1. Init => NackFree
    BY ConstantsOK DEF Init, NackFree, Threads
  <2>2. NackFree => NackKeeps
    BY DEF NackFree, NackKeeps, NackDispatch
  <2>3. Held /\ NackFree /\ [Next]_vars => NackFree'
    BY <1>3, NackFreeNext
  <2>4. Held /\ NackFree /\ RedeliveriesBounded /\ [Next]_vars => RedeliveriesBounded'
    BY <2>2, BoundedNext
  <2> QED
    BY <1>1, <2>1, <2>3, <2>4, HeldAlways, PTL DEF Spec
<1> QED
  BY <1>2, <1>3
=============================================================================
