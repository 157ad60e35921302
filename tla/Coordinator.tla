---------------------------- MODULE Coordinator ----------------------------
(***************************************************************************)
(* The broker of pkg/broker/coordinator.go: topics, consumer groups, long  *)
(* polling, the lease-expiry loop, dead-lettering, Close and restart.      *)
(*                                                                         *)
(* Goroutines are the connection handlers (Clients, one request at a time) *)
(* and the lease-expiry loop (Reaper); Close runs beside them. A step is a *)
(* critical section; one that takes a second lock inside is split there,   *)
(* and the locks it keeps meanwhile are in tmu (t.mu) and gmu (g.mu).      *)
(* b.mu is held across steps only by Close, in read mode. The WAL is what  *)
(* module DurableLog says of it, an Append being one step.                 *)
(***************************************************************************)
EXTENDS ConsumerGroup, Sequences

CONSTANTS
  Clients, Reaper,      \* handler goroutines; the leaseExpiryLoop goroutine
  Topics, Consumed,     \* all topics; those that clients fetch from
  Groups, Dlq,          \* group names; Dlq[t] is the topic named t-dlq
  Requests,             \* Requests[c]: the requests client c may send
  None,                 \* nil; an unlocked mutex
  MaxRedeliveries,      \* cfg.MaxRedeliveries
  SyncEveryWrite,       \* cfg.SyncEveryWrite
  IOMayFail,            \* creating or appending to a WAL may return an error
  PersistMayFail,       \* a .state file may not be written, or be unreadable
  CanClose,             \* Broker.Close may be called
  MaxProduced,          \* bound: produce requests
  MaxNacked,            \* bound: redeliveries of a lease that is nacked again
  MaxCrashes            \* bound: crashes and restarts

GroupKeys == Consumed \X Groups
Threads == Clients \cup {Reaper}

Request == [op: {"create", "produce", "fetch", "ack", "nack"}, topic: Topics,
            group: Groups, max: Nat, poll: BOOLEAN, offset: Nat, value: Nat]

ASSUME ConstantsOK ==
  /\ Reaper \notin Clients
  /\ None \notin Threads \cup Request \cup GroupKeys \cup (GroupKeys \X Nat)
  /\ Consumed \subseteq Topics
  /\ Dlq \in [Consumed -> Topics] /\ \A t \in Consumed : Dlq[t] # t
  /\ \A c \in Clients : \A r \in Requests[c] :
       /\ r \in Request
       /\ r.op \in {"fetch", "ack", "nack"} => r.topic \in Consumed
  /\ MaxRedeliveries \in Nat
  /\ {SyncEveryWrite, IOMayFail, PersistMayFail, CanClose} \subseteq BOOLEAN
  /\ MaxProduced \in Nat /\ MaxNacked \in Nat /\ MaxCrashes \in Nat

\* A record: what a client produced, or a copy that a group dead-lettered.
Entry == [value: Nat, from: GroupKeys \cup {None}]

VARIABLES
  topics,      \* b.topics
  dirs,        \* the topic directories on disk
  log,         \* log[t]: the records of t.wal, offset o at index o + 1
  file,        \* file[t]: the log that NewWAL would find
  disk,        \* disk[t]: the logs that it might find after a power loss
  closedWals,  \* topics whose WAL is closed
  group,       \* group[k]: a group's committed offset and leases
  persisted,   \* persisted[k]: what loadGroups would find in the .state file
  pending,     \* pending[k]: t.pendingFetches[g], the waiting handlers
  resp,        \* resp[c]: what is in the handler's RespChan
  tmu, gmu,    \* holder of t.mu and of g.mu
  pc,          \* pc[th]: what the goroutine does next
  req,         \* req[c]: the request being served
  todo,        \* todo[c]: expired offsets fetchAvailable still has to visit
  msgs,        \* msgs[c]: messages gathered, then the last response
  dead,        \* dead[th]: <<key, offset>> being dead-lettered
  sweep,       \* topics the expiry loop still has to visit on this tick
  visit,       \* keys of the current topic it still has to visit
  closer,      \* progress of Close
  unclosed,    \* topics Close still has to close
  produced,    \* count of produce requests (names the values)
  acks,        \* history: values each group's consumers acked
  crashes      \* count of crashes

walVars == <<topics, dirs, log, file, disk, closedWals>>
groupVars == <<group, persisted, acks>>
queueVars == <<pending, resp>>
lockVars == <<tmu, gmu>>
reqVars == <<req, msgs>>
reaperVars == <<sweep, visit>>
otherVars == <<closer, unclosed, produced, crashes>>
vars == <<walVars, groupVars, queueVars, lockVars, pc, reqVars, todo, dead,
          reaperVars, otherVars>>

\* Where a goroutine can be between two steps.
Labels == {"idle", "create", "append", "dispatch", "blocked", "group", "ack",
           "nack", "nackDispatch", "fetch", "fetchExpired", "enqueue", "wait",
           "unqueue", "settle", "sweep", "reap", "stopped"}

WalTypeOK ==
  /\ topics \subseteq dirs /\ dirs \subseteq Topics /\ closedWals \subseteq Topics
  /\ {log, file} \subseteq [Topics -> Seq(Entry)]
  /\ disk \in [Topics -> SUBSET Seq(Entry)]
  /\ \A t \in Topics : file[t] \in disk[t]

GroupTypeOK ==
  /\ group = [k \in GroupKeys |-> group[k]]
  /\ \A k \in GroupKeys : IsGroup(group[k])
  /\ persisted \in [GroupKeys -> Nat]
  /\ acks \in [GroupKeys -> SUBSET Nat]

SyncTypeOK ==
  /\ pending \in [GroupKeys -> Seq(Clients)]
  /\ resp \in [Clients -> Seq(Nat)]
  /\ tmu \in [Topics -> Threads \cup {None}]
  /\ gmu \in [GroupKeys -> Threads \cup {None}]

ThreadTypeOK ==
  /\ pc \in [Threads -> Labels]
  /\ req \in [Clients -> Request \cup {None}]
  /\ todo \in [Clients -> SUBSET Nat]
  /\ msgs \in [Clients -> Seq(Nat)]
  /\ dead \in [Threads -> (GroupKeys \X Nat) \cup {None}]

RestTypeOK ==
  /\ sweep \subseteq Topics /\ visit \subseteq GroupKeys
  /\ closer \in {"open", "closed", "closing", "done"}
  /\ unclosed \subseteq Topics
  /\ produced \in Nat /\ crashes \in Nat

TypeOK == WalTypeOK /\ GroupTypeOK /\ SyncTypeOK /\ ThreadTypeOK /\ RestTypeOK

Init ==
  /\ topics = {} /\ dirs = {} /\ closedWals = {}
  /\ log = [t \in Topics |-> <<>>] /\ file = log
  /\ disk = [t \in Topics |-> {<<>>}]
  /\ group = [k \in GroupKeys |-> LoadedGroup(0)]
  /\ persisted = [k \in GroupKeys |-> 0]
  /\ acks = [k \in GroupKeys |-> {}]
  /\ pending = [k \in GroupKeys |-> <<>>]
  /\ resp = [c \in Clients |-> <<>>]
  /\ tmu = [t \in Topics |-> None]
  /\ gmu = [k \in GroupKeys |-> None]
  /\ pc = [th \in Threads |-> IF th = Reaper THEN "sweep" ELSE "idle"]
  /\ req = [c \in Clients |-> None]
  /\ msgs = [c \in Clients |-> <<>>]
  /\ todo = [c \in Clients |-> {}]
  /\ dead = [th \in Threads |-> None]
  /\ sweep = {} /\ visit = {}
  /\ closer = "open" /\ unclosed = {}
  /\ produced = 0 /\ crashes = 0

Goto(th, label) == pc' = [pc EXCEPT ![th] = label]

\* The handler answers its request with the messages m (or none).
Return(c, m) ==
  /\ Goto(c, "idle")
  /\ req' = [req EXCEPT ![c] = None]
  /\ msgs' = [msgs EXCEPT ![c] = m]

Key(c) == <<req[c].topic, req[c].group>>

\* wal.Read succeeds: its files are open.
Readable(t) == t \notin closedWals

Waiters(t) == \E k \in GroupKeys : k[1] = t /\ pending[k] # <<>>

\* Mutant: off by one, one redelivery too many.
ExhaustedLate(k, o) == group[k].leases[o].redeliveries > MaxRedeliveries

Exhausted(k, o) == group[k].leases[o].redeliveries >= MaxRedeliveries

\* Mutant: the expired offsets are not sorted.
FirstUnsorted(S) == CHOOSE o \in S : \A p \in S : p <= o

First(S) == CHOOSE o \in S : \A p \in S : o <= p

\* select with default: a send on the one-place channel, if it is empty.
Send(c, o) == resp' = IF resp[c] = <<>> THEN [resp EXCEPT ![c] = <<o>>] ELSE resp

(***************************************************************************)
(* group[k] becomes G; slideWindow saves the committed offset if it moved, *)
(* and drops the error if the save fails.                                  *)
(***************************************************************************)
SaveGroup(k, G) ==
  /\ group' = [group EXCEPT ![k] = G]
  /\ \/ /\ G.committed # group[k].committed
        /\ persisted' = [persisted EXCEPT ![k] = G.committed]
     \/ /\ G.committed = group[k].committed \/ PersistMayFail
        /\ UNCHANGED persisted

-----------------------------------------------------------------------------
(* Requests arrive *)

Begin(c, r) ==
  /\ pc[c] = "idle"
  /\ r.op = "produce" => produced < MaxProduced
  /\ r.op = "nack" => LET L == group[<<r.topic, r.group>>].leases
                      IN  r.offset \in DOMAIN L =>
                            L[r.offset].redeliveries < MaxNacked
  /\ Goto(c, IF r.op \in {"ack", "nack"} THEN "group" ELSE "create")
  /\ req' = [req EXCEPT ![c] = [r EXCEPT !.value = produced]]
  /\ msgs' = [msgs EXCEPT ![c] = <<>>]
  /\ produced' = IF r.op = "produce" THEN produced + 1 ELSE produced
  /\ UNCHANGED <<walVars, groupVars, queueVars, lockVars, todo, dead,
                 reaperVars, closer, unclosed, crashes>>

-----------------------------------------------------------------------------
(***************************************************************************)
(* Produce, called by a handler for its client or by fetchAvailable and    *)
(* the expiry loop for the dead-letter topic.                              *)
(***************************************************************************)

Target(th) == IF dead[th] # None THEN Dlq[dead[th][1][1]] ELSE req[th].topic

Payload(th) ==
  IF dead[th] # None
  THEN LET k == dead[th][1]
       IN  [value |-> log[k[1]][dead[th][2] + 1].value, from |-> k]
  ELSE [value |-> req[th].value, from |-> None]

\* Back to the caller: the dead-lettering code ignores Produce's result.
EndProduce(th) ==
  IF dead[th] # None
  THEN Goto(th, "settle") /\ UNCHANGED reqVars
  ELSE Return(th, <<>>)

\* If NewWAL or loadGroups fails, the directory may be there and the topic is not.
CreateTopic(th) ==
  /\ pc[th] = "create"
  /\ closer # "closing"
  /\ \/ /\ topics' = topics \cup {Target(th)}
        /\ dirs' = dirs \cup {Target(th)}
        /\ IF dead[th] # None \/ req[th].op = "produce"
           THEN Goto(th, "append") /\ UNCHANGED reqVars
           ELSE IF req[th].op = "fetch"
                THEN Goto(th, "group") /\ UNCHANGED reqVars
                ELSE Return(th, <<>>)
     \/ /\ IOMayFail /\ Target(th) \notin topics
        /\ EndProduce(th)
        /\ dirs' \in {dirs, dirs \cup {Target(th)}}
        /\ UNCHANGED topics
  /\ UNCHANGED <<log, file, disk, closedWals, groupVars, queueVars, lockVars, todo,
                 dead, reaperVars, otherVars>>

OnDisk(t, found, left) ==
  /\ file' = [file EXCEPT ![t] = found]
  /\ disk' = [disk EXCEPT ![t] = left]

(***************************************************************************)
(* t.wal.Append, which may first sync the old segment. A write that fails  *)
(* may leave the record for NewWAL to find; the error of a failed fsync    *)
(* comes after the record became visible.                                  *)
(***************************************************************************)
WalAppend(th) ==
  LET t == Target(th)
      written == Append(log[t], Payload(th))
  IN
  /\ pc[th] = "append"
  /\ \/ /\ t \in closedWals
        /\ EndProduce(th)
        /\ UNCHANGED <<log, file, disk>>
     \/ /\ t \notin closedWals
        /\ \E old \in {disk[t], {file[t]}} :
             \/ /\ log' = [log EXCEPT ![t] = written]
                /\ OnDisk(t, written, IF SyncEveryWrite THEN {written} ELSE old \cup {written})
                /\ Goto(th, "dispatch") /\ UNCHANGED reqVars
             \/ /\ IOMayFail
                /\ OnDisk(t, file[t], old) \/ OnDisk(t, written, old \cup {written})
                /\ EndProduce(th)
                /\ UNCHANGED log
             \/ /\ IOMayFail /\ SyncEveryWrite
                /\ log' = [log EXCEPT ![t] = written]
                /\ OnDisk(t, written, old \cup {written}) \/ OnDisk(t, written, {written})
                /\ EndProduce(th)
  /\ UNCHANGED <<topics, dirs, closedWals, groupVars, queueVars, lockVars, todo,
                 dead, reaperVars, otherVars>>

(***************************************************************************)
(* dispatchMessage takes t.mu and, for a group with a waiting fetch, calls *)
(* getOrCreateGroup, which takes t.mu again: a goroutine that gets there   *)
(* is "blocked" on the mutex it holds itself and has no further step.      *)
(***************************************************************************)
Dispatch(th) ==
  LET t == Target(th) IN
  /\ pc[th] = "dispatch"
  /\ \/ /\ ~Readable(t) \/ (tmu[t] = None /\ ~Waiters(t))
        /\ EndProduce(th)
        /\ UNCHANGED tmu
     \/ /\ Readable(t) /\ tmu[t] = None /\ Waiters(t)
        /\ tmu' = [tmu EXCEPT ![t] = th]
        /\ Goto(th, "blocked")
        /\ UNCHANGED reqVars
  /\ UNCHANGED <<walVars, groupVars, queueVars, gmu, todo, dead, reaperVars,
                 otherVars>>

-----------------------------------------------------------------------------
(* Fetch, Ack and Nack of a handler *)

\* Ack and Nack look the topic up; all three then call getOrCreateGroup.
GetOrCreateGroup(c) ==
  /\ pc[c] = "group"
  /\ \/ /\ req[c].topic \notin topics
        /\ Return(c, <<>>)
     \/ /\ req[c].topic \in topics
        /\ tmu[req[c].topic] = None
        /\ Goto(c, req[c].op)
        /\ UNCHANGED reqVars
  /\ UNCHANGED <<walVars, groupVars, queueVars, lockVars, todo, dead, reaperVars,
                 otherVars>>

Ack(c) ==
  LET k == Key(c)
      o == req[c].offset
  IN
  /\ pc[c] = "ack"
  /\ gmu[k] = None
  /\ \/ /\ o < group[k].committed \/ o \notin DOMAIN group[k].leases
        /\ UNCHANGED groupVars
     \/ /\ o >= group[k].committed /\ o \in DOMAIN group[k].leases
        /\ SaveGroup(k, Settle(group[k], o))
        /\ acks' = [acks EXCEPT ![k] = @ \cup {log[k[1]][o + 1].value}]
  /\ Return(c, <<>>)
  /\ UNCHANGED <<walVars, queueVars, lockVars, todo, dead, reaperVars, otherVars>>

\* Nack, up to the lock of t.mu that it takes while it holds g.mu.
NackLease(c) ==
  LET k == Key(c)
      o == req[c].offset
  IN
  /\ pc[c] = "nack"
  /\ gmu[k] = None
  /\ \/ /\ o \notin DOMAIN group[k].leases \/ IsAcked(group[k], o)
        /\ Return(c, <<>>)
        /\ UNCHANGED <<group, gmu>>
     \/ /\ o \in DOMAIN group[k].leases /\ ~IsAcked(group[k], o)
        /\ group' = [group EXCEPT ![k] = Expire(@, o)]
        /\ gmu' = [gmu EXCEPT ![k] = c]
        /\ Goto(c, "nackDispatch")
        /\ UNCHANGED reqVars
  /\ UNCHANGED <<walVars, persisted, acks, queueVars, tmu, todo, dead,
                 reaperVars, otherVars>>

\* Mutant: the path without a waiting fetch keeps g.mu.
NackDispatchHold(c) ==
  LET k == Key(c) IN
  /\ pc[c] = "nackDispatch"
  /\ tmu[k[1]] = None /\ pending[k] = <<>>
  /\ Return(c, <<>>)
  /\ UNCHANGED <<walVars, groupVars, queueVars, lockVars, todo, dead, reaperVars,
                 otherVars>>

\* The first waiting fetch gets the message, whatever its redeliveries.
NackDispatch(c) ==
  LET k == Key(c)
      o == req[c].offset
  IN
  /\ pc[c] = "nackDispatch"
  /\ tmu[k[1]] = None
  /\ \/ /\ pending[k] = <<>>
        /\ UNCHANGED <<group, queueVars>>
     \/ /\ pending[k] # <<>>
        /\ pending' = [pending EXCEPT ![k] = Tail(@)]
        /\ group' = [group EXCEPT ![k] = Redeliver(@, o)]
        /\ IF Readable(k[1]) THEN Send(Head(pending[k]), o) ELSE UNCHANGED resp
  /\ gmu' = [gmu EXCEPT ![k] = None]
  /\ Return(c, <<>>)
  /\ UNCHANGED <<walVars, persisted, acks, tmu, todo, dead, reaperVars, otherVars>>

\* fetchAvailable collects and sorts the expired offsets.
FetchLock(c) ==
  LET k == Key(c) IN
  /\ pc[c] = "fetch"
  /\ gmu[k] = None
  /\ gmu' = [gmu EXCEPT ![k] = c]
  /\ todo' = [todo EXCEPT ![c] = ExpiredOffsets(group[k])]
  /\ Goto(c, "fetchExpired")
  /\ UNCHANGED <<walVars, groupVars, queueVars, tmu, reqVars, dead, reaperVars,
                 otherVars>>

HasRoom(c) == Len(msgs[c]) < req[c].max

\* One turn of fetchAvailable's loop over the expired offsets.
FetchExpired(c) ==
  LET k == Key(c)
      o == First(todo[c])
  IN
  /\ pc[c] = "fetchExpired"
  /\ todo[c] # {} /\ HasRoom(c)
  /\ \/ /\ Exhausted(k, o)
        /\ dead' = [dead EXCEPT ![c] = <<k, o>>]
        /\ Goto(c, IF Readable(k[1]) THEN "create" ELSE "settle")
        /\ UNCHANGED <<group, msgs, todo>>
     \/ /\ ~Exhausted(k, o)
        /\ todo' = [todo EXCEPT ![c] = @ \ {o}]
        /\ IF Readable(k[1])
           THEN /\ group' = [group EXCEPT ![k] = Redeliver(@, o)]
                /\ msgs' = [msgs EXCEPT ![c] = Append(@, o)]
           ELSE UNCHANGED <<group, msgs>>
        /\ UNCHANGED <<pc, dead>>
  /\ UNCHANGED <<walVars, persisted, acks, queueVars, lockVars, req, reaperVars,
                 otherVars>>

\* How many never-leased records the rest of fetchAvailable takes.
NewCount(c) ==
  LET k == Key(c)
      unread == IF Readable(k[1]) /\ NextOffset(group[k]) < Len(log[k[1]])
                THEN Len(log[k[1]]) - NextOffset(group[k]) ELSE 0
      room == IF HasRoom(c) THEN req[c].max - Len(msgs[c]) ELSE 0
  IN  IF unread < room THEN unread ELSE room

\* n new records; fewer than there are only if the WAL is closed meanwhile.
FetchNew(c, n) ==
  LET k == Key(c)
      found == msgs[c] \o [i \in 1 .. n |-> NextOffset(group[k]) + i - 1]
  IN
  /\ pc[c] = "fetchExpired"
  /\ todo[c] = {} \/ ~HasRoom(c)
  /\ n = NewCount(c) \/ closer = "closing"
  /\ group' = [group EXCEPT ![k] = LeaseNew(@, n)]
  /\ gmu' = [gmu EXCEPT ![k] = None]
  /\ todo' = [todo EXCEPT ![c] = {}]
  /\ IF found = <<>> /\ req[c].poll
     THEN Goto(c, "enqueue") /\ UNCHANGED reqVars
     ELSE Return(c, found)
  /\ UNCHANGED <<walVars, persisted, acks, queueVars, tmu, dead, reaperVars,
                 otherVars>>

Enqueue(c) ==
  LET k == Key(c) IN
  /\ pc[c] = "enqueue"
  /\ tmu[k[1]] = None
  /\ pending' = [pending EXCEPT ![k] = Append(@, c)]
  /\ Goto(c, "wait")
  /\ UNCHANGED <<walVars, groupVars, resp, lockVars, reqVars, todo, dead,
                 reaperVars, otherVars>>

\* Mutant: the answered channel is used again.
ReceiveKeep(c) ==
  /\ pc[c] = "wait"
  /\ resp[c] # <<>>
  /\ Return(c, resp[c])
  /\ UNCHANGED <<walVars, groupVars, queueVars, lockVars, todo, dead, reaperVars,
                 otherVars>>

\* select: the channel has the messages ...
Receive(c) ==
  /\ pc[c] = "wait"
  /\ resp[c] # <<>>
  /\ Return(c, resp[c])
  /\ resp' = [resp EXCEPT ![c] = <<>>]
  /\ UNCHANGED <<walVars, groupVars, pending, lockVars, todo, dead, reaperVars,
                 otherVars>>

\* ... or the timer fired, even if the channel has them too.
PollTimeout(c) ==
  /\ pc[c] = "wait"
  /\ Goto(c, "unqueue")
  /\ UNCHANGED <<walVars, groupVars, queueVars, lockVars, reqVars, todo, dead,
                 reaperVars, otherVars>>

\* Mutant: the fetch that timed out stays in the queue.
UnqueueLeak(c) ==
  /\ pc[c] = "unqueue"
  /\ tmu[Key(c)[1]] = None
  /\ resp' = [resp EXCEPT ![c] = <<>>]
  /\ Return(c, <<>>)
  /\ UNCHANGED <<walVars, groupVars, pending, lockVars, todo, dead, reaperVars,
                 otherVars>>

\* The queue without its first entry for c, if it has one.
Without(q, c) ==
  LET at == {i \in 1 .. Len(q) : q[i] = c}
  IN  IF at = {} THEN q
      ELSE SubSeq(q, 1, First(at) - 1) \o SubSeq(q, First(at) + 1, Len(q))

\* The cleanup after a timeout; what the channel holds is thrown away.
Unqueue(c) ==
  LET k == Key(c) IN
  /\ pc[c] = "unqueue"
  /\ tmu[k[1]] = None
  /\ pending' = [pending EXCEPT ![k] = Without(@, c)]
  /\ resp' = [resp EXCEPT ![c] = <<>>]
  /\ Return(c, <<>>)
  /\ UNCHANGED <<walVars, groupVars, lockVars, todo, dead, reaperVars, otherVars>>

-----------------------------------------------------------------------------
(* The lease-expiry loop *)

\* ticker.C: copy the topics, unless the broker is closed.
Tick ==
  /\ pc[Reaper] = "sweep" /\ sweep = {}
  /\ IF closer = "open"
     THEN sweep' = topics /\ UNCHANGED pc
     ELSE Goto(Reaper, "stopped") /\ UNCHANGED sweep
  /\ UNCHANGED <<walVars, groupVars, queueVars, lockVars, reqVars, todo, dead,
                 visit, otherVars>>

\* checkExpiredLeases(t) takes t.mu and keeps it while it visits the groups.
SweepTopic(t) ==
  /\ pc[Reaper] = "sweep" /\ t \in sweep
  /\ tmu[t] = None
  /\ IF Waiters(t)
     THEN /\ tmu' = [tmu EXCEPT ![t] = Reaper]
          /\ visit' = {k \in GroupKeys : k[1] = t /\ pending[k] # <<>>}
          /\ Goto(Reaper, "reap")
          /\ UNCHANGED sweep
     ELSE sweep' = sweep \ {t} /\ UNCHANGED <<tmu, visit, pc>>
  /\ UNCHANGED <<walVars, groupVars, queueVars, gmu, reqVars, todo, dead,
                 otherVars>>

\* After the last group of the topic, t.mu is released.
EndVisit(k) ==
  /\ visit' = visit \ {k}
  /\ IF visit = {k}
     THEN /\ tmu' = [tmu EXCEPT ![k[1]] = None]
          /\ sweep' = sweep \ {k[1]}
          /\ Goto(Reaper, "sweep")
     ELSE Goto(Reaper, "reap") /\ UNCHANGED <<tmu, sweep>>

\* The first waiting fetch leaves the queue even if it is sent nothing.
ReapGroup(k) ==
  LET o == First(ExpiredOffsets(group[k])) IN
  /\ pc[Reaper] = "reap" /\ k \in visit
  /\ gmu[k] = None
  /\ \/ /\ pending[k] = <<>> \/ ExpiredOffsets(group[k]) = {}
        /\ EndVisit(k)
        /\ UNCHANGED <<group, queueVars, gmu, dead>>
     \/ /\ pending[k] # <<>> /\ ExpiredOffsets(group[k]) # {}
        /\ pending' = [pending EXCEPT ![k] = Tail(@)]
        /\ IF Exhausted(k, o)
           THEN /\ gmu' = [gmu EXCEPT ![k] = Reaper]
                /\ dead' = [dead EXCEPT ![Reaper] = <<k, o>>]
                /\ Goto(Reaper, IF Readable(k[1]) THEN "create" ELSE "settle")
                /\ UNCHANGED <<group, resp, tmu, reaperVars>>
           ELSE /\ IF Readable(k[1])
                   THEN /\ group' = [group EXCEPT ![k] = Redeliver(@, o)]
                        /\ Send(Head(pending[k]), o)
                   ELSE UNCHANGED <<group, resp>>
                /\ EndVisit(k)
                /\ UNCHANGED <<gmu, dead>>
  /\ UNCHANGED <<walVars, persisted, acks, reqVars, todo, otherVars>>

\* lease.Acked = true and slideWindow, after the try to dead-letter.
SettleDead(th) ==
  LET k == dead[th][1]
      o == dead[th][2]
  IN
  /\ pc[th] = "settle"
  /\ SaveGroup(k, Settle(group[k], o))
  /\ dead' = [dead EXCEPT ![th] = None]
  /\ IF th = Reaper
     THEN /\ gmu' = [gmu EXCEPT ![k] = None]
          /\ EndVisit(k)
          /\ UNCHANGED todo
     ELSE /\ todo' = [todo EXCEPT ![th] = @ \ {o}]
          /\ Goto(th, "fetchExpired")
          /\ UNCHANGED <<lockVars, reaperVars>>
  /\ UNCHANGED <<walVars, acks, queueVars, reqVars, otherVars>>

-----------------------------------------------------------------------------
(* Close *)

CloseBegin ==
  /\ CanClose /\ closer = "open"
  /\ closer' = "closed"
  /\ UNCHANGED <<walVars, groupVars, queueVars, lockVars, pc, reqVars, todo, dead,
                 reaperVars, unclosed, produced, crashes>>

CloseLock ==
  /\ closer = "closed"
  /\ closer' = "closing"
  /\ unclosed' = topics
  /\ UNCHANGED <<walVars, groupVars, queueVars, lockVars, pc, reqVars, todo, dead,
                 reaperVars, produced, crashes>>

\* The files are closed even if their last fsync fails.
CloseTopic(t) ==
  /\ closer = "closing" /\ t \in unclosed
  /\ tmu[t] = None
  /\ closedWals' = closedWals \cup {t}
  /\ \/ disk' = [disk EXCEPT ![t] = {file[t]}]
     \/ IOMayFail /\ UNCHANGED disk
  /\ unclosed' = unclosed \ {t}
  /\ UNCHANGED <<topics, dirs, log, file, groupVars, queueVars, lockVars, pc, reqVars, todo,
                 dead, reaperVars, closer, produced, crashes>>

CloseEnd ==
  /\ closer = "closing" /\ unclosed = {}
  /\ closer' = "done"
  /\ UNCHANGED <<walVars, groupVars, queueVars, lockVars, pc, reqVars, todo, dead,
                 reaperVars, unclosed, produced, crashes>>

-----------------------------------------------------------------------------
(* Time, the WAL's flush loop, crashes *)

ExpireLease(k, o) ==
  /\ o \in DOMAIN group[k].leases
  /\ ~group[k].leases[o].expired /\ ~group[k].leases[o].acked
  /\ group' = [group EXCEPT ![k] = Expire(@, o)]
  /\ UNCHANGED <<walVars, persisted, acks, queueVars, lockVars, pc, reqVars, todo,
                 dead, reaperVars, otherVars>>

Flush(t) ==
  /\ ~SyncEveryWrite /\ t \in topics \ closedWals
  /\ disk[t] # {file[t]}
  /\ disk' = [disk EXCEPT ![t] = {file[t]}]
  /\ UNCHANGED <<topics, dirs, log, file, closedWals, groupVars, queueVars, lockVars, pc,
                 reqVars, todo, dead, reaperVars, otherVars>>

(***************************************************************************)
(* The process or the machine goes down, and NewBroker opens the data      *)
(* directory again, a topic for every directory. A log is what a power     *)
(* loss left of it; if only the process died, what the file holds. A group *)
(* whose .state file cannot be read is not loaded: it begins at 0 again.   *)
(***************************************************************************)
Crash(left, skipped) ==
  /\ crashes < MaxCrashes
  /\ \/ /\ \A t \in Topics : left[t] \in disk[t]
        /\ disk' = [t \in Topics |-> {left[t]}]
     \/ /\ left = file
        /\ UNCHANGED disk
  /\ log' = left /\ file' = left
  /\ topics' = dirs
  /\ skipped = {} \/ PersistMayFail
  /\ persisted' = [k \in GroupKeys |-> IF k \in skipped THEN 0 ELSE persisted[k]]
  /\ closedWals' = {}
  /\ group' = [k \in GroupKeys |-> LoadedGroup(persisted'[k])]
  /\ pending' = [k \in GroupKeys |-> <<>>]
  /\ resp' = [c \in Clients |-> <<>>]
  /\ tmu' = [t \in Topics |-> None]
  /\ gmu' = [k \in GroupKeys |-> None]
  /\ pc' = [th \in Threads |-> IF th = Reaper THEN "sweep" ELSE "idle"]
  /\ req' = [c \in Clients |-> None]
  /\ msgs' = [c \in Clients |-> <<>>]
  /\ todo' = [c \in Clients |-> {}]
  /\ dead' = [th \in Threads |-> None]
  /\ sweep' = {} /\ visit' = {}
  /\ closer' = "open" /\ unclosed' = {}
  /\ crashes' = crashes + 1
  /\ UNCHANGED <<dirs, acks, produced>>

-----------------------------------------------------------------------------
ProduceStep(th) == CreateTopic(th) \/ WalAppend(th) \/ Dispatch(th) \/ SettleDead(th)

ClientStep(c) ==
  \/ GetOrCreateGroup(c) \/ Ack(c) \/ NackLease(c) \/ NackDispatch(c)
  \/ FetchLock(c) \/ FetchExpired(c) \/ Enqueue(c)
  \/ (pc[c] = "fetchExpired" /\ \E n \in 0 .. NewCount(c) : FetchNew(c, n))
  \/ Receive(c) \/ PollTimeout(c) \/ Unqueue(c)

ReaperStep ==
  \/ Tick
  \/ \E t \in Topics : SweepTopic(t)
  \/ \E k \in GroupKeys : ReapGroup(k)

CloseStep == CloseBegin \/ CloseLock \/ (\E t \in Topics : CloseTopic(t)) \/ CloseEnd

Next ==
  \/ \E c \in Clients : \E r \in Requests[c] : Begin(c, r)
  \/ \E th \in Threads : ProduceStep(th)
  \/ \E c \in Clients : ClientStep(c)
  \/ ReaperStep
  \/ CloseStep
  \/ \E k \in GroupKeys : \E o \in DOMAIN group[k].leases : ExpireLease(k, o)
  \/ \E t \in Topics : Flush(t)
  \/ \E left \in [Topics -> UNION {disk[t] : t \in Topics}], skipped \in SUBSET GroupKeys :
       Crash(left, skipped)

Spec == Init /\ [][Next]_vars

(***************************************************************************)
(* Fairness. A goroutine that can run keeps running, and a Go mutex is     *)
(* handed to its longest waiter (starvation mode), so a step that is       *)
(* enabled again and again is taken: strong fairness of each goroutine.    *)
(* Time passes, so a lease that is not settled expires. The consumers are  *)
(* assumed to go on fetching.                                              *)
(***************************************************************************)
ThreadStep(th) ==
  \/ ProduceStep(th)
  \/ th \in Clients /\ ClientStep(th)
  \/ th = Reaper /\ ReaperStep

Fairness ==
  /\ \A th \in Threads : SF_vars(ThreadStep(th))
  /\ \A k \in GroupKeys : \A o \in 0 .. MaxProduced : WF_vars(ExpireLease(k, o))
  /\ \A c \in Clients : \A r \in Requests[c] :
       r.op = "fetch" => SF_vars(Begin(c, r))

FairSpec == Spec /\ Fairness

-----------------------------------------------------------------------------
(* Safety *)

(***************************************************************************)
(* fetchAvailable, Ack, Nack, dead-lettering and slideWindow together keep *)
(* a group's leases a gapless window from the committed offset on, inside  *)
(* the log: no record is skipped and none leased that is not there.        *)
(***************************************************************************)
LeaseWindow ==
  \A k \in GroupKeys :
    /\ DOMAIN group[k].leases = group[k].committed .. (NextOffset(group[k]) - 1)
    /\ \A o \in DOMAIN group[k].leases : o < Len(log[k[1]])

\* Group k is done with the record: acked, or copied to the dead-letter topic.
Settled(k, v) ==
  \/ v \in acks[k]
  \/ \E i \in 1 .. Len(log[Dlq[k[1]]]) :
       log[Dlq[k[1]]][i] = [value |-> v, from |-> k]

(***************************************************************************)
(* At-least-once delivery: whatever the order of acks, nacks, expiries,    *)
(* dead-lettering, crashes and failed saves of the state file, every       *)
(* record below a group's committed offset (slideWindow), in memory or in  *)
(* the file, was acked by that group or is in its dead-letter topic.       *)
(***************************************************************************)
NothingLost ==
  \A k \in GroupKeys :
    /\ persisted[k] <= group[k].committed
    /\ \A o \in 0 .. (group[k].committed - 1) :
         o < Len(log[k[1]]) /\ Settled(k, log[k[1]][o + 1].value)

(***************************************************************************)
(* t.pendingFetches only names handlers that are in Fetch's select for     *)
(* that group or on their way out of it, each once, with an empty channel: *)
(* a send (Nack, checkExpiredLeases) is never dropped by select's default, *)
(* and what is sent belongs to the group's window or was settled since.    *)
(***************************************************************************)
QueueSound ==
  /\ \A k \in GroupKeys : \A i \in 1 .. Len(pending[k]) :
       LET c == pending[k][i] IN
       /\ pc[c] \in {"wait", "unqueue"} /\ Key(c) = k
       /\ resp[c] = <<>>
       /\ \A j \in 1 .. Len(pending[k]) : pending[k][j] = c => i = j
  /\ \A c \in Clients : resp[c] # <<>> =>
       /\ pc[c] \in {"wait", "unqueue"}
       /\ resp[c][1] < NextOffset(group[Key(c)])

(***************************************************************************)
(* fetchAvailable: an answer has ascending offsets, each once, although    *)
(* expired leases come from a Go map and new records from the log; and     *)
(* while it is put together under g.mu every message in it keeps a lease   *)
(* that is not settled, even if later ones are dead-lettered.              *)
(***************************************************************************)
AnswerOrdered ==
  \A c \in Clients :
    /\ \A i, j \in 1 .. Len(msgs[c]) : i < j => msgs[c][i] < msgs[c][j]
    /\ pc[c] = "fetchExpired" => \A i \in 1 .. Len(msgs[c]) :
         /\ msgs[c][i] \in DOMAIN group[Key(c)].leases
         /\ ~IsAcked(group[Key(c)], msgs[c][i])

(***************************************************************************)
(* As long as no fetch waits in a long poll, nobody waits for ever for a   *)
(* lock: t.mu is free between any two steps, and a g.mu that is taken      *)
(* belongs to a handler inside fetchAvailable or Nack of that very group,  *)
(* or on its way through Produce, which needs no other g.mu (coordinator.go*)
(* locks g.mu before t.mu in Nack and Produce, after it in the sweep).     *)
(***************************************************************************)
NoCircularWait ==
  /\ \A t \in Topics : tmu[t] = None
  /\ \A k \in GroupKeys : gmu[k] # None => \E c \in Clients :
       /\ gmu[k] = c
       /\ pc[c] \in {"fetchExpired", "nackDispatch", "create", "append",
                    "dispatch", "settle"}
       /\ Key(c) = k

(***************************************************************************)
(* A step never hands out a leased message again (Redeliveries++) while    *)
(* its lease runs or after it was acked: fetchAvailable, Nack and          *)
(* checkExpiredLeases race for the same lease.                             *)
(***************************************************************************)
NoEarlyRedelivery ==
  [][\A k \in GroupKeys : \A o \in DOMAIN group[k].leases \cap DOMAIN group'[k].leases :
       group'[k].leases[o].redeliveries > group[k].leases[o].redeliveries
         => group[k].leases[o].expired /\ ~group[k].leases[o].acked]_vars

(***************************************************************************)
(* A record reaches the dead-letter topic at most once for a group, only   *)
(* when it used up its redeliveries, and never once the group acked it     *)
(* (fetchAvailable against checkExpiredLeases against Ack). Without        *)
(* crashes: a restart forgets the leases.                                  *)
(***************************************************************************)
DeadLetterOnce ==
  [][\A k \in GroupKeys :
       LET d == log[Dlq[k[1]]]
           e == log'[Dlq[k[1]]][Len(d) + 1]
       IN  /\ Len(log'[Dlq[k[1]]]) > Len(d)
           /\ e.from = k
           => /\ ~Settled(k, e.value)
              /\ \E o \in DOMAIN group[k].leases :
                   /\ log[k[1]][o + 1].value = e.value
                   /\ group[k].leases[o].redeliveries >= MaxRedeliveries]_vars

(***************************************************************************)
(* The broker implements the work queue of module WorkQueue: fetchAvailable*)
(* leases the records of a topic in order and without gaps, a record leaves*)
(* the group only by an Ack or when it was dead-lettered, one at a time,   *)
(* and loading the group after a crash goes back at least to the first     *)
(* record that was not settled, even if saves of the offset failed.        *)
(***************************************************************************)
Work == INSTANCE WorkQueue WITH
  Keys <- GroupKeys,
  size <- [t \in Topics |-> Len(log[t])],
  next <- [k \in GroupKeys |-> NextOffset(group[k])],
  out <- [k \in GroupKeys |->
            {o \in DOMAIN group[k].leases : ~group[k].leases[o].acked}]

ImplementsWorkQueue == Work!Spec

-----------------------------------------------------------------------------
(* What the comments say and the code does not do (each has a run) *)

\* MaxRedeliveries bounds the redeliveries of a message: Nack does not ask when
\* a fetch waits (without one the bound holds).
RedeliveriesBounded ==
  \A k \in GroupKeys : \A o \in DOMAIN group[k].leases :
    group[k].leases[o].redeliveries <= MaxRedeliveries

\* Produce dispatches to waiting consumers and returns: dispatchMessage locks
\* t.mu twice when there is one.
ProduceReturns == \A c \in Clients : pc[c] = "append" ~> pc[c] = "idle"

\* Nack makes the message available and returns: it holds g.mu and waits for
\* t.mu, checkExpiredLeases holds t.mu and waits for g.mu.
NackReturns == \A c \in Clients : pc[c] = "nack" ~> pc[c] = "idle"

-----------------------------------------------------------------------------
(* Liveness *)

\* Every request is answered: no handler waits for ever for a lock.
RequestsReturn == \A c \in Clients : pc[c] # "idle" ~> pc[c] = "idle"

(***************************************************************************)
(* No record is redelivered for ever or stuck behind one that is: each one *)
(* in the log is eventually settled and the committed offset passes it,    *)
(* even if no consumer ever acks it (then it is dead-lettered).            *)
(***************************************************************************)
EventuallySettled ==
  \A k \in GroupKeys : \A o \in 0 .. (MaxProduced - 1) :
    Len(log[k[1]]) > o ~> group[k].committed > o
=============================================================================
