# Tumbleweed in TLA+

A TLA+ model of Tumbleweed, a message broker in Go: topics kept in write-ahead
logs, consumer groups with leases, long polling, redelivery and dead-letter
topics. Paths below are relative to the repository (`src/`).

## The system

| part | state | operations | interacts with |
|---|---|---|---|
| write-ahead log `pkg/wal/wal.go` | segment and index files, sizes, next offset, closed | Append (with roll), Read, Flush and the flush loop, Close, NewWAL (recovery) | called by the broker; the disk |
| consumer group `pkg/broker/coordinator.go` | committed offset, leases, the `.state` file | lease, redeliver, expire, ack, slideWindow, persistState | under `g.mu`, by every broker operation |
| broker `pkg/broker/coordinator.go` | topics, groups, queues of waiting fetches, `b.mu`, `t.mu`, `g.mu`, closed | CreateTopic, Produce, Fetch, Ack, Nack, the lease-expiry loop, Close, NewBroker | WAL, groups; waiting fetches through one-place channels |
| server `pkg/server/server.go` | listener, handlers, their count, closed | Start, one handler per connection, Stop | calls the broker, one request at a time per connection |
| protocol `pkg/protocol/protocol.go` | none | frames and message bodies, to and from bytes | server and client |
| client `pkg/client/client.go` | connection, request number | Connect, one request and one response at a time, Close | server |
| daemon `cmd/tumbleweed/main.go` | the process: main goroutine, signal goroutine | start; on a signal Stop, Close, exit | server, broker |
| CLI `cmd/tumbleweed-cli/main.go` | none | arguments to one request | client |
| config `pkg/config` | none | defaults | all |

What is hard to get right, and hard to test:

- **locks**: `t.mu` and `g.mu` are taken in both orders, `t.mu` twice by one
  goroutine, and `b.mu` inside both;
- **leases**: handlers, the expiry loop, Ack and Nack race for the same lease,
  while time passes;
- **long polls**: the timer against the answer, the queue against the channel;
- **crashes**: leases are not saved, the committed offset is saved after it
  moved, log and index files are written and synced separately, recovery does not
  sync what it cuts off, and a failed append may come back;
- **errors that are ignored**: saving the state file, writing a dead letter;
- **connections**: they break before, during or after the execution of a request;
  the client numbers its requests and does not compare the numbers, has no
  timeout, and may reconnect while the handler of its old connection still runs;
- **shutdown**: the accept loop, the handlers, the signal goroutine and `main`
  each end in their own time;
- **lengths**: names have 16-bit lengths that nobody checks before encoding.

What makes each part correct: the WAL loses no durable record and never changes
one; a group's leases are a window without gaps and its committed offset passes
only settled records; the queues name only handlers that wait; every request is
answered and every record is settled in the end. A request is executed as it was
sent and at most once, its answer reaches its own call, every call returns, and
a signal ends the process.

## Modules

| module | models |
|---|---|
| `ConsumerGroup` | one group: leases, next offset, slideWindow, redelivery, as operators |
| `Coordinator` | the broker, all goroutines, crash and restart |
| `WorkQueue` | what the broker promises a consumer group; `Coordinator` implements it |
| `MCCoordinator` | its instances for TLC |
| `DurableLog` | what the broker expects of a WAL: a sequence of values, what the files hold of it, and what a power loss may leave |
| `WAL` | segments, index files, Append, recovery; implements `DurableLog` |
| `MCWAL` | its instances for TLC |
| `Wire` | the wire format: Marshal and Unmarshal of every message, as operators |
| `Connection` | TCP connections as the code uses them: streams of frames, backlog, resets (external) |
| `Client` | Connect, a call, Close |
| `Server` | accept loop, handlers, Stop, and the daemon's goroutines |
| `RemoteCall` | what a caller may rely on |
| `Service` | clients and daemon over connections that break; implements `RemoteCall` |
| `Cli` | the command line: rearrangeArgs, the request of a command |
| `Codec` | one message of any kind, encoded and decoded |
| `MCService` | instances of `Service`, bounded inputs for the codec and the command line |
| `CoordinatorProofs` | lemmas about the operators of a group; type correctness and the lease window, for all constants |
| `DeliveryProofs` | at-least-once delivery, and dead-lettering once |
| `LeaseProofs` | who may touch a lease: answers in order, no early redelivery |
| `QueueProofs` | the broker implements `WorkQueue`; the queues of waiting fetches are sound; who holds `g.mu`, and what holds without long polls |
| `ServiceProofs` | types, the count of handlers, Stop, what is executed for a call; clients and daemon implement `RemoteCall` |
| `WireProofs` | what Marshal writes, Unmarshal reads back, and nothing that is cut off |
| `CodecProofs` | the same of every request, response and error |
| `WALProofs` | the WAL's invariant; the WAL implements `DurableLog` |

### Coordinator

A goroutine is a connection handler (`Clients`) or the lease-expiry loop
(`Reaper`); `pc` says what it does next. A step is a critical section of the
code. Where a critical section takes another lock it is split there, and the
lock it keeps is in `tmu` or `gmu`, so every wait for a lock of the code is a
guard of the model: Nack (`NackLease`, `NackDispatch`), the sweep of a topic
(`SweepTopic`, `ReapGroup`), and dead-lettering, in which a handler or the
expiry loop runs Produce (`CreateTopic`, `WalAppend`, `Dispatch`) for the
dead-letter topic with `g.mu` held and then settles the lease (`SettleDead`).
`Dispatch` ends in "blocked" when a consumer waits, because dispatchMessage
calls getOrCreateGroup with `t.mu` held; the code behind that call is never
reached and has no action.

Fetch is `CreateTopic`, `GetOrCreateGroup`, `FetchLock`, one `FetchExpired` for
each expired offset, `FetchNew`, and for a long poll `Enqueue` and then
`Receive` or `PollTimeout` and `Unqueue`. `SaveGroup` is slideWindow's save of the
state file, which may fail.

A log is what `DurableLog` says: `log[t]` is what the broker reads, `file[t]` what
NewWAL would find, one record more after an append that failed, and `disk[t]` what
it might find after a power loss. `WalAppend` syncs the segment before if it rolls,
writes, and syncs if sync-every-write is set; each of these may fail (`IOMayFail`), and
a failed write may leave its record or not. `CloseTopic` closes the files even if
their last fsync fails. `Crash(left, skipped)` is the end of the process and
NewBroker: the logs are as a power loss left them, or as the file is if only the
process died; every directory in `topics/` is a topic, so one whose CreateTopic
failed half-way (`dirs`) appears; the groups come from their state files, and those
in `skipped`, which cannot be read, begin at 0.

What is abstracted: a message is a number, its key, timestamp and bytes are left
out; a lease's Expiry is a flag that time may set at any moment (`ExpireLease`);
ConsumerID is never read by the code and left out, and so is
PendingFetch.MaxMessages. A group exists from the start with offset 0, which is
what getOrCreateGroup makes of one it does not know. `b.mu` is held across steps
only by Close. That a waiting writer keeps new readers of `b.mu` out is not
modelled. Reading a WAL fails only when it is closed. `acks` is a history
variable; `produced` numbers the messages. A state file that was not read at one
start counts as lost; that it is read again at a later one, and that a power loss
takes back a rename which had been visible, are not modelled. A roll that fails
half-way leaves nothing the broker can tell from a failed append.

`WorkQueue` sees of the broker how many records a topic has, the first one a group
was never given, and which ones are out, given and not settled. Records are given
out for the first time in order and without gaps, leave one at a time, and after
a restart delivery goes back at least to the oldest one that was out, and a topic
may be shorter, or longer by the one record whose append had failed. The
refinement mapping is `Len(log[t])`, `NextOffset(group[k])` and the leases that are
not acked; redelivery, expiry, queues and locks are stuttering.

### WAL

A log file is a sequence of cells: the magic byte, the offset and the lengths of
the header, and pieces of the body. Positions count cells, so partial writes,
overwriting and cutting a file are what they are in the code. Append has three
steps, between which only a crash can come, since `w.mu` is held: `AppendBegin`
(with roll), `AppendWrite` (log and index), `AppendSync`. A failed write leaves part
of the record in the file, beyond the size the WAL knows, and the next one is
written over it.

`files[b].log` is what reading the file yields, and `files[b].disk` all that a power
loss may leave of it: every content it had since its last sync, and what a write
that was under way may have made of it (`WriteLog`). So what was written over, or cut
off by a recovery, may come back. The index has no such set, because NewWAL compares
each entry with the log and rebuilds what does not fit: a power loss leaves it or
nothing. `Reopen` is NewWAL after Close or the end of the process, on the
files as they are; `PowerLoss` is NewWAL on one version of each. `Open` is the
scan over headers, the truncation, which is not synced, the index check, and the next
offset. `Stray` is the number that bytes yield which are not a header's, where
recovery reads one.

`Torn` says whether a write may stop anywhere. If not, what is in the file after a
write that was cut short is the whole record, nothing of it, or a part of its header
with no bytes behind that would complete it. That is an assumption on the disk, not
on the code, and recovery relies on it: run `wal_torn_body` is the counterexample
without it, and a header which stops inside the bytes of an older failed record is
another of its cases.

Not modelled: record bytes that look like a magic byte where the scan looks for
one; cells of one write that reach the disk out of order; an fsync that fails
and drops what it should have written, so that a later one succeeds without it; a
file or a name in a directory that a power loss loses although the file was
created; and lengths near 2^32.

The refinement mapping of `ImplementsDurableLog`: the log is what `Read` returns for
the offsets below `nextOffset`; `file` and `disk` are the same with the records that
the scan finds in the active segment's file, or in what may be left of it (`LogWith`).
`DurableLog` says nothing of segments, offsets, index or positions.

### Service

A body is a sequence of bytes, a number takes two, four or eight of them as in
the code, and only the number of values of a byte is a parameter (`Byte`): with
three, a 16-bit length overflows at nine. `Get` is the check and the slice that
each Unmarshal makes for each field; a message is the sequence of its fields. What
reading yields is a set with one element, or none if the body is malformed.
`Put` writes a length modulo its width, so the bytes of a name that is too long
are read as the fields that follow; the code has no check either.

`Connection` is not code of the repository: two streams of whole frames, each end
closed on its own, a backlog, and resets that lose what is under way. A frame cut
in two by a reset is an error of ReadFrame like one that is lost. Writing to a
connection whose other end is gone may succeed or fail.

A call of `Client` is `Execute` (number, encode, write) and `Receive` (read, decode); between
them the goroutine waits without a timeout. `Connect` is possible again at any
time, and forgets the connection that was there. `Server` has the main goroutine (`Listen`, `Accept`, `Spawn`,
`AcceptFails`), a handler for each connection (`ReadFrame`, `ProcessFrame`, `WriteFrame`)
and the signal goroutine (`Signal`, `StopListener`, `StopWait`, `CloseBroker`, `Exit`).
Accept and `wg.Add` are two steps, so a connection may be in between when Stop
waits. An error of Accept that passes changes nothing unless `s.closed` is set, and
is no step of its own. The broker answers a request in one step with any result
of its type (`Results`); the inside is `Coordinator`. `asked` and `served` are history
variables, and the field `call` of a frame, which says whose it is, is never read
by the code's steps except to record the history.

`RemoteCall` promises a caller: a request is executed at most once; an answer is the
one this request was given; a call that fails says nothing, and its request may
still be executed later.

## Runs

Passing runs:

| run | what it shows |
|---|---|
| `coordinator_crash` | two clients (one produces and rejects, the other fetches and acks), two messages, one crash at any step, failing saves and unreadable state files: the leases stay one window in the log, and nothing is committed, in memory or on disk, that was neither acked nor dead-lettered; without long polls no lock is waited for in a circle (`NoCircularWait`) and no message is handed out beyond MaxRedeliveries (`RedeliveriesBounded`); the broker implements `WorkQueue` |
| `coordinator_queue` | two long-polling clients, two messages, nacks, timeouts, the expiry loop: the queues and channels agree with the handlers, answers are ascending, no lease is handed out early, a message is dead-lettered at most once and never after an ack; the broker implements `WorkQueue` here too |
| `coordinator_faults` | asynchronous sync, appends, saves and CreateTopic that fail, Close beside running requests, one crash that loses unsynced records or brings a failed append back, state files that cannot be read: leases, queues and redelivery stay sound |
| `coordinator_live` | under fairness, without long polls: every request is answered, every record settled and passed |
| `wal_recovery` | three appends of short and long records over several segments, failed writes, fsyncs and rolls, both sync modes, Close, two restarts or power losses, no torn record: the segments tile the offsets, acknowledged records are durable, and the WAL implements `DurableLog` |
| `service` | two clients (one calls twice, one with a name that is too long), two connections, breaks, closes, reconnects and a signal at any moment: what is executed is what was asked for whenever it fits the format (`ExecutedAsSent`), the service implements `RemoteCall`, at most the one connection that was accepted and not yet counted is served after Stop (`StopDrains`), every call returns (`CallsReturn`) and a Stop that finds the listener ends the process although it closes no connection (`ShutdownEnds`). On all messages with short, tricky and longest names, keys, values and lists of up to two: decoding is the inverse of encoding, and every body that is cut off is rejected (`CodecExact`). On all command lines of up to five arguments: the flag `-addr` is found wherever it stands (`FlagsAnywhere`) |

Runs that find what a comment of the code promises and the code does not do:

| run | what it shows |
|---|---|
| `produce_hangs` | Produce hangs when a consumer waits: it locks `t.mu` twice |
| `nack_hangs` | Nack and the expiry loop wait for each other's lock |
| `nack_unbounded` | Nack redelivers beyond MaxRedeliveries |
| `dead_letter_lost` | a dead letter that cannot be written is lost |
| `wal_torn_body` | recovery keeps a record whose body was cut short by a crash (or a failed write) |
| `exit_before_close` | on a signal `main` may return, and the process end, before the broker is closed |

**Bounds.** Two handlers and the expiry loop are the actors of every race the
code has (a lease, a queue or a lock is contended by two of them). Two messages
give an ack out of order, a window with a hole, and an answer of two messages;
MaxRedeliveries = 1 gives a message that is redelivered and then dead-lettered;
one crash after any prefix of this reaches every recovery. MaxNacked only bounds
how often a client nacks a message that was redelivered already.
In `coordinator_faults` nothing is produced after the crash; the theorems of
`CoordinatorProofs`, `LeaseProofs` and `QueueProofs` have no such bound. In the WAL
runs a segment takes two short records or a long one, so three appends roll once or
twice, a record may be written over by a shorter or a longer one, and two
restarts let recovery run on what recovery left, with a power loss after a
truncation that was not synced. In `service` one client makes two calls on up to two connections, which
is what an old handler needs to meet a new call; the other client's connection is
the second one that Stop has to wait for; a third connection would only repeat
these roles. Requests of other types differ in their bodies alone, and those are
covered by `CodecExact`.

**Deadlock** is checked in `coordinator_crash` and `coordinator_live`. In the runs
with long polls the broker really hangs (first two findings), and with Close or
exhausted bounds it may stop. `service` stops when the process has ended and the
clients have made their calls.

**Fairness** (`FairSpec`). A goroutine that can run is scheduled, and a Go mutex
hands itself to its longest waiter after a millisecond, so a step that is
enabled again and again is taken: strong fairness for each goroutine. Time
passes: weak fairness of expiry. `EventuallySettled` also assumes that the
consumers keep fetching; nothing is assumed about acks, nacks or producers.
In `Service` one condition of weak fairness (its behaviours are finite) says that the daemon's goroutines and a client that waits
go on, that the broker returns from every request (which it does without long
polls: `RequestsReturn`), and that Accept does not fail for ever while the listener
is open. No client has to call, to close or to read on, nobody has to send a
signal, and Accept is not assumed to fail before the listener is closed.

## Proofs

All for arbitrary clients, topics, groups, requests and bounds.

- `CoordinatorProofs` begins with what each operator of `ConsumerGroup` does to a
  group: expiry and redelivery change neither offsets nor acks; slideWindow stops at
  the first offset that is not acked and keeps a gapless window gapless; new leases
  extend it. What `WalAppend` leaves in the files is one lemma for all its outcomes
  (`AppendLeft`). `Inv` is inductive (`InvInductive`): `TypeOK`, what a handler
  knows of its request (`HandlerOK`), that the expiry loop produces exactly when
  it dead-letters (`ReaperOK`), that what is dead-lettered is in the log (`DeadOK`),
  and that the leases of a group are the interval from its committed offset to
  some n that is not past the end of the log, or empty (`WindowOK`). The last
  disjunct is what a crash needs that loses unsynced records below a saved
  offset. `TypeOK` alone is not inductive: a step that reads a record needs it to
  be there. It follows `TypeCorrect` and `LeaseWindowAlways`, with crashes, Close
  and all I/O errors allowed.
- `DeliveryProofs`: `NothingLostAlways`, assuming `Reliable`: appends are synced and
  do not fail, and Close is not called. The invariant `Delivered` adds that an acked
  lease is settled already before slideWindow commits it (`GroupSafe`), that
  a record being dead-lettered is in the dead-letter topic from the append on
  (`DeadSafe`), and that every file holds its log and nothing else can be left of it
  (`DiskSafe`). Records and acks are only
  ever added (`HistoryGrows`), so what is settled stays so. The assumption is
  needed: `dead_letter_lost` is the counterexample without it.

  `DeadLetterOnceAlways` is about one life of the process (`OneLife`: no crash, since a
  restart forgets the leases; and nobody fetches from a dead-letter topic, where
  the copies that two groups made of one record cannot be told apart). Appends,
  fsyncs and Close may fail it. Its invariant `OnceOK` is `Held` and two parts: a value
  is in a consumed topic once, or still on its way to be appended by one handler
  (`ValuesOK`); and whatever a group has settled, by an ack or a copy in the
  dead-letter topic, is the record of an offset that will not be leased again,
  because it is committed or acked in the window, or because a goroutine that
  holds `g.mu` has appended the copy and is about to settle the lease (`SettledGone`).
  `DeadLetterOnce` cannot be argued from the lease alone: that a copy is not already
  there is a fact about another topic's log, and `SettledGone` is what ties the two.

- `LeaseProofs`: `Held` is inductive. It adds to `Inv` that a goroutine which works on
  leases over several steps (fetchAvailable, Nack, dead-lettering) holds `g.mu`, and
  that what it read under the lock is still so: the offsets it will visit are
  expired and not settled, the one it dead-letters has used up its redeliveries,
  and the answer so far is ascending, below what is still to be visited, and not
  settled by anyone. Without the lock none of this survives a step of another
  goroutine. Every step is shown to have one of few forms (`StepForm`: a log grows,
  one group is rewritten by an operator of `ConsumerGroup`, a crash), so that the
  rest is argued once for each form. It follows `AnswerOrderedAlways` and, as an
  action property, `NoEarlyRedeliveryAlways`.
- `QueueProofs`: `WorkQueueImplemented`, from the same forms of a step: a log that
  grows is Publish, the first lease of records is Deliver, an ack or the end of
  dead-lettering is Settle, a crash is Restart, and expiry and redelivery are
  stuttering. The mapping needs `Held` where a step settles a lease: that
  it is still there. For a crash it needs one more invariant, `FoundOK`: no log that a
  restart may find is longer than the broker's by more than one record, which
  a run of failed appends does not accumulate, because each writes over the one before. `QueueSoundAlways`: `QueueSound` is inductive relative to
  `Held`. `LocksOwnedAlways`: a `g.mu` that is taken belongs to a goroutine inside that
  group (`Held` is the converse), so no path leaves it locked.
  `NoCircularWaitAlways`, if no request is a long poll (`NoPolls`): then no fetch is
  queued, `t.mu` is never kept from one step to the next, and the expiry loop enters no
  group (`Unqueued`). `RedeliveriesBoundedAlways`, if no request is a long poll or none is a
  nack (`NoPolls` or `NoNacks`): a count grows only where `Exhausted` was asked before,
  except in Nack when it finds a waiting fetch. Both assumptions are on what clients
  ask for, and are needed: `nack_hangs`, `produce_hangs` and `nack_unbounded` are the
  counterexamples.
- `ServiceProofs`: `ServiceInv` says that what travels to the server is the request
  of the call it names, that `wg` is the number of handlers that run, that a
  connection has a handler only after it was accepted, and what is left when Stop's
  wait is over. It follows `ServiceTypeCorrect` and `StopDrainsAlways`. `CallInv` says why
  it does not matter that the client never compares ReqID: a connection carries
  one frame at most, it belongs to the client that dialled it, a client that waits
  has only its last call under way on it, one that does not wait has nothing under
  way unless the connection was reset, and no call is under way twice or again after
  it was executed. It follows `ExecutedAsSentAlways`: a request with
  a name that is too long may be read as another one, but one that fits is read as it was sent.
  `RemoteCallImplemented` is the step simulation: Execute is Call, ProcessFrame is
  Perform, Receive is Return, all else is stuttering. The response must be read back
  as it was written for this, and every result of the broker fits its format
  (`ResultsSendable`).
- `WireProofs`: a number is read back from its bytes, because what is left of it after
  each shift is what the bytes before say (`NumberReadBack`). For fields and lists the
  lemmas are about a body that agrees with what was written as far as it goes: as long
  as it reaches to the end of a field, the field is read as it was written, and where
  it ends before that, nothing is read. From a field this carries over to a message,
  from a message to a list. It follows `MarshalReadBack` and `MarshalListReadBack`,
  for any sequence of fields, and in `CodecProofs` `CodecExactAlways`, for the
  messages of the protocol. Numbers, fields and items are written and read by
  recursive functions; induction over their length is by least elements of sets
  of numbers (`EveryNumber`), as in `WALProofs`.
- `WALProofs`, assuming `~Torn`: `WALInv` is inductive (`WALInvHolds`). It speaks of every
  version of a file that a power loss may leave, not only of the file. In each, records
  stand end to end from the start, and behind them is nothing the scan takes for a
  record (`IsLog`); in the file these are the records the index names, and then
  nothing, or the record of an Append that failed (`TailOK`); the versions of a
  segment that is not active all agree with its file to the end of its records
  (`Settled`); a failed roll leaves at most one empty log file beyond the segments
  (`OrphanOK`); and all versions agree with the file to the end of what was
  acknowledged (`AckedOK`). `SegmentsTile` and `AckedDurable` are not inductive: what a
  power loss leaves depends on what earlier failures wrote behind the end.

  The main lemmas: the scan over such a file finds those records and stops behind
  the last (`ScanFinds`); two versions that agree up to the end of some records have
  these in common (`LaidSame`); whatever a write does to the file and to its versions, cut
  short or not, over old bytes or not, they are still records end to end, and agree as far as
  they did (`WroteFacts`); and recovery of all files gives good segments again
  (`GoodRecovered`). It follows `WALTypeCorrect`, `WALSegmentsTile`, `WALAckedDurable`,
  `WALReadable` and the step simulation `WALImplementsDurableLog`: AppendBegin is Begin, AppendWrite
  is Write or WriteFails, fsync, flush, a roll and Close are Sync, recovery is Reopen
  or PowerLoss. Induction over positions and indices is by least elements of sets of
  numbers, which the prover can instantiate; the scan is a recursive function.

The constants are assumed to satisfy `ConstantsOK`: the expiry loop is not a
client, None is none of the things it stands beside, a topic is not its own
dead-letter topic, and requests are requests. The constants of `Client`, `Server` and
`Connection` have assumptions of the same kind: what a client asks for is a request
with a value for each field (`CallsOK`), of any length; there are fewer calls than an
offset of eight bytes can count (`CallsCountable`; the results of the broker are
numbered by the calls); and a byte has at least three values (`ByteOK`), since the
results of the model are made of small ones. `IsMessage`, the hypothesis of
`CodecExactAlways`, is what the code can send and the format can carry; TLC
evaluates it for the inputs of the run `service` (`InputsOK`).

Only model-checked: `FlagsAnywhere`, which says for every command line up to a
length what two recursive functions over its arguments find in it; and liveness
under fairness, which the prover does not handle (`RequestsReturn`,
`EventuallySettled`, `CallsReturn`, `ShutdownEnds`).

## Not modelled

Left out: address parsing (`normalizeAddr`), usage texts and printed output of the
CLI, flag and configuration defaults, logging. Long polls that the expiry loop takes
out of the queue without an answer are in `Coordinator` (`ReapGroup`); nothing the code
says decides whether they should be, so no property does. Two goroutines that share
one `Client` are not modelled: its connection is not locked and the code nowhere
uses it so. That Close can wait for ever for a topic whose expiry sweep waits for
`b.mu` is in the model, and no run asks for Close to end, since the broker hangs in
simpler ways when consumers wait.
