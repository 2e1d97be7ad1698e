# Verification of radish

TLA+ modules, TLC runs and TLAPS proofs for radish, a key-value store with an
append-only log (AOF), optional expiry, and a RESP server on top. Paths below
are relative to the repository.

## The system

| Part | State | Operations | Interacts with |
|---|---|---|---|
| `RadishStore` | `m_data`, `m_ttlData`, `m_ttl` | Get, Create, Rename, Delete, Clear, Scan, Size, Exists, IsExpired, Swap | reads the clock |
| `RadishEvent`, `BinaryFile` | the fields of one event | Serialize, Deserialize | written and read by the log |
| `LogReader` | none (the file) | GetEvents | called by LogWriter |
| `LogWriter`, `PersistenceLog` | the log file, its `.tmp` file, a mutex | EnsureInitialized, Append, Replay, ApplyEvent, Compact, RewriteHistory | called by RadishDB under its lock |
| `CompactStrategy` | the map of surviving events | Execute, one per event type | called by Compact |
| `RadishDB` | a store, an optional log, `m_mutex` | Create, Rename, Delete, Clear, Compact, reads | used by sessions and embedders |
| `TcpServer::Session` | input buffer, response queue, protocol version, close flag | Read, Process, Dispatch, Queue, Write | one event loop; calls RadishDB |
| `TcpServer`, `main` | acceptor, stopped flag, options | Accept, Stop, run, final Compact | owns sessions and the database |
| `RespCodec` | none | ParseCommand, encoders | called by Session |
| `radish-cli` | - | - | named by the README, its source is not in the repository |
| benchmarks | - | measurement only | - |

What is hard, and the property that makes each part correct:

* **Commit** stages a copy of the store, appends the event, then swaps. A crash
  or an exception can fall between any two of these. Correct: what is served is
  what was committed, before and after any recovery.
* **The log** may end in a record cut short. Correct: it stays readable, and
  harms no other record.
* **Compaction** computes the same contents as replay by different code, over a
  moving clock, and can fail or die before it replaces the log. Correct: the
  new file replays to what the database serves; failure is invisible.
* **Expiry** uses absolute deadlines in a second map, tested against the current
  clock also during replay, with a TTL that is an option of each process.
  Correct: the two maps agree; live keys and deadlines survive restarts.
* **Sessions** keep executing pipelined commands while a write is in flight, and
  any commit may throw out of the event loop. Correct: one reply per request, in
  order, none after QUIT, each saying what was really committed; every queued
  response gets written; no session is left behind.
* **Threads** share a database under a `shared_mutex`, with the log's own mutex
  inside it; `Commit` works on a copy of the store that it swaps in later, map
  by map. Correct: every call happens at one instant; log and memory agree when
  no writer is inside; every call returns, whatever throws.
* **The codec** starts over on every read, trusts announced lengths and parses
  numbers of any size; replies quote what clients sent. Correct: the pieces in
  which bytes arrive make no difference, nothing is executed that was not said,
  and nobody loses track of where a message ends.

`hazards` in `PROJECT.json` lists each of these at its line.

## Modules

| Module | Models |
|---|---|
| `RadishStore` | the store as a value, and operators on it; the clock reading is an argument |
| `RadishLog` | events, their binary form, framed records, reading, replay of one event, compaction strategies |
| `RadishDB` | the database over its file across process lifetimes: variables, actions, properties |
| `DurableMap` | the abstract promise: a map changed only by the four mutations |
| `TcpServer` | radish-server: the process, its sessions, the execution of commands; on a database seen from outside |
| `RadishThreads` | several threads inside one RadishDB: both mutexes, reads key by key, commits and compactions step by step |
| `LinearStore` | the abstract promise to threads: each call takes effect at one instant between call and return |
| `RespCodec` | the codec as operators on sequences of bytes |
| `RespStream` | the codec on a connection: requests cut into reads or damaged, replies read by a client |
| `MCRadishDB`, `MCRadishThreads`, `MCTcpServer`, `MCRespStream` | named sets for TLC; each run is one of these with one `.cfg` |
| `RadishLogProofs` | facts about events, records, reading and replay |
| `RadishDBProofs` | type correctness; the two maps of the store |
| `RadishDurableProofs` | exact recovery and exact compaction, with and without expiry |
| `RadishRefinementProofs` | `RadishDB` implements `DurableMap` |
| `RadishThreadsProofs` | the locks; linearizability; log and memory agree |
| `TcpServerProofs` | the safety of every connection |
| `TcpPipelineProofs` | the only client of a database: replies and durability |
| `RespStreamProofs` | the codec for bytes, limits and messages of any size |

`RadishDB` extends `RadishLog`, which extends `RadishStore`; it instantiates
`DurableMap` under a refinement mapping. `RadishThreads` extends `RadishLog`
too, and instantiates `LinearStore`: it justifies that `RadishDB` has at most one
operation in progress. `TcpServer` extends `RadishLog` for the events and what
they do to a store; its database is a store whose mutations happen as a whole or
throw and whose contents, with persistence, the next process finds again, which
is what `RadishDB` is shown to be. Its requests arrive in cells, of which a
request is whole or not; that fragments of bytes come to just that is what
`RespStream` (which extends `RespCodec`) is shown to do.

### How state and actions correspond to the code

`m_store`, `m_persistence` are the members; `staged` and `event` the locals of
`Commit`; `queue`, `cursor` and `eventsMap` those of the loops of `Replay`,
`Compact` and `RewriteHistory`; `header`, `records` and `tmp` the two files.
`phase` is where the code of the operation in progress stands. Two history
variables state what is expected: `committed` is the store the last successful
`Append` stood for, `misframed` whether a record was ever written behind a torn
one. No action's guard reads them.

An operation is split where the process may die with the file in another
condition or where the clock is read again: `Commit` into staging, `AppendOk` or
`AppendFails`, and `Swap`; `Replay` and `Compact` into one step per event;
`RewriteHistory` into truncation, one step per surviving event in any order, and
the atomic rename. `ProcessEnds` is enabled in every phase and forgets memory.
A crash in the middle of a write is `AppendFails` with a torn record followed by
`ProcessEnds`. Reads, and mutations for which `ApplyEvent` returns false, change
nothing. The bodies of `LogWriter::ApplyEvent` and `RadishDB::ApplyEvent` are
the same and are one operator.

A record in the file is its announced length and the fields that were written.
A torn record followed by more bytes is misframed: `GetEvents` then returns any
of what the reader can make of it (stop at end-of-file, throw, or accept the
torn record completed with foreign bytes). Having accepted one it stops, where
the code reads on and may accept more or come back into step; every property
that passes is silent about a misframed log, so that loses nothing they say.

In `TcpServer` the variables `session[s]` are the members of a `Session`, with
`reading` and `writing` for a pending `async_read_some` and `async_write`. The
event loop runs one handler at a time. Every handler is one action, except that
of a completed read: `ReadDone`, then for each complete command `StartCommand`,
one `CommitStep` per call that changes the database, `FinishCommand`, and
`ProcessDone` at the end of `Process`; nothing else but the clients, a crash or
a throwing append (`AppendThrows`) can come between. `Released` is the
`shared_ptr`: a session without a pending operation is destroyed and its socket
closed. A request is a number of identical cells of the byte stream, the unit of
fragmentation; the input is a whole request when all of them are there. Replies
are values; the `id` of one is not part of it but says which request it answers.
A server is started with one of `CommandLines`, which `ParseOptions` accepts or
rejects; `flushing` is the persistence mode it gives the database, `logged` what
replaying the log gives, and `survivors` what compacting it keeps. `Exit` is the
return from `context.run()` after a signal: the final compaction leaves a log
that replays to `RewrittenStore(survivors)`, or throws. `StartThrows` is an exception of `Session::Start` in the
accept handler, `AcceptFails` an error of `async_accept`.

In `RadishThreads`, `pc[t]` is where thread `t` stands in its call; `exclusive`,
`sharers` and `logMutex` are the two mutexes. A step ends wherever another
thread could see or miss something if a lock were not held: after each lock,
after staging, after the append, between the swaps of the two maps, and after
each key a read looks at. `Apply` takes the log's mutex for one step and is part
of `Stage`. `Return` is the guard's destructor on every path.

In `RespCodec` a byte is a string, positions count from 1, and `consumed` is the
number of bytes, as in the code. `Read` and `Process` of `RespStream` are those
of `Session`, without execution and without the limit on buffered input (which
`TcpServer` has); the client that reads replies is external.

### Abstractions and assumptions

* Keys and values are opaque. Bytes inside a field, and the 64 MiB limit on a
  record, are not modelled.
* A process may die, the machine may not: what reached the operating system
  stays (src/README.md:110-111 promises no more). The rename of the temporary
  file is atomic.
* An append that throws leaves a proper prefix of its record, never all of it.
* `system_clock` does not step back.
* `Rename` keeps an iterator across an insertion that may rehash
  (RadishStore.h:56-58). The standard calls that invalid; in every standard
  library the iterator is a node pointer and the erase is right, so that is the
  one outcome modelled.
* Signed overflow of a deadline wraps, at `MaxTimestamp`.
* `TcpServer`'s database has no TTL; expiry is `RadishDB`'s subject. Reads and
  writes of a connection fail only if the client is gone, and a client makes one
  connection. Its log is always in step: that an append which failed leaves a
  torn record, behind which the next process writes, is `RadishDB`'s subject too
  (`torn_tail`).
* `stoul` takes a negative number modulo 2^64, so that `--port` also accepts
  numbers just above -2^64; numbers of that size are not modelled.
* In `RadishThreads` no deadline passes and nobody crashes; appends and
  compactions that throw leave the log as it was. `NewExpiryTimestamp` is any of
  a few deadlines. The constructor has returned before threads call; what it
  replayed was written with a TTL or without one, and is reopened with a TTL only
  in the first case (`ttl_on_off` is what happens in the second).
* In `RespCodec` the limits are small and `long long` ends at `MaxLongLong`;
  text without meaning to the protocol is one "byte" per word.
* File errors other than those of writing (a log that cannot be opened for
  reading) leave everything as it was and are stuttering steps.

## Runs

`protocol` and `answers` are runs of `MCTcpServer`, `threads` of
`MCRadishThreads`, `wire` of `MCRespStream`, all others of `MCRadishDB`, each
with the `.cfg` of its name.

| Run | Result | Checks |
|---|---|---|
| `noexpiry` | pass | no TTL, both modes, torn writes: `TypeOK`, `RecoveredViewExact`, `CompactedLogExact`, `TornTailTolerated`, refinement `ImplementsDurableMap` |
| `expiry` | pass | TTL 2, clock to 4, no renames: `RecoveredViewExact`, `CompactedLogExact`, `TtlTracksData`, `OperationsEnd` under fairness |
| `self_rename_value` | violation | `RENAME k k` destroys the key |
| `expired_rename` | violation | a rename replayed after its old key expired is skipped |
| `ttl_on_off` | violation | keys written without a TTL are expired under one |
| `ttl_lowered` | violation | compaction after lowering the TTL revives an overwritten value |
| `torn_tail` | violation | an acknowledged write behind a torn record is lost |
| `torn_header` | violation | an incomplete header stops every later start |
| `protocol` | pass | one connection, every command, three requests: `TypeOK`, `RepliesInOrder`, `NothingAfterClose`, `NoStrandedCommand`, `NoLostWakeup`, `VersionInForce`, `PipelineTransparent`, `RepliesMatchCommits`, `LimitSparesSmallRequests`, `AnsweredRequestsSurvive` |
| `answers` | pass | two connections: `RequestsAnswered`, `SessionsReleased` under fairness |
| `threads` | pass | three threads, three calls of any kind: `TypeOK`, `LogAgreesWithMemory`, refinement `Linearizable`, `CallsReturn` under fairness |
| `wire` | pass | pipelines of two commands, intact or damaged in one byte, in reads of up to four bytes; pairs of replies: `FragmentsIrrelevant`, `RequestsArrive`, `AcceptedAsAnnounced`, `RepliesReadBack` |

The violations are disagreements between the code and src/README.md; `findings`
in `PROJECT.json` quotes the lines. The passing runs exclude exactly those
configurations: no rename of a key to itself, no rename with expiry where
recovery is checked, one TTL per log, and, through `misframed`, nothing claimed
once a record was written behind a torn one. Renaming a key to itself is wrong
twice: `RadishStore::Rename` loses the key (`self_rename_value`), while
`RenameCompactStrategy` keeps it (CompactStrategy.h:53), so that the compaction
with which a server exits revives what its clients saw gone. (With `RENAME k1 k1`
among the requests of `protocol`, TLC finds `AnsweredRequestsSurvive` violated in a
few steps: SET, RENAME, a signal, `Exit`.) Smaller disagreements met on the way: `HELLO` without an argument is refused although src/README.md:196
writes `HELLO [2|3]`; and `--ttl-ms` near 2^63 makes every deadline overflow into
the past.

**What the properties say.** `RecoveredViewExact`: while it serves, the database
shows the live values and deadlines of `committed`, whatever lies behind.
`CompactedLogExact`: at the moment before the rename, the temporary file replays
to what is served. `TornTailTolerated`: the log can be read.
`TtlTracksData`: deadline entries exist for exactly the stored keys.
`OperationsEnd`: the database gets back to serving, or the process is gone.
`ImplementsDurableMap`: the whole is a map that changes by one mutation at a
time; the mapping reads `m_store` while serving, `staged` between append and
swap, and `committed` while down or recovering.

`RepliesInOrder`: the i-th reply of a connection, written or queued, answers its
i-th request. `NothingAfterClose`: nothing is executed or answered behind a QUIT
or a protocol error. `NoStrandedCommand`: a session that waits for input has no
complete command left. `NoLostWakeup`: a queued response has a write in flight.
`VersionInForce`: a reply is encoded in the version negotiated before it.
`RepliesMatchCommits`: a reply says what was committed for its request.
`PipelineTransparent`: the replies are those of a reference that executes the
requests one at a time. `AnsweredRequestsSurvive`: what the next server finds in
the log is what the answered requests did, and a prefix of the one that was being
executed; nothing without persistence. `LimitSparesSmallRequests`: the limit on
buffered input, tested before parsing, only ever refuses a request within one
read of it. `RequestsAnswered`, `SessionsReleased`: the liveness of the two.

`LogAgreesWithMemory`: when no writer is inside, replaying the log gives the
store in memory; a lost update or appends in another order than swaps break it.
`Linearizable`: `RadishThreads` implements `LinearStore`; the mapping counts a
swap as done when it has begun. `CallsReturn`: every call returns.

`FragmentsIrrelevant`: for any bytes, the commands executed and the verdict are
those of parsing everything at once. `RequestsArrive`: what `EncodeCommand`
wrote is what is executed. `AcceptedAsAnnounced`: an accepted command's bytes
spell its arguments, with numbers read as integers of any size. `RepliesReadBack`:
a RESP client finds every reply where it begins and reads what was meant.

**Bounds.** Two keys are the least a rename needs, two values tell an old value
from a new one, and a log of three records holds create-create-rename,
create-rename-create, create-delete-create and a torn record between whole ones.
`MaxRecords` bounds the log on which an operation may start; crashes, restarts
and compactions are unbounded. With TTL 2 the clock goes to 4, so that a key
created after another can outlive it and expire too. `MaxTimestamp` (1000) is
out of reach. For the server, a read brings at most two cells and the input
buffer holds three; requests of one to four cells are read whole, in fragments,
several at a time, fit the buffer exactly, and are refused as too large. Three
requests make a response in flight, one queued behind it and one being executed;
two connections make one execute while the other has responses queued. Three
threads make two readers beside a writer, and two writers beside a reader, with
any mixture of three calls; a log that already has a record gives reads and
compactions something to find. On the wire, arguments of zero to two bytes
include a terminator and the start of a bulk string; limits of two and a
`long long` of one digit put zero, the limit, one beyond it, negative and
overflowing numbers within one damaged byte. The violation runs use the smallest
instance that shows the behaviour.

**Fairness.** Weak fairness of `InternalStep` only: a thread that is inside the
database, holding its lock, keeps running. Nothing is assumed of clients,
crashes, restarts or the clock, and whether an append or a rewrite succeeds is
open. In `TcpServer`, weak fairness of the running handler, of the completion of
each session's pending read (if there is input, or the client is gone) and write
(asio runs the handler of every completed operation), and of `main`'s return
after `context.run()`. That a write completes assumes that a client which has not
hung up reads its replies: the code has no timeout on writes, and one that stops
reading keeps its session and those replies forever. That a hangup ends the
pending read assumes that the loss of a client is reported: the code asks for no
keepalive, so that the session of a machine that vanished without a word stays
until something is written to it. `RequestsAnswered` and `SessionsReleased` are
shown under these two assumptions. In `RadishThreads`, weak fairness of each thread: it keeps
running when it can. A `shared_mutex` promises no order among those who wait, so
none is assumed, and calls are bounded; without a bound readers could starve a
writer. For that reason `threads`, and `wire` where the bytes come to an end,
do not check for deadlock; a thread stuck in a call would violate `CallsReturn`.

**Mutants.** Operators marked *faulty variant* replace a definition by a
plausible bug; each property of a passing run is violated under its mutant.

## Proofs

For every value of the constants that satisfies the modules' `ASSUME`s (which
TLC evaluates on every run):

* `RadishLogProofs!RoundTrip`: `Deserialize(Serialize(e)) = e` for an event with
  the fields of its type.
* `RadishDBProofs!TypeCorrect`: `Spec => []TypeOK`. Not inductive alone: that a
  replayed event is well formed needs that every record in either file is a
  prefix of some serialized well-formed event, and every surviving event of a
  compaction a well-formed CREATE. `TypeInv` adds that.
* `RadishDBProofs!TtlMapsAligned`: `Spec => []TtlTracksData`, for all TTLs and
  renames, a key renamed to itself included, and for logs written under another
  TTL, torn or misframed. It is inductive given `TypeInv`: every store is empty
  or comes from an aligned one by `ApplyEvent` of a well-formed event, and the
  branch of `Rename` without a deadline is taken only in a store without a TTL.
  The run `expiry` checks it without renames; the theorem covers those.
* `RadishDurableProofs!TornTailHarmless`: `Spec => []TornTailTolerated`, without
  hypotheses: any TTLs, any renames.
* `RadishDurableProofs!RecoveryIsExact` and `CompactionIsExact`:
  `RecoveredViewExact` and `CompactedLogExact` are invariants, for databases opened
  without a TTL (`NeverExpires`) and not asked to rename a key to itself
  (`NoSelfRename`). The runs `ttl_on_off` and `self_rename_value` show that neither
  hypothesis can simply be dropped. `LogReplaysToCommitted`: under the same
  hypotheses the log always replays to what was committed last.
* `RadishDurableProofs!ExpiringRecoveryIsExact` and `ExpiringCompactionIsExact`: the
  same two properties for databases always opened with one TTL (`OneTtl`, which
  also says that no deadline exceeds `MaxTimestamp`) and not asked to rename
  (`NoRename`). `ExpiringLogReplaysToCommitted`: under these hypotheses the log
  always replays to what was committed last, as far as it has not expired. The
  runs `ttl_on_off` and `ttl_lowered` change the TTL, `expired_rename` renames, and
  each loses or revives an entry. A deadline that wrapped around would count as
  expired: compaction would skip the newer CREATE of a key and keep the older.
* `RadishRefinementProofs!DurableMapImplemented`: under `NeverExpires` and
  `NoSelfRename`, `Spec => ImplementsDurableMap`.
* `RadishThreadsProofs!LocksExclude`: `Spec => []TypeOK`, which contains the lock
  discipline, without hypotheses. `CallsAreLinearizable`: `Spec => Linearizable`
  if no call renames a key to itself (`NoSelfRenameCalls`; the code loses the
  key then, which is no step of `LinearStore`). `LogFollowsMemory`:
  `LogAgreesWithMemory` is invariant if, besides, the log a database is opened
  with has no such rename either (`NoSelfRenames`), with or without a TTL.
* `TcpServerProofs`: `TypeOK`, `RepliesInOrder`, `NothingAfterClose`,
  `NoStrandedCommand`, `NoLostWakeup`, `LimitSparesSmallRequests`,
  `RepliesMatchCommits` and `VersionInForce` are invariants, without hypotheses,
  for any number of connections and requests.
* `TcpPipelineProofs!PipeliningIsTransparent`: so is `PipelineTransparent`, which
  speaks of a server with one client. `AnsweredRequestsAreDurable`: so is
  `AnsweredRequestsSurvive`, if no request renames a key to itself
  (`NoSelfRenameRequests`: `Exit` would bring the key back).
  `FinalCompactionIsExact`: under the same hypothesis, and for any number of
  clients, the final compaction leaves what replaying the log gives.
* `RespStreamProofs`: `PiecesDoNotMatter`, `RequestsArriveAsSent`,
  `ExecutedAsAnnounced` and `RepliesAreReadBack` state `FragmentsIrrelevant`,
  `RequestsArrive`, `AcceptedAsAnnounced` and `RepliesReadBack`, for any streams
  and replies, any limits within `MaxLongLong`, any size of a read and any damage.
  `StreamAssumption` says of intact streams that they respect the limits; of
  damaged ones, only that they are bytes.

**Recovery.** The invariant, `DurableInv`, says: every store is plain
(no TTL, no deadline); the staged store is the event applied to `m_store`; and,
unless misframed, memory equals `committed`, only the last record may be torn,
and there is a *trace* `h`, a function with `h[0]` empty, `h[i]` the result of
applying record `i` to `h[i-1]`, that ends in `committed`. The trace is a state
component quantified existentially, which turns "replaying the log gives
committed" into something a step can be proved to preserve, without induction
over the log: `Append` extends the trace, replay walks along it (the store is
`h[cursor - 1]`), compaction's map stands for `h[cursor - 1]` as well, and the
temporary file has a trace of its own whose end, completed by the unwritten
events, is `committed`. `CompactAgrees` is the heart of it: one strategy step
and one replay step keep the two representations in agreement, for distinct
rename keys.

That torn tails are harmless needs none of this: `FrameInv` says that all records
of the temporary file are whole, and all but the last of the log unless
misframed, whatever is in them.

**Recovery with expiry.** Replay creates expired keys too, which are then not shown;
compaction skips them. So the stores of replay, of memory and of `committed` may
differ in what has expired. `TimedInv` has a trace of stores with deadlines and
says that its end *agrees* with `committed`, and memory with it, at `now`: the two
show the same keys, with the same values and deadlines. Stores that
agree still do so at every later time, so `Tick` keeps the invariant.
Without renames, what replay makes of a record does not depend on the clock
(`TimedApply`). Compaction is the hard part. It drops an expired CREATE, and that
must not uncover an older one of the same key that it kept. So `TimedInv` says
that the deadlines of a key never decrease along the log, which holds because
the clock does not step back and the TTL stays the same; that what compaction's
map holds comes from records already passed; and that the temporary file has
each key at most once, so that the order of the survivors does not matter.
`HeldApply` is the heart: one strategy step and one replay step agree if a later
CREATE of a key never has an earlier deadline. TLC checked `TimedInv` on the
instance of `expiry` before it was proved.

**Recursive functions.** `ReplayedStore`, `Executed` and `StoreAfter` are defined
by recursive functions. They are tied to traces by a lemma each
(`ReplayedStoreTrace`, `ExecutedIs`, `AfterIs`): a trace satisfies the recursive
equation, so the function that the definition chooses exists, and the least
index where the two differ would be a contradiction (`LeastElement`: `<` is
well founded on the naturals). `IterationExists` gives the traces. So
no induction scheme with an operator parameter is needed.

**Refinement.** By `DurableInv` the contents that the mapping reads are the data
of `committed` wherever the operation in progress stands, and `committed`
changes in `AppendOk` alone, by the staged event.

**Threads.** `ThreadsInv` says where the holder of each lock stands, what a
writer has staged (its event applied to `m_store`, which nobody can have changed
since), that what a reader has collected is what the store still has, and that
`Visible`, the store as it is once a swap in progress is over, is well formed.
Each step of `RadishThreads` is then a step of `LinearStore` or none; only
`SwapData` changes `Visible`. `LogInv` adds that the records replay to `Visible`,
or to the staged store between append and swap; compaction keeps that, because
the events that survive in its map, written in any order, replay to the same.

**Connections.** `ServerInv` is about the loop and one session at a time. Its
parts: `LifeInv` (status, pending operations, what a closed session holds),
`Framed` (the buffered input followed by the unread cells is the encoding of
exactly the requests not started yet, each in one piece), `CountInv` (commands
started and replies given differ by what the handler is doing), `EndInv`,
`RepliesInv` (what is claimed of each reply given so far) and `CurrentOK` (the
command in execution: what is left to commit, and that what was applied is what
was counted). One lemma per handler shows that it preserves the parts of its
session; a session that is not the handler's is not touched (`StepOfSession`).

**The only client.** `OnlyClientInv` adds the data: between commands the database
is `StoreAfter` of the requests started; in a command of which `k` events are
through, it is `Executed` of its first `k` events on that; the log is the same if
persistent, empty otherwise; once the connection is closed the log stays what it
was, over every later start and exit. An exit replaces the log, so `FileInv`
relates its two readings for any number of clients: `logged` is
`RewrittenStore(survivors)`, and `survivors` is empty before the first command.
`RewrittenAgrees` keeps the first: a strategy does to the map what the event does
to the store, if a CREATE has no deadline and the keys of a RENAME differ, which
holds of what the commands commit (`RequestEvents`). The second is what
`PipelineTransparent`, which has no hypothesis, needs: the client still finds an
empty database. The parts of both were checked with TLC on the instance of
`protocol`.

**The codec.** `StreamInv` says that `m_input` is a piece of the stream that ends
at `arrived`, that what was accepted is what a search of the whole stream finds
first, and that the loop of `Process` stops only where `ParseCommand` does not say
Complete. It is preserved because a parse is stable (`NumberStable`, `BulkStable`,
`CommandStable`): once the parser says Complete or Error of some bytes it says
the same, with the same `consumed`, of any more that begin with them. So a parse
of the buffer is a parse of the rest of the stream. `ArrivalInv` adds that what
was accepted is a prefix of what was sent, and that the rest of the stream is the
encoding of the rest; `CommandReads`, that `ParseCommand` undoes `EncodeCommand`
whatever follows, keeps it. That rests on `Numeral` and `IntegerOf` being inverse
on the naturals (`NumeralReads`) and on numerals having no terminator in them.
`CommandFound` is the other direction: if `ParseCommand` says Complete, the bytes
consumed are a request that spells the arguments; the numerals are the ones
found on the way. For replies, `ClientInv` says that the client is before, between
or behind the two, and `EncodeReads`, kind by kind, that it reads what was meant
wherever a reply is: a sanitized value or a number has no terminator in it, and a
bulk string is measured, not searched. Loops over arguments, elements and
requests are traces again, as in *Recursive functions*.

The proofs found one fault of the model: the cases of `EventsFor` and `Reply`
overlapped for a command with the wrong number of arguments, and which one
`CASE` takes is then not defined; TLC takes the first. They now test `Accepted`
before. `CommandAssumption` was added for them: keys and values in requests are
keys and values, so that events can be committed, and `Absent` is no command.

Only model-checked: the liveness properties `OperationsEnd`, `RequestsAnswered`,
`SessionsReleased` and `CallsReturn`, which are out of this prover's reach.

## Not modelled, and the plan

Still to do: a run at the boundary of `MaxTimestamp`; a clock that steps back, of
which the documents promise nothing.

Left out for good: benchmarks and their statistics (no system behaviour), the
wording of replies, the concepts of `Concepts.h` (compile time), `radish-cli` (its
source is not in the repository), what becomes of responses queued when a signal
arrives (modelled by `Signal` and `Exit`, but no document says what should).
