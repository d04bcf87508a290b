# zbroker in TLA+

zbroker is a server between MongoDB and clients that want to work through a
collection in batches.  A client opens a *processor* for reading or for writing.
A read processor queries the collection ahead of its clients and keeps the
documents in a bounded queue, a write processor takes documents from its clients
into a bounded queue and applies them to the collection behind their back.  The
server has one io thread, which runs every handler of every connection, and one
more thread for each open processor.

These modules model the queue, the two sides of a processor with the parameters
they are opened with, the server around them and the packets it exchanges with
its clients, down to each lock, wait and notification that threads can race on.
Paths below are relative to the repository, so that `src/broker.cc` is the file
of that name next to the other sources.

## 1. Inventory

| Component | State | Operations | Interacts with |
|---|---|---|---|
| `sized_queue<T>` (`src/sized_queue.*`) | deque, `m_limit_size`, mutex `m_monitor`, conditions `m_cond_can_pop`, `m_cond_can_push` | `pop`, `push(T)`, `push(vector)`, `clear`, `set_size`, all with an optional timeout | the read or write thread at one end, the io thread at the other |
| read broker (`src/broker.*`) | queue, `m_last_doc_id`, `m_do_exit`, `m_reach_end`, `m_querying`, `m_connected`, `m_query_done_mutex`, `m_con_query` | `read` and `query` in the read thread; `open`, `batch_pop`, `rewind`, `set_exit`, `close` in the io thread | MongoDB; processor |
| write broker (`src/broker.*`) | queue, `m_do_exit`, `m_connected`, `m_update_done_mutex` | `update` in the write thread; `open`, `push`, `wait_update_done`, `close` in the io thread | MongoDB; processor |
| option defaulting (`broker::init`) | `m_limit`, `m_skip`, `m_queue_size`, `m_read_timeout`, ... | `init`, `reset` | both brokers |
| processor (`src/asio_processor.*`) | two brokers, their threads, `m_refcount` | `open`, `close`, `term`, `process` (READ, WRITE, REWIND, CLOSE), `pack_response` | connections share it |
| connections, processor table (`src/asio_handler.*`) | `m_processor`, `m_processor_opened`, `m_send_buffer`, the map from MD5 id to processor | `handle_accept`, `handle_read_header`, `handle_read_body`, `handle_write`, `process`, `processors::find` | sockets; processors |
| packet framing (`src/request_packet.*`, `src/protocol.h`) | header, packet id, body | decode header, encode response | connections, Ruby client |
| server main (`src/zbroker_asio.cc`) | one `io_service` | run; an exception ends it | all |
| Ruby client (`rb/lib/zbroker`) | one socket per proxy | open, read, write, rewind | server |
| ZeroMQ predecessor (`src/zbroker.cc`, `src/request_handler.*`) | | | not built by `SConstruct` |
| log colours (`src/color.*`) | | | |

What is hard here, and what has to hold:

* **Hand-made waiting.** `pop` and `push` test the size once, wait, and go on
  without a second look.  The queue is correct only if each notification is
  given for the only thread that can be waiting.  Wanted: no `front()` of an
  empty deque, no thread asleep next to work, nothing lost at the cut of a vector
  that does not fit.
* **State read outside its lock.** `batch_pop` reads `m_querying` without
  `m_query_done_mutex`, waits on a condition with a mutex it does not hold, and
  unlocks it afterwards; `prepare_condition` reads `m_last_doc_id` twice without
  `m_rewind_mutex`.  Wanted: READ is answered, every document is sent once.
* **Stopping a thread.** `term` sets `m_do_exit`, makes room (read) or waits
  (write), and joins.  Wanted: `term` returns, and what was acknowledged is not
  dropped.
* **Reference counting across disconnects.** Connections with the same OPEN
  share a processor; clients may vanish anywhere in a request.  Wanted: the count
  is the number of connections that hold the processor, and READ and WRITE find
  their broker connected.
* **Errors that end the server, calls that block it.** Several handlers throw out
  of `io_service.run`, and both broker threads out of themselves; a READ, WRITE or
  `term` that does not return blocks the only io thread.
* **Parameters taken as they come.** `init` replaces what is missing and little
  else; a 0 or a negative number reaches `size_t`s, timeouts and assertions.
  Wanted: to know which of them break what.
* **Documents between two owners.** A batch leaves the queue before its response
  is made, sent and read; each of these may fail.  Wanted: a document reaches at
  most one client, and none only for a reason one can name.
* **Two implementations of one packet format.** C++ and Ruby count the same bytes
  on their own.  Wanted: neither side ever reads the middle of a packet.

`PROJECT.json` lists these as hazards, each at its line with the properties that
watch it.

## 2. Modules

```
SizedQueue ──┬── QueueClients ─────────── implements BoundedFIFO
             ├── ReadBroker ───────────── implements Cursor
BrokerInit ──┘        └── ReadOptions     ReadBroker under the parameters of an OPEN
SizedQueue ───── WriteBroker              write thread and io thread
Cursor ───────── Session                  documents in packets on connections
Server                                    clients, connections, processors

SizedQueueProofs ─┬───────────────── WriteProofs
                  └── CountProofs ─┬ QueueProofs
                                   └ ReadProofs ── ReadCopyProofs
SessionProofs, ServerProofs
```

Each module of the lower part extends the model it is named for; `SizedQueueProofs`
(what the queue's operators do to sequences) and `CountProofs` (how often an item
occurs in a sequence) are the lemmas that they share.

`ReadBroker` and `WriteBroker` extend `SizedQueue` and conjoin its actions with
their own: the queue is the component, the broker the composition.  `Session`
composes the clients' connections with `Cursor`, the abstract specification that
`ReadBroker` is shown to implement.  `Server` and `Session` stand for
READ, WRITE and `term` by their outcome, and one outcome is that they never return
and block the only io thread; when that happens is what the liveness runs of the
brokers are about.

### BoundedFIFO, Cursor

The two abstract specifications.  `BoundedFIFO` is what both brokers take the
queue for: items go in, in the order in which they are offered and while there is
room, and come out in that order.  `QueueClients` maps the pushing thread's
vector, reversed because `push` takes items from its back, to `pending`: the order
kept is the order in which `push` takes items in, not the order of the vector
(`read_order` in section 4).

`Cursor` is what a read processor promises about documents: a READ answers with
documents of the collection, each at most once since the opening, and once more
for each REWIND.  It says nothing of their order or of how many come.
`ReadBroker` maps `credit[d]` to 1, plus the number of REWINDs, minus how often `d`
has been in an answer.

### BrokerInit, ReadOptions

`BrokerInit` has the part of `broker::init` that computes: an `int` of `IntBits`
bits that may be missing (`getIntField` then returns `INT_MIN`), its default, the
product `5 * limit` that wraps, and the conversion to a `size_t` of twice the
width.  `ReadOptions` instantiates `ReadBroker` with the results, for one set of
parameters per behaviour, because a processor is found by the hash of its whole
OPEN.  With 5-bit integers and a default limit of 3 the eight cases are: an
ordinary OPEN; a queue smaller than a batch; nothing given; `limit` 4, whose
queue size wraps to -12 and so to a huge size; `limit` 0; `queue_size` 0;
`read_timeout` 0; and `limit` and `read_timeout` negative.  No case gives a `skip`.
`init` lets a negative one through to the query; what the database makes of it is
not modelled, and `ReadAssumption` has `Skip` in `Nat`.

`ZeroOnlyFromZero` says for every width which OPENs give a 0: only those that say 0,
because `5 * limit` may overflow to any other value but never to 0.

What the parameters do, as the run `read_live` shows:

| Parameters | Effect |
|---|---|
| `limit` 0 | the first READ fails `BOOST_ASSERT(batch_size > 0)`, although `src/broker.hpp:77` says "0 for no limit" |
| `limit` negative | every READ pops until two timeouts; answered |
| `5 * limit` overflows | the queue is practically unbounded; answered |
| `queue_size` 0 | `push` only ever notifies, and `pop` reads the front of an empty deque; a `term` may join a thread that is blocked for good |
| `read_timeout` 0 | a READ at the end of the collection, and a `term`, wait for ever |
| `read_timeout` negative | 1 |

### SizedQueue

`queue` is the deque.  `wait[t]` says where thread `t` stands: outside, waiting
on one of the two conditions, or notified and not yet running again.  A thread
holds `m_monitor` from its entry until it returns or waits, so each such stretch
is one action (`PopEnter`, `PopBlock`, `PopResume`, `PushEnter`, ...) and the
mutex needs no variable.  `notify_one` wakes any one waiter, if there is one.

* A timeout is an action of its own that ends a wait (`PopTimeout`,
  `PushTimeout`); the exception it throws is the caller's business.
* `pop` resumed with an empty deque is undefined behaviour in the code;
  `PopUndefined` names this state, and `QueueClients` stops there.
* `push(vector)` moves items from the **back** of the vector and leaves the rest
  in it.  `Moved`, `Kept` and `Appended` say which.
* `push(T)` does not test the limit after its wait.  Neither broker calls it.
* `set_size` is the constant `LimitSize`: it is called once, before the queue
  has a second thread.

### QueueClients

Arbitrary pushing and popping threads.  Items are numbered as they are offered,
`gone` and `offered` are histories.  The constants choose who uses `push(T)`,
who passes a timeout, and whether condition variables wake threads spuriously.
Boost and POSIX allow a spurious wakeup, after which `pop` calls `front()` of an
empty deque; `queue_many` includes them, while `queue_spsc` and the two brokers
leave them out, so what they show of `pop` is what its notifications guarantee.

### ReadBroker

The read thread's program counter is `reader`, the io thread's is `io` with its
command in `cmd`.  Between the two, every access to shared state is its own
step:

| Code | Actions |
|---|---|
| `broker::read` | `ReaderTest`, `ReaderBranch`, `ReaderMore`, `ReaderPush` |
| `broker::query` | `QueryLock`, `PrepareCondition`, `PrepareOid`, `QueryCursor`, `QuerySave`, `QueryDone`, `QueryUnlock` |
| `broker::batch_pop` | `BatchPop`, `BatchPopDoc`, `BatchPopBlock`, `BatchPopTimeout`, `BatchCaught`, `BatchWait`, `BatchRelock`, `BatchUnlock`, `BatchRetry` |
| `asio_processor::open`, READ, REWIND | `Open`, `Read`, `Rewind` |
| `asio_processor::term` | `Term`, `TermDrain`, `TermJoin` |

Decisions:

* Documents are numbered in `_id` order; the collection is `1..inserted` and
  grows at its end (`Insert`, external), as ObjectIds do.
* `qlock` says whether `m_query_done_mutex` is locked, not by whom, because
  `batch_pop` unlocks it while the read thread holds it.  What that does is the
  default (non-checking) pthread mutex of the build: it becomes free.
* Clearing `m_querying` and the `notify_all` after it are one step: nothing that
  the io thread can do in between is distinguishable.
* The sleep of the read thread at the end of the collection has no state.
* A response has room for `Fits` documents.  A longer one is replaced by
  ResponseTooLong (`Respond`), and its documents go to `dropped`.
* `Limit` may be 0 or negative, as in the code: the database takes 0 for no limit
  and ignores the sign (`Found`), `batch_pop` takes it as a `size_t`.
* A database error throws in the read thread and ends the process: a behaviour
  that stops.  The liveness properties of `ReadOptions` are about processes that go
  on; `Server` and `Session` have this end as `ThreadThrows`.

### WriteBroker

`writer` and `io` are the program counters, `current` the document popped and not
yet applied, `ulock` is `m_update_done_mutex`.  `UpdateTimeout` and
`UpdateCaught` are two steps, because the handler reads `m_do_exit` at an
arbitrary time after the timeout.  What an update does to the database is one
step (`UpdateApply`); when `fromjson` or the update throws, nobody catches it and
the process ends (`UpdateThrows`), with the write thread still in `update`.
Documents are numbered in the order in which `do_write` pushes them, which is that
of the request from its end to its beginning.  With `queue_size` 0 a WRITE notifies the write thread of nothing, whose `pop`
then reads the front of an empty deque (`PopUndefined`): the write thread takes no
step from there.

### Server

A handler is one step, because a single thread runs the `io_service`.  A
connection and its client share a name.

* The MD5 of an OPEN's body is taken as injective: a processor's id is the pair of
  options and purpose.  Processors are never deleted, so one that `find` has not
  created yet is one with `refcount` 0.
* `reading[c]` is the asynchronous read that a connection has outstanding,
  `sending[c]` the answer in `m_send_buffer`, `stream[c]` what the client has sent
  and the server has not read, a header or a body at a time.
* A client waits for its answer (`Proxy#recv_packet`), and gets it in the step in
  which the server has written it.  It may go at any moment (`ClientGone`), and
  the tail of what it sent may be lost with it.  The constant `Extra` adds
  commands that the Ruby client does not send.
* `fault` records an assertion that failed, an exception that left
  `io_service.run` or a broker's thread (`ThreadThrows`), or `"blocked"`: a call that
  never returns.  After any of them the server takes no step, nor do the clients any
  that matters.
* A READ may block in `batch_pop` (`Stranded` in `ReadBroker`, or a `read_timeout` of
  0), a WRITE in `push` (a queue of size 0), and the last close of a read
  processor in `term` (`ProcessorCloseBlocks`): `m_refcount` is 0 then, and the
  broker and the connection are still as they were.
* A failing accept is not armed again (`HandleAcceptError`): every client that has
  not been accepted by then is `refused`.
* One port.  A second one has a processor table of its own, so that the same
  options on two ports behave as two options on one; only a failing accept, which
  stops its own port, would tell them apart.

### Session

The bytes between a read processor and the Ruby clients that share it.  Packets
are lengths: a header of `HeaderSize` characters, a decimal number in it that
counts the packet id and the body, and a body that grows by `DocSize` with each
document.  `arrived[c]` and `unread[c]` are the bytes on the way in each direction.

| Code | Actions |
|---|---|
| `Proxy#open`, `#read`, `#send_packet` | `ClientOpen`, `ClientRead` |
| `Proxy#recv_packet` | `RecvHeader`, `RecvBody` |
| header, body and write handlers, `process` | `HandleRequest` (`ServeOpen`, `ServeRead`; `OpenThrows`, `ReadBlocks`) |
| their errors | `HandleError` |
| the read thread's errors | `ThreadThrows` |

* `fault` says what has ended the server: the first OPEN got no database connection
  (`"open"`), the bytes taken for a request do not parse (`"parse"`), a body was cut
  off (`"body"`), the read thread threw (`"thread"`), or a READ or the `term` of the
  last disconnect never returns and blocks the only io thread (`"blocked"`).
* The server counts bytes, `Packet#encode_header` characters (`String#size`, which on
  Ruby 1.9 and later are not bytes).  `OpenChars` is the number of characters of an
  OPEN of `OpenSize` bytes; when they differ the server parses a part of it.  The
  commands after OPEN that are modelled have ASCII bodies.  The run has ASCII
  options; the theorems hold for both.

* `recv_packet` receives the header with one `recv` and loops for the body only.
  With `ShortRecv` it may get the first part of the header: the number is then cut
  off (`Decoded`), the client reads too little, and is `confused` from then on.
* A client that is confused by the answer to its OPEN has no packet id.  Its
  READ is then 32 bytes shorter than its header says; the server waits for them
  and takes the next request's, which is no JSON: an exception ends the server.
* `ServeRead` is a step `Take` of `Cursor`, with any documents that may be taken,
  so it covers whatever the threads of the broker have queued.
* The handlers of one request are one step: what may come in between is in `Server`.
* What a confused client makes of the bytes it reads is not followed; documents
  in them count as lost.

## 3. Runs

| Run | Instance | Shows |
|---|---|---|
| `queue_spsc` | 1 pusher, 1 popper, limit 2, 5 items, vectors up to 4 | the use both brokers make of the queue: no empty `front()`, no lost wakeup, order, everything delivered; `BoundedFIFO` is implemented |
| `queue_many` | 2 + 2 threads, limit 2, 4 items, timeouts, spurious wakeups | limit and exactly-once hold in general, up to the first empty `front()` (which these threads do reach) |
| `read_safety` | 3 documents, limit 2, queue 2, room for 2 in a response, 2 openings, 1 REWIND | each document in exactly one place; a batch stays below 2·`m_limit`; documents are dropped with a response only after a timeout; `term` never joins a blocked thread; the two threads block each other only in the state `Stranded`; the read thread dies in `OID::init` only after a REWIND; `Cursor` is implemented |
| `read_live` | 2 documents, eight sets of parameters | what each parameter breaks; otherwise READ answered, `term` ends, every document sent, except in the state `Stranded` |
| `write` | 4 documents, WRITEs up to 3, queue 2, 2 openings | applied once and in order; `pop` finds a document after its wait; a timeout after `set_exit` loses none; WRITE answered, `term` ends, unless an update ends the process |
| `server` | 2 clients, 1 set of options, 2 requests each, repeated OPEN, unknown command | exact reference count, no failed assertion, send buffer stable, requests answered unless an accept has failed, abandoned brokers stop, both unless the server has ended or is blocked |
| `session` | 2 clients, 3 documents, 2 READs each, a response holds 2 documents, headers received in part | both sides count the same bytes; a document reaches at most one client; it is lost only by a client that fails or a READ that never returns; what clients do ends the server only when one is cut off in a request or has lost its packet id; a client that waits is answered unless the server has ended or is blocked |
| `read_rewind` | violation | REWIND does not restart |
| `read_order` | violation | the last document of the collection is popped before others |
| `read_term` | violation | `term` may never return |
| `write_lost` | violation | `term` may drop acknowledged documents |
| `server_close` | violation | CLOSE and then disconnecting gives back two references |

**Bounds.** The queue is as small as it can be and still be neither empty nor
full (2), and smaller than the vectors pushed into it, so that a push is cut,
waits, and resumes.  Two windows of documents (limit 2, 3 or 4 documents) give a
query that follows another and one that ends short; with 3 documents and room for
2 in a response, a READ that times out after its first document and then pops a
whole batch is too long.  `read_live` has one window of 2 documents, which arrive
before or after the OPEN; its parameters make the batches and queues smaller and
larger than that.  Two openings let state of
the first leak into the second.  One REWIND may fall anywhere in a query.  Two
clients are enough to share a processor and to have one leave while the other
works; with purposes chosen freely they also hold different processors.  Two
requests after OPEN let a client go wrong after one success, and let a client
without a packet id send enough for the server to go on reading.  In `session` a
header has 2 digits, both used by every response, so that each way to cut it off
changes the number.  `CHECK_DEADLOCK
FALSE` is set where a bound is reached, the server has ended or the last client
has closed; `queue_spsc` checks for deadlock, its popper's timeouts notwithstanding.

**Fairness.** Weak fairness of each thread's steps: the operating system
schedules both threads, and a timed wait ends (in `QueueClients` not even that is
assumed).  Strong fairness of `BatchRelock`: the io thread, woken from
`m_con_query`, competes for `m_query_done_mutex` with a read thread that takes
and releases it forever, and a futex hands a mutex out eventually.  Weak fairness
of `Read` is assumed in `ReadOptions`: `EventuallySent` is a promise to clients
that go on reading.  In `Server`, weak fairness of the handlers of each connection: an
`io_service` runs every handler that is due, as long as the one before it returns,
and in `Session` also of a client's `recv`, which returns when there are bytes.  A
handler that does not return is a step that ends all others (`"blocked"`), so
`Answered` and `BrokersStop` except it; fairness does not rule it out.  Clients' requests, inserts, REWIND and `term`
are never forced, nor is a client's departure.

**`Stranded`** is the io thread asleep on `m_con_query` when the read thread waits
for room in the queue or has exited.  It is reachable (`read_term` shows one way),
and the liveness properties say that, apart from the parameters above, it is the
*only* way in which a READ or a `term` does not come to its end.
`DeadlockOnlyStranded` says the same without fairness, of a state: whenever
each thread waits for the other with no timeout to end it, this is how, however
`m_query_done_mutex` has been unlocked by the thread that does not hold it.

## 4. What the code does not do

1. **`read_term`** (`src/broker.cc:241`): `m_querying` is tested without the
   mutex; if the query ends before the wait begins, its `notify_all` is missed.
   With `m_do_exit` set the read thread exits without another one, and `term` waits
   for ever, and with it the only io thread.
2. **`read_rewind`** (`src/broker.cc:152`): REWIND clears `m_last_doc_id` and not
   the queue, so the next READ answers with what was queued.
   `rb/spec/gem_spec.rb:17` expects the first batch again.
3. **`read_order`** (`src/sized_queue.cc:50`): `push(vector)` takes the vector from
   its back, so the documents of each query come out last to first, window by window,
   and those of one WRITE are applied last to first.  `test/broker_test.cc:170-171`
   expects the order of the collection: when the last document inserted is popped,
   `BOOST_CHECK_EQUAL(bk_read.size(),0)`.  `InOrder`, `ImplementsFIFO` and
   `AppliedInOrder` are about the order in which `push` takes items in, and do not
   say that it is the one wanted.
4. **`write_lost`** (`src/broker.cc:302`): a timeout that happened before the last
   WRITE makes the write thread exit after it; the documents stay in the queue and
   are cleared at the next OPEN.  `test/asio_processor_test.cc:228-232` looks for
   every update in the database after `term`.  A timeout that comes after `set_exit` does not:
   `LateTimeoutLosesNothing`.
5. **`server_close`** (`src/asio_processor.cc:49`): CLOSE leaves `m_processor` in
   place and the disconnect closes it again; another connection then fails an
   assertion.  The Ruby client never sends CLOSE.

Three more are stated here rather than as runs of their own: `limit` 0 (see
BrokerInit above); the comment "will throw ex if exceed limit" of
`src/asio_handler.cc:62`, where `decode` has no limit; and `skip`, which `docs/api.txt:11`
calls an offset, but which `src/broker.cc:189` passes to every query although each
starts after the last one (`Found`), so that `m_skip` documents vanish in front of
every window.

## 5. Proofs

All hold for any sets of threads, connections and options and any value of the
numeric constants, under the assumptions named in the modules:

* `LimitSizeIsNat`, `ClientsAssumption`, `ReadAssumption`, `WriteAssumption`,
  `ServerAssumption`, `SessionAssumption`: bounds and sizes are natural numbers,
  `Limit` is any integer, a broker has its two threads, `Conn`, `Client` and `Doc`
  are finite, `Extra` consists of commands, and a header has digits enough for the
  largest body.
* `InitAssumption`: an `int` has at least one bit, and the default limit is one of
  its positive values.
* `SizeHoldsInt` (a `size_t` counts further than an `int`), `PowerOfTwo` (`2^IntBits` is
  twice `2^(IntBits - 1)`, and 5 does not divide it) and `PowersPositive` (powers
  of 10 are positive) follow from the others, but the provers know nothing of `^`.
  They are stated as assumptions, and TLC evaluates them on every instance.

| Theorem | States | Hypothesis |
|---|---|---|
| `QueueTypeCorrect` | `Spec => []QueueTypeOK` | |
| `VectorsWithinLimit` | `[]WithinLimit` | nobody uses `push(T)` |
| `OnePopperFindsItem` | `[]PopFindsItem` | one popper, no spurious wakeup, `m_limit_size` not 0 |
| `NoWakeupLost` | `[]NoLostWakeup` | one pusher, one popper |
| `ItemsInOrder` | `[]InOrder` | one pusher |
| `EveryItemOnce` | `[]ExactlyOnce` | |
| `QueueRefinesFIFO` | `Spec => ImplementsFIFO` | one pusher, which does not use `push(T)` |
| `ReadTypeCorrect` | `[]ReadTypeOK` | |
| `ReadPopAlwaysFindsItem` | `[]ReadPopFindsItem` | queue size not 0 |
| `CrashAlwaysNeedsRewind` | `[]CrashNeedsRewind` | |
| `JoinAlwaysUnblocked` | `[]JoinUnblocked` | queue size not 0 |
| `BatchAlwaysBounded` | `BatchBounded` | `Limit` a positive `int` |
| `DropAlwaysNeedsTimeout` | `DropNeedsTimeout` | `Limit` a positive `int` |
| `DeadlockAlwaysStranded` | `[]DeadlockOnlyStranded` | queue size not 0 |
| `BreaksAtZeroAlone` | `[]BreaksOnlyAtZero` | `Limit` is what `init` makes of some OPEN |
| `ZeroOnlyFromZero` | which OPENs give a batch or a queue of size 0 | |
| `EachDocAlwaysOnce` | `[]EachDocOnce` | `m_skip` is 0 |
| `BrokerImplementsCursor` | `Spec => ImplementsCursor` | |
| `WriteTypeCorrect` | `[]WriteTypeOK` | |
| `AppliedInOrderAlways` | `[]AppliedInOrder` | |
| `WritePopAlwaysFindsItem` | `[]WritePopFindsItem` | queue size not 0 |
| `LateTimeoutNeverLoses` | `LateTimeoutLosesNothing` | |
| `SessionTypeCorrect` | `[]SessionTypeOK` | |
| `AlwaysInStep` | `[]InStep` | |
| `AlwaysOneReader` | `[]OneReader` | |
| `LossAlwaysNeedsFailure` | `[]LossNeedsFailure` | |
| `FaultAlwaysNeedsFailure` | `[]FaultNeedsFailure` | |
| `ServerTypeCorrect` | `[]ServerTypeOK` | `Orderly` |
| `RefcountCorrect` | `[]RefcountExact`, which excepts a blocked handler | `Orderly` |
| `NoAssertionFails` | `[]NoAssertion` | `Orderly` |
| `SendBufferKept` | `[]SendBufferStable` | |

*Queue.* The type invariant carries which condition each kind of thread may wait
on, and each property is inductive together with it.  `PopFindsItem` speaks of a
woken popper: one popper is needed because a second could take what was announced,
and a spurious wakeup would announce nothing; with
`m_limit_size` 0 a push tells the popper before it waits, with the queue empty.  `SizedQueueProofs` has the facts
about the operators: what a transfer leaves in the vector and adds to the deque,
and that the two concatenate to what there was.
`QueueRefinesFIFO` needs no invariant but the type and the limit: a push maps to
`Put`, because what a transfer appends and what it keeps are the front and the rest
of the reversed vector, a pop to `Get`, an offer to `Offer`, and a wait, a
notification or a timeout to a stutter.
`ExactlyOnce` is not inductive: it says nothing of numbers that are yet to be
offered, nor whether a pusher has an item twice, of which a push would leave one
behind.  `Conserved` adds both.  It needs none of the hypotheses above: whatever
the threads race for, an item is in one place.

*Read broker.* `ReadInv` ties the two program counters to the shared state:
`IoPlace` (what a command in progress has in hand, and that `m_do_exit` is set exactly
during a `term`), `ReaderPlace` (documents are in the read thread's vector only
from a query to the end of its pushes, and only a REWIND makes the id it has read
differ from `m_last_doc_id`), `QueueWaits` (who waits on which condition, and next to
what queue) and `Room`.  `Room` is the argument for `term`: `m_do_exit` is set
before its pop, so the read thread is at most in the push it had begun, and once
`term` has popped a document, or has timed out because there was none, that push
has room.  It holds from the timeout through the whole wait on `m_con_query` to
the join, not at the join alone.  A queue of size 0 has never room, hence the
hypothesis.  `BatchBounded` needs `Popped`, which relates the batch to the
attempts that have timed out; both it and `DropNeedsTimeout` are about limits
that come through the conversion to `size_t` unchanged.
`DeadlockOnlyStranded` needs `LockHeld`: `m_query_done_mutex` is locked only while
`query` runs, or the io thread is between its wait and the unlock after it, and
both unlock it.  So neither thread waits for the mutex while the other waits for
something else, and `QueueWaits` and `Room` leave no way to wait in the queue at
both ends.

*Parameters.* `ReadOptions` has one instance of `ReadBroker` for each set of
parameters, and its `BreaksOnlyAtZero` is that of the instance.  `BreaksAtZeroAlone`
proves the latter for every value of the instance's constants, so for each of
these instances; a theorem about `ReadOptions` itself could not cite it, because the
prover hides the theorems of an instance that has a parameter.
`AbortNeedsZeroLimit` is its part about the assertion: a negative limit is a
large `size_t`.  `ZeroOnlyFromZero` rests on `FiveTimesWraps`: if `5 * limit` is a multiple
of `2^IntBits`, then at most twice that, and 5 divides neither.

*Documents.* `ReadCopyProofs` counts the copies of each document in the five places
where it can be.  `CopiesBounded` says that there is at most one copy for each
document up to the last one fetched and one more for each REWIND.  It is inductive
only if it also speaks of the moment when a REWIND has cleared `m_last_doc_id` and
a query is going out with the old id: its answer will then set `m_last_doc_id`
past documents not fetched again, and `CopyBound` takes one copy less for granted
there.  `NoneLost` is the other half of `EachDocOnce`, for behaviours without a
REWIND and for `m_skip` 0: otherwise every query skips documents.  `BrokerImplementsCursor` follows from `CopiesBounded` alone, so that
it holds for any `m_skip` and with any REWINDs: `CreditLeft` says that `credit` does
not become negative, an answer maps to `Take`, because `credit` falls by the number
of copies in it, and every step within the threads to a stutter.

*Write broker.* `WriteInv` adds to the type that both threads are at rest
between two openings and hold documents only where they say so.  A
document in hand when the process ends stays there.  With it `AppliedInOrder` is inductive: a document moves from the vector of the WRITE to the
queue, to `current` and to the database without changing its place in the sequence.
`Waits` says who waits on which condition and next to what queue: the write
thread is woken only for a document, if the queue can hold one.  For
`LateTimeoutLosesNothing` it says that the write thread sleeps in `pop` only next to
an empty queue; after `set_exit` the io thread has no WRITE in hand either, so that
`AppliedInOrder` leaves only the documents applied.

*Session.* `Dialogue` says for each place where a client can be what is on the way
between it and the server, and whether the server counts it among the holders:
in particular, the whole of one response or of one request while it waits, and
nothing while it is ready.  That is what `InStep` needs, and with it each
document property is inductive.  `FaultNeedsFailure` speaks of a client without a
packet id, which every client is at first; `FaultCause` says that the one meant
is past its OPEN and stays without.  It says nothing of the ends that need no
client to fail (`"open"`, `"thread"`, `"blocked"`).  `AlwaysInStep` holds for every size of
header, id and body with which the header can count a packet.

*Server.* `Orderly` says that clients add to the Ruby client's commands at most
OPEN, REWIND and numbers that are no command; without it `server_close` is a
counterexample.  `RefcountExact` is not inductive: that a connection which opens
does not hold a processor yet, and that the one which READs does hold the one it
opened, is known from earlier steps.  `ServerInv` adds, for every connection,
`LocalInv` (where the client and the connection are fits together: a client that
may send has nothing in flight; the processor held is the one the client opened,
from OPEN until the end) and `StreamInv` (at most the rest of one packet is unread,
and its command is one that may come now).  The proof has one lemma per action,
`StepOf` reducing each to the connection it concerns; the count itself is
`OpenRefcount` and `CloseRefcount`, on the cardinality of `Holders` with one
member more or less.  `SendBufferStable` needs none of this and no `Orderly`:
`Alternation` says that a client sends one request and then waits, and that all of
it has been read before the answer begins to be sent, whatever its command is.

Only model-checked are the liveness properties (`Delivered`, `ReadAnswered`,
`TermEnds`, `EventuallySent`, `WriteAnswered`, `WriteTermEnds`, `EventuallyApplied`,
`BrokersStop` and both `Answered`): fairness is out of the prover's reach.

## 6. Not modelled

* What the database does with a negative `skip`.
* A client that sends a command before its OPEN, which fails an assertion; the Ruby
  proxy does not.
* What `pop` does once it has read the front of an empty deque.
* The checks of `init` that throw (host, port, database, collection), except as an
  OPEN that ends the server in `Server` and `Session`.
* The lengths of single documents, and so the buffer of `toBSONObj`, which is made
  large enough for every document but the last one.
* Several ports in `main`, as far as a failing accept tells them apart.
* What a Ruby proxy makes of further bytes once an answer did not parse; its
  wrapper `client.rb`, which makes a proxy per purpose and calls it.
* What an update does to the database, and how the database finds documents, except
  for their order.
* The ZeroMQ predecessor, which is not built, and the colours of log lines.

## 7. Plan

1. The queue, both brokers and the server with their runs; the theorems of queue and
   server: done.
2. Parameters (`BrokerInit`, `ReadOptions`), packets (`Session`), the abstract
   specifications (`BoundedFIFO`, `Cursor`) and their refinements, the failing
   accept: done.
3. Proofs of the queue, both brokers, the packets and the server; `ReadBroker`
   implements `Cursor`; which OPENs break a broker: done.
4. Left: the lengths of single documents and the buffer of `toBSONObj`; several
   ports.
