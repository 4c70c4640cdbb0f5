# TLA+ models of cpp-fragments

The repository is a collection of small C++ programs: event-loop workers on
libevent, WebSocket clients over plain and TLS sockets, a threaded TCP server,
and demonstrations of threads, locks and helpers. This directory holds TLA+
modules for the parts that have behaviour worth checking, TLC configurations for
small instances, and TLAPS proofs.

## Inventory

Paths are relative to `src/src`. Everything under `3rdparty` is vendored
(rapidjson, spdlog) and not modelled.

| Part | State | Operations | What is hard | What must hold |
|---|---|---|---|---|
| `EventLoopWorker`, pipe version (`event/event_base.cpp` 170-267) | `work_queue`, `queue_mutex`, `notify_pipe`, `notify_event`, libevent's break flag | constructor, `submitWork`, `run`, `notify_cb`/`processWork`, `stop`, destructor | any thread submits while the loop drains the pipe and takes the queue; the pipe may be full; `stop` does not wake the loop; tasks may submit tasks | no lost wake-up, each task once and in order, no self-deadlock, a busy loop stops |
| `EventLoopWorker`, user-event version (`event/event_loop.cpp`) | `work_queue`, `queue_mutex`, `work_event`, break flag | the same operations, woken by `evuser_trigger` | the event is activated from other threads without libevent locking; a user event does not keep the loop waiting | the same promise; it is not kept |
| libevent demonstrations (`event/event_base.cpp` 13-168) | events and the base | signal, timer, several events, a user event from another thread | `event_active` across threads, loop exit racing the trigger | nothing: `main` has their calls commented out |
| WebSocket receive path (`net/wss_client.cpp` 232-381, the same in `net/wss_client_okx.cpp`; `util/ws/ws_packet.*`) | `recv_buf` with its offset, `msg_buf`, the packet being parsed | read a batch, cut out frames, collect a message, answer pings, hand texts to the JSON parser | frames cut by reads at any byte, several frames per read, control frames between fragments, three length forms | the frame boundary is never lost; sent frames come out once and in order |
| WSS session (`net/wss_client*.cpp`, the rest) | socket, TLS context and object | connect, handshake, subscribe, receive, clean up | answers taken to be one read; error paths that free different things | every object is freed once; the stream starts at a frame boundary |
| Frame encoders (`create_websocket_frame` and `mask_payload` of the three clients, `pack_dataframe`) | none | encode, mask | the length forms, the mask | a peer decodes what was encoded |
| Plain WebSocket client (`net/ws_client.cpp`) | socket | lookup, connect, handshake, one message, one answer | one read per answer, a refusal passes for an answer | the socket is closed once on every path |
| TCP server (`net/tcp_server.cpp`) | listening socket, a detached thread and a descriptor per client, `cout_mutex` | start-up, accept loop, `handle_client` | threads never end and descriptors are never closed; a read timeout counts as a disconnect; a write to a client that left raises SIGPIPE; reads cut a stream anywhere; a mutex shared by all threads | a thread serves its own client only; waiting clients are served and every byte answered; a client that leaves with all it sent answered harms nobody |
| Producers and consumers (`concurrent/lock.h`, `main.cpp` 102-108) | queue, mutex, condition variable | `producer`, `consumer` | lost, stolen and spurious wake-ups | every item consumed once and in order |
| Latch and barrier (`sync/sync_base.cpp`) | a latch and a barrier, each on the stack of a function | `use_latch`, `use_barrier` and their workers | the function returns while the last worker is still inside the latch | nobody uses what is gone, nobody passes before all have arrived, both functions return |
| `LockComposite` (`lock/lock_base.cpp`) | a counter under a shared mutex | `get_counter`, two lock holders | uninitialised counter, separate load, store and return, overflow | no increment is lost below the largest `int` |
| Text helpers (`util/string_helper.*`, `base64_encode`) | none | `splitStr`, `trim`, `base64_encode` | delimiters at the ends, overlapping or repeated; an `int` that overflows | agreement with a definition |
| HTTPS client (`net/https_client.cpp`) | the curl handle, the resolve list, the header | one request, the header callback, the split of the header | any header | what is shown are the parts of the header |
| Config, ed25519 tools, log, time, number helpers, class and function demonstrations | none that outlives a call | library calls | - | - |

Within a program the parts interact as follows. Threads and the loop of a worker
share the queue under the mutex and the pipe outside it. A WSS session hands its
TLS object to the receive path; the receive path calls the packet codec for
every frame and writes pongs through the codec's encoder. The event loops call
back into the worker. The programs do not interact with each other.

## Modules

| Module | Models |
|---|---|
| `TaskExecutor` | abstract: tasks accepted, executed one at a time in order, dropped at shut-down |
| `PipeEventLoop` | the pipe version of `EventLoopWorker` with the part of libevent that it uses |
| `FrameChannel` | abstract: frames delivered whole, once and in order |
| `WsPacket` | operators: `ByteBuffer` reads, `recv_dataframe`, `pack_dataframe`, `create_websocket_frame` |
| `WsReceive` | `read_and_process_message` and `process_one_message` with an RFC 6455 peer |
| `UserEventLoop` | the user-event version of `EventLoopWorker` |
| `WssSession` | `main` of the three WebSocket clients around the receive path: objects, error paths, the part of the stream read before frames are parsed |
| `TcpServer` | the server: `main`, one `handle_client` per client, the clients |
| `ProducerConsumer` | `producer` and `consumer` with mutex and condition variable |
| `SyncBase` | `use_latch` and `use_barrier` with their workers |
| `LockComposite` | `get_counter` and the lock holders |
| `TextHelpers` | operators: `splitStr`, `trim`, `base64_encode`, each with a reference definition |
| `HttpsClient` | `main` of the HTTPS client; its header is the input of the text helpers |
| `MCPrograms` | the four small programs as one specification: a behaviour is a run of one of them |
| `SequenceLemmas` | facts about queues, `SubSeq` and `FlattenSeq` for the proofs |
| `PipeEventLoopProofs`, `UserEventLoopProofs`, `WssSessionProofs`, `TcpServerProofs`, `ProgramsProofs` | TLAPS proofs about these components; `ProgramsProofs` is about the small programs |
| `WsPacketProofs`, `WsReceiveProofs` | TLAPS proofs about the codec and the receive path |
| `MCPipeEventLoop`, `MCUserEventLoop`, `MCWsReceive`, `MCWssSession`, `MCTcpServer` | the instances TLC checks |

A definition whose comment begins with "Slip" is a mutated form of the
definition behind it, the way a plausible mistake would change that code. No
specification uses it; each property of the passing runs has one that breaks it.

### PipeEventLoop

Each thread has a program counter. `submitWork` is four actions: `SubmitWork`
(the call), `SubmitLock`, `SubmitPush` (the push and the release of the
`lock_guard`), `SubmitNotify` (the write of one byte, which fails without effect
on the queue when the pipe is full or was never made). The loop thread is
`RunStart` (`event_base_dispatch`, which clears the break flag), `LoopCheck` and
`LoopWake` (libevent, external: the flag is tested between callbacks, the
backend reports a readable pipe), `DrainByte`/`DrainEmpty` (the `read` loop of
`notify_cb`), `LockQueue`/`TakeItem`/`UnlockQueue` (the critical section of
`processWork`), `RunItem` for each task and `CallbackReturns`. The loop thread
is itself a caller of `submitWork` while a task runs. `Stop` is
`event_base_loopbreak`; since the program never calls `evthread_use_pthreads`,
libevent has no way to wake the loop and only the flag changes. `Destroy` is the
destructor at the end of `main`.

Assumptions. Tasks do not throw. `Destroy` happens when no thread is inside
`submitWork` and the loop is blocked or has returned: `main` relies on a sleep
of five seconds for that, and the model takes the sleep to be long enough. The
break flag is a plain `int` written without a lock; the model takes the write to
become visible. A null base makes `run` dereference a null pointer
(`"crashed"`).

### UserEventLoop

The queue, the mutex and the callers are those of `PipeEventLoop`; the pipe is
replaced by one flag, `active`. `evuser_new` makes an event without descriptor
and flags, and `event_add` without a timeout registers nothing, so libevent
counts the event only while it is active: `LoopCheck` goes to the callback or
returns, it never waits. `Fire` resets the event before `work_callback` is
called, as libevent does for an event without `EV_PERSIST`; an activation from
inside the callback is seen by the next `LoopCheck`. `Destroy` follows the join
of `main`.

libevent takes no lock in this program. `Overlaps` says when another thread may
be inside libevent at the moment of an activation: the loop outside its
callback, or a second caller. Such a `SubmitTrigger` is a data race (`Races`).
Its outcomes are those of the plain fields it writes: the event is active or it
is not, the process may die, and `damage` holds the counts that came out wrong
(`Damages`). A count of active events that is too high lets the loop pass on and
on without a callback, a count of events that is too high lets it wait in the
kernel for ever, where even `stop` does not wake it (`EmptyPass`), and an
event that is marked active but counted nowhere is never called. `raced`
remembers the race: what depends on activations, the end of the loop among them,
is claimed without a race only; what the mutex protects is claimed always.

### WssSession

One action per library call with its outcomes, so that every error path is a
behaviour. `ctx`, `ssl` and `socket` count what is to be released; `ctx` counts
references, since `SSL_new` takes one and `SSL_free` drops it. `SetServerName`
exists in the okx client only, which also frees its own reference behind the TLS
handshake. The server's stream is counted in pieces: the length of the
answer to the handshake and of the frames is any of two, one that fits the
client's buffer and one that does not. `ServerSends` cuts it into records;
`ReadRecord` is one `SSL_read`, which leaves on the wire what is longer than its
buffer. `Receive` stands for all of `WsReceive`, with the moment where its
stream begins. `SSL_new` and the memory it needs are taken not to fail, and so
is the writing of the clients to a connection that the server has reset, which
could raise SIGPIPE.

The plain client (`Plain`...) has its own `main`: no TLS objects, the same error
path behind each call on the socket (`SocketCall`), and one `recv` for each
answer that looks only for a negative result. Its two reads are `ReadRecord` on
the same stream, so that a refusal, the end of the stream and a cut response
pass through it as they do in the code.

### TcpServer

`main` is the four calls of the start-up, then `Accept`, `MainLock`/`MainPrint`
(the scope with `cout_mutex`) and `Spawn`, which copies the descriptor into the
new thread. `handle_client` is one action per step between two points where
another thread may run: the two acquisitions of the mutex around the greeting
and the report, `ReadBytes`/`ReadEnds`/`ReadTimesOut` (the three outcomes of
`read`), the print and the reply. `keep` is the loop behind the session, which
never ends, so the `close` behind it is never reached and a descriptor is never
free again; when none is left, `accept` fails and `main` tries again, a step
that changes nothing.

A handler knows its client by the number of a descriptor only; `table` says
whose connection the number is, and `HandlersOwnSockets` that it stays its own.
A client connects once, sends up to `MaxBytes` bytes and may leave at any
moment. What it sends is a stream: a read returns some of the bytes that have
arrived, up to `Buffer` (1024 in the code), so a message may be split over
several reads, each with a reply, and a read may hold several messages. Where
the program sees no message, the model has none. A read that fills the buffer
leaves no terminator behind the text, and its print may end the process
(`PrintOverruns`). Behind the departure the first write still succeeds and is
answered by a reset, at once or later, and a client that closes with replies
unread resets the connection itself; a write behind a reset fails or raises
SIGPIPE, whose default action ends the process. A reply covers what was read.

### The small programs

`ProducerConsumer`: `Push`, `NotifyOne` and the release are three steps under
the mutex; `Wait` releases it and waits in one step, as
`condition_variable::wait` does, and a waiter that is woken, by a notification
or for no reason, comes back through the mutex to the predicate. `front` and
`pop` are two steps.

`SyncBase`: `count_down` decrements and then, at zero, wakes the waiters; the
second step still uses the latch. The count of the latch and the number of its
workers are two literals of the code, and two constants here. `arrive_and_wait` counts the arrival, and the
last one starts the next phase. Joins wait for workers that have finished.

`LockComposite`: the increment is a load and a store and the returned value is
loaded again, all under the `unique_lock`. The counter starts with any value.
The addition at the largest `int` is undefined, and any value may be in the
counter behind it (`Incremented`). The class allows any number of callers;
`main` starts one, the instance has two.

`TextHelpers` and `HttpsClient`: libcurl hands `headerCallback` any header, and
the text helpers are checked on whatever it holds: `splitStr` with both
delimiters of the program, `trim`, and `base64_encode`, whose `int` drops its
upper bits.

### WsReceive

A byte is a number, the wire and `recv_buf` are sequences of bytes, and the
header is computed from the bytes as in `fetch_frame_info`. `ReadBatch(n)` is
the `do ... while (SSL_pending)` loop: any number of bytes arrives, and parsing
begins when more than `WEBSOCKET_HEADER_MIN_SIZE` bytes lie behind the offset.
`ParseIncomplete` is a failed `recv_dataframe` (the offset goes back),
`ParseFrame` a successful one with the collection in `msg_buf`,
`process_one_message` at a fin bit, and the test that ends the inner loop. Both
end with `Compact` (`erase` and `resetoft`) when the inner loop ends. Between
two calls of OpenSSL the one thread of the program is not observed by anybody,
so the code between them is one step per frame.

Abstractions. The JSON document is not modelled: a text counts as handled when
its bytes reach `Document::Parse`, which gets them as a C string and stops at
the first NUL (`CString`). rapidjson asserts that a document is an object and
its fields have the types that are asked for; `AssertionFails` is the end of the
process for a text that is JSON of another form. `WANT_READ` and `WANT_WRITE`
make the code try again without any change. The masking key of a new packet is uninitialised
in the code; no frame of the model uses a key that was not read. The peer is
external and keeps the rules of RFC 6455 for fragments.

## Runs

| Run | Instance | Shows |
|---|---|---|
| `pipe_event_loop` | 3 tasks, 2 threads and the loop thread, a pipe of 2 bytes, all three outcomes of the constructor; 21 000 states | `NoLostWakeup`, `FifoExactlyOnce`, `MutexDiscipline`, `NoCallbackAfterDestroy`, the liveness properties `TasksRun` and `StopEndsBusyLoop`, the inductive invariant `IInv` (types, batches run to their end, no return without `stop`, and the facts that connect them), and `TaskExecutor` as `ExecutorSpec` |
| `ws_receive` | 3 frames out of 7 (both short length forms, masked and unmasked, one text as the clients encode theirs, one with a NUL, a ping that may fall between two fragments, an empty fragment), every way to cut their bytes into reads; 24 300 states | `TypeOK`, `FrameSync`, `NothingLongDelayed`, `SingleFrameTextsIntact`, `PingsAnswered`, `NoOutOfRange`, the liveness property `LongFramesDecoded`, and `FrameChannel` as `ChannelSpec` |
| `user_event_loop` | 3 tasks, 2 threads and the loop thread, with and without a base; 146 100 states | `NoLostActivation`, `FifoExactlyOnce`, `IInv` (types, mutex discipline, a destroyed worker is outside its callback, and the facts that connect them), the liveness properties `ActivatedTasksRun` and `RunReturns`, and `TaskExecutor` as `ExecutorSpec` |
| `wss_session` | the three clients, a response of 2 or 4 pieces and 2 frames of 2 or 3 each in records of 1 to 4, buffers of 3 and 2 pieces; 108 700 states | `TypeOK`, `SessionReleased`, `ConnectionAlive`, `BoundaryKept`, the liveness property `CloseEndsSession` |
| `tcp_server` | 3 clients with up to 3, 1 and 0 bytes, reads of up to 2, 2 descriptors; 150 000 states | `TypeOK`, `HandlersOwnSockets`, `PoliteClientsHarmless`, the liveness properties `WaitingClientsServed` and `RequestsAnswered` |
| `small_programs` | 2 producers of 3 items and 2 consumers; 3 latch and 4 barrier workers; 2 callers and 2 holders on an `int` of four values; headers of up to 5 bytes out of 5; 52 900 states | `TypeOK`, `ItemsOnceInOrder`, `AliveWhileUsed`, `CountsConsecutive`, `TextHelpersAgree`, `Base64Agrees`, the liveness properties `PushedConsumed` and `FunctionsReturn` |
| `user_event_usage` | as `user_event_loop` | violated: `TasksRun` |
| `wss_partial_response` | as `wss_session` | violated: `ResponseRead` |
| `wss_context` | as `wss_session` | violated: `AllReleased` |
| `ws_fragmented_text` | the same frames as `ws_receive` | violated: `TextMessagesHandled` |
| `ws_short_frame` | the same frames | violated: `NoCompleteFrameWaits` |
| `ws_long_frame` | a short text and a text with a 64-bit length | violated: `EntireFramesFound` |

Bounds. Three tasks and two threads are enough for a task that is pushed while
another is drained and a third is running, and the two-byte pipe is full with a
third write outstanding. A task that submits a task takes one more caller. In
`WsReceive` the length field grows at 4 and at 6 bytes instead of 126 and 65535
(`Len7Limit`, `Len16Max`), which keeps every header form within 17 bytes. Three
frames are enough for a message in two fragments with a ping between them, and
for a batch that holds the end of one frame, a whole one and the beginning of a
third. `MaxFrames` bounds the history, nothing else. In `WssSession` a record
may end inside a message or hold the end of one and the beginning of the next,
and of both kinds of messages there is one that fits its buffer and one that
does not. In `TcpServer` two descriptors and three clients let a client wait in
the backlog for ever; three bytes and reads of two split what a client sends
over two or three reads and let a full buffer occur, and leave a reply to be
written behind a reset; the third client stays silent. Two producers of three items each let a notification
meet no waiter, one waiter or two, with other items queued or not. The latch and
the barrier have the workers of the code. Five calls of `get_counter` pass the largest
of four values from every first one. A header of five bytes holds
two delimiters with a part between them and every byte that makes one up; with
an `int` of 16 bits, `base64_encode` overflows behind the second byte instead of
the fourth.

Deadlock is not checked: a loop without work and a client without data are meant
to wait, and a peer or a caller may stop at any time.

Fairness. `PipeEventLoop`: the loop takes the steps it can take, and a
`submitWork` that began goes on (weak fairness, which is the scheduling of
runnable threads; the mutex is contended by finitely many calls). Nobody is
obliged to submit, to stop or to destroy. `WsReceive`: bytes that were sent
arrive and the client parses what it has read; the peer need not send anything
and the connection may end at any time. `UserEventLoop`: as `PipeEventLoop`.
`WssSession`: a call that can return returns; the server owes nothing and no
read has to fail. `TcpServer`: `main` and each thread take the steps they can
take, which is weak fairness since the mutex is contended by finitely many
messages; clients owe nothing, and no read has to time out. `MCPrograms`: each
thread runs when it can; a consumer need not wake without a notification.
Nothing is assumed of `LockComposite` and `HttpsClient`, about which no liveness
is claimed.

### What the violated properties say

1. A text message in fragments is never handled: `process_one_message` tests the
   opcode of the frame that carries the fin bit, and that is `Continue`. A ping
   between the fragments is a fin frame too and clears what `msg_buf` had
   collected. (`wss_client.cpp:360-362` calls the place "Complete message
   received".)
2. Of a buffer of at most five bytes the client says "No complete message
   received yet" (`wss_client.cpp:377`), although it may hold one: an
   unmasked ping with three bytes of payload, or a text of one, is taken up only
   when more bytes follow. The property speaks of frames with the fin bit, which
   complete a message. Frames longer than the minimum are not delayed:
   `LongFramesDecoded` and `NothingLongDelayed` hold.
3. A 64-bit length is computed into a local variable and never stored
   (`ws_packet.cpp:136`): a frame that lies in the buffer from its first byte to
   its last is decoded with a stale length and its payload is parsed as frames.
   `recv_dataframe` is documented to find an entire frame
   (`ws_packet.h:126-129`). The counterexample ends with a whole frame of 17
   bytes in the buffer of which an empty text was made. A second fault stands
   next to it, of which no property is stated: when a read ends inside the eight
   bytes, `read_bytes_x` takes nothing, its result is ignored (line 135), and a
   frame is found before its header has arrived.
   The passing run therefore holds for
   peers whose frames have at most 65535 bytes of payload.
4. The loop of the user-event worker does not wait: it returns as soon as the
   event is not active, and the tasks that `main` submits a second later
   (`event_loop.cpp:78-86`) are queued and never run. Tasks submitted before `run` or
   from a running task are run (`ActivatedTasksRun`).
5. "Read the server's response" (`wss_client.cpp:130`) is one `SSL_read`. A response in
   two records passes as soon as its status line was seen; its end is taken for
   the answer to the subscription, the answer itself for a frame. If the
   response and the first frame come in a record each and fit their buffers, the
   boundary is kept (`BoundaryKept`). An answer to the subscription of more than
   1023 bytes does not fit: its rest is still in the stream when the receive path
   begins, even if every message is one record. The instance has such answers;
   the code says nothing of their length, and no property claims anything.
6. "Clean up" (`wss_client.cpp:438`) leaves the TLS context of the binance client
   unreleased. The okx client releases it (`SessionReleased`), except when a
   call before the end of the TLS handshake fails.

## Proofs

Each component with an inductive invariant has one module of proofs. The
theorems hold for all values of the constants that the named `ASSUME`s of the
module admit; TLC evaluates those in the runs. Nothing of a component is bounded
in them: any tasks, callers, clients, frames, workers, items, ranges, headers,
and any sizes. In each module there is one lemma for the step of each part of
the invariant, with one case per action.

| Module | Theorems |
|---|---|
| `PipeEventLoopProofs` | `SpecIInv`, `SpecTypeOK`, `SpecNoLostWakeup`, `SpecFifoExactlyOnce`, `SpecMutexDiscipline`, the action property `SpecNoCallbackAfterDestroy`, the refinement `ImplementsExecutor` |
| `UserEventLoopProofs` | `SpecIInv`, `SpecNoLostActivation`, `SpecFifoExactlyOnce`, the refinement `ImplementsExecutor` |
| `WssSessionProofs` | `SpecIInv`, `SpecTypeOK`, `SpecSessionReleased`, `SpecConnectionAlive`, the action property `SpecBoundaryKept` |
| `WsPacketProofs` | `ParserFindsPacked`, `ParserFindsTexts` |
| `WsReceiveProofs` | `SpecIInv`, `SpecTypeOK`, `SpecFrameSync`, `SpecNothingLongDelayed`, `SpecSingleFrameTextsIntact`, `SpecPingsAnswered`, `SpecNoOutOfRange`, the refinement `ImplementsChannel` |
| `TcpServerProofs` | `SpecIInv`, `SpecTypeOK`, `SpecHandlersOwnSockets`, `SpecPoliteClientsHarmless` |
| `ProgramsProofs` | `BufferItemsOnceInOrder`, `CounterConsecutive`, `SyncAliveWhileUsed` with their invariants; `SplitSplits`, `TrimTrims` and `EncodeAgrees` about the text helpers, with `HttpsInvariant`, `HttpsTextHelpersAgree` and `HttpsBase64Agrees`; `RunsPrograms`, `ProgramsTypeOK` and `ProgramsSafe` carry them over to the specification of the run |

### PipeEventLoop and UserEventLoop

The safety properties are not inductive alone. `NoLostWakeup` needs that a
destroyed worker is quiet (`DestroyedIsQuiet`); `MutexDiscipline` needs that the
loop thread is inside `submitWork` only while it runs a task
(`LoopThreadInTask`), otherwise it could own the mutex twice;
`ReturnsOnlyAfterStop` needs that the flag stems from `stop`
(`BreakMeansStopped`); the types need that a caller inside `submitWork` carries
a task (`CallersCarryTasks`). `IInv` is the conjunction of all of them and is an
invariant of the run as well. `FifoExactlyOnce` rests on three lemmas about
sequences (`MoveHead`, `AppendBehind`, `HeadOfWhole`).

`IInv` of `UserEventLoop` has the same shape. `BaselessIsInert` and
`DestroyedAfterLoop` take the place of the facts about the flag.
`NoLostActivation` is claimed without a race, the rest with any outcome of a
race: the mutex alone keeps the queue in order, whatever `damage` holds.

`ImplementsExecutor` is proved of both workers: the push is the acceptance, the
end of a task its execution, the destructor the shut-down, every other step a
stutter.

Assumptions: the pipe holds at least one byte; the loop thread, "no thread" and
"no task" are distinct from the others.

### WssSession

`ObjectsHeld` says at each place of `main` which of the three objects exist, and
`RequestBehindTls` which places lie behind the handshake: from these follow
`SessionReleased` and `ConnectionAlive`, which look at single places only.
`StreamOnWire` says that the records on the wire cover the stream from what was
read to what was sent, each record at a place of its own (`Cuts`); it is what
makes a read end inside what was sent.

`BoundaryKept` speaks of the steps that finish one of the first two reads, and
of a server whose answer and first frame are a record each and fit the buffers
(`MessagesFit`); the server may send longer ones, and then nothing is claimed
(see 5 above). `FirstMessages` says why it holds: as long as the client is
in front of the first frame, the oldest record on the wire is the message it
is to read next. That needs `StreamOnWire` too, since what the server sends
lands behind what is on the wire.

Assumptions: messages and buffers have at least one piece.

### The codec

`IsFrame` says byte by byte what a frame of RFC 6455 is. `PackIsFrame` and
`CreateIsFrame` show that both encoders write one, for every flag, opcode, key
and payload up to `Len16Max`; `FrameDetermined`, that there is only one.
`HeaderFound` and `FrameFound` are about the parser in any buffer in which the
frame has arrived in part: the header is found from `fetch_frame_info`'s reads,
each of which takes nothing when too little is left, and the frame is complete
exactly when its last byte has arrived. The two theorems put them together.

Assumptions: the length field grows at 4 bytes or later (126 in the code),
exclusive or undoes itself, and two powers of 256.

### WsReceive

All theorems have the hypothesis `OnlyShortFrames`: no frame of the peer needs a
64-bit length. Without it they are false (see 3 above), and `ws_receive` is such
an instance.

`FrameSync` is the heart of the invariant, and it is not inductive alone. That
the parser cuts out the next frame needs that the bytes behind the offset begin
with it, which is `InSync` and `FrameFound`, and that there is enough to be
parsed (`ParsesEnough`); that the offset stays inside the buffer needs that a
frame which is complete ends inside it. `DecodedSent` says that what was decoded
are the first of the frames sent. `SingleFrameTextsIntact` needs that `msg_buf`
is empty between two messages (`EmptyBetween`), and that needs that the peer
keeps the order of fragments (`LegalOrder`), since a ping inside a message
clears `msg_buf` too. `NoOutOfRange` needs `ParsesEnough`, which is why the
header minimum has to be 5 or more (5 in the code). Before they were proved, TLC
checked these parts on the instance of `ws_receive`.

The bytes of several frames are a `FlattenSeq`, a recursive function. What the
proofs need of it, that a frame more is its bytes more at the end and a frame
less its bytes less at the front, is proved by induction over the number of
frames: the set of numbers for which a chain of partial results exists holds 0
and with every number the next one (`ChainExists`, `FlattenIsChain`,
`FlattenAppend`, `FlattenHead`).

Assumptions: those of the codec, keys of four bytes and control frames that are
not fragmented, as RFC 6455 has it.

### TcpServer

`HandlersOwnSockets` is inductive with the types. `PoliteClientsHarmless` needs
`RepliesCounted`: a thread on its way to a reply has read a byte that is not
answered yet, and a client that left keeps the account of its bytes. Then a
write behind the reset of a client, the one that may raise SIGPIPE, goes to a
client that left something unanswered. One message is enough for that: a client
may leave with one unanswered, reset the connection, and be written to.

Assumptions: there is a descriptor and descriptors are numbers, a buffer holds a
byte, and each client sends up to some number of bytes.

### The small programs

`ItemsOnceInOrder` needs that who is behind his lock owns the mutex (`MtxHeld`)
and that the front a consumer has read stays at the front until he pops it
(`FrontStays`). `CountsConsecutive` needs that the owner is alone
(`LockExclusive`) and that the counter is as far ahead as calls have returned
(`CounterAhead`), as long as that is at most the largest `int`; behind the first
overflow nothing is left to show. `AliveWhileUsed`
needs that the counts of the latch and the barrier are the numbers of the
workers that are still to come (`LatchCounts`, `BarrierCounts`).

### The text helpers

What `HttpsClient` promises of the helpers holds for every string, not only for
headers.

`TrimTrims`: the two erasures keep what lies between the least and the greatest
position of another character (`Least`, `Greatest`).

`SplitSplits` goes by induction from the end of the string to its beginning. The
recursive function in `SplitStr` looks only at later positions (`LooksAhead`),
so it exists (`PartsExist`). From each position on its parts are a split of the
rest (`SplitsFrom`): `find` either finds nothing, and the rest is the last part,
or it finds the first delimiter (`Finds`); the part before it holds none, not
even one that begins inside (`NoDelimInPart`), and the rest behind it is split
already (`SplitOff`). A delimiter that is not empty is the only hypothesis, and
the two of the program are not.

`EncodeAgrees` goes by induction over the bytes: behind each of them the record
of the loop has the sextets that RFC 4648 wants so far, as many bits left as
`valb` says, and a number whose lower twelve bits are those of the last two
bytes (`Encoded`). An `int` of 14 to 32 bits drops only bits above these
(`LowBits`), and a sextet never looks higher (`SextetOfLowBits`): that is why
the overflow of `val` does no harm. The three bytes of a group are the three
cases of the step (`EncodesMore`).

### Only model-checked

Every liveness property: liveness under fairness is beyond the prover. They are
`TasksRun`, `StopEndsBusyLoop`, `ActivatedTasksRun`, `RunReturns`,
`LongFramesDecoded`, `CloseEndsSession`, `WaitingClientsServed`,
`RequestsAnswered`, `PushedConsumed` and `FunctionsReturn`. Every invariant,
action property and refinement of the passing runs is a theorem. That the six
violated properties are violated is shown by TLC's counterexamples.

## Plan

What is modelled is complete but for the parts below, and the safety of every
component is proved. What could still be stated: that the fields the HTTPS
client shows are exactly the lines with one delimiter, and how far the safety of
the receive path reaches for a peer that sends 64-bit lengths.

## Not modelled

The libevent demonstrations of `event_base.cpp` (13-168) are dead code: `main`
has their calls commented out (lines 271-274). The configuration reader, the
ed25519 tools, logging and time are sequences of library calls and of file input
whose state ends with the call. The number helpers (`decimal_process`,
`calculate_precision_by_min_step`, `valueOf`, `toString`) compute with floating
point, for which TLA+ has no faithful counterpart here. `clazz`, `func`,
`concurrent/thread.h` and the rest of `main.cpp` demonstrate the language one
statement after the other. `3rdparty` is not this repository's code.

Two behaviours of modelled components are left without a claim. `stop()` before `run()`
(`event_base.cpp:259`) is in the model, but the repository says nothing of it
and no property claims anything. The destruction of the worker five seconds
after `stop()` (`event_base.cpp:293`) assumes that the sleep outlasts the
running callback.
