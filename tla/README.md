# C_Reactor in TLA+

C_Reactor is a multi-threaded HTTP server in C, built as a *reactor*: one event
loop per thread, a dispatcher (poll, epoll or select) under each loop, a task
queue and a wake-up socket pair through which threads hand work to a loop. This
directory holds TLA+ models of it, the TLC runs that check them, and proofs
checked by TLAPS.

    tlc -workers 2 -config Reactor_workers.cfg MCReactor.tla
    tlapm ReactorProofs.tla

File and line references are to `src/`.

## 1. The system

| component | state | operations | meets others through |
|---|---|---|---|
| **TcpServer** | listening socket, main loop, thread pool | `tcpServerRun`, `acceptConnection` | callback of the listener's channel in the main loop |
| **ThreadPool / WorkerThread** | workers, round-robin `index`; per worker a mutex, a condition variable, `evLoop` | `threadPoolRun`, `workerThreadRun`, `subThreadRunning`, `takeWorkerEventLoop` | the start-up handshake; the main thread reads `evLoop` |
| **EventLoop** | task list (`head`, `tail`) under `mutex`, `socketPair`, dispatcher data, channel map | `eventLoopRun`, `eventLoopAddTask`, `eventLoopProcessTask`, `eventActivate`, `taskWakeup`, `readLocalMessage` | any thread may queue a task; only the loop's own thread does the rest |
| **ChannelMap** | array of channels indexed by descriptor, its size | `makeMapRoom`; used by `eventLoopAdd/Remove`, `eventActivate`, `destoryChannel` | the loop |
| **Dispatcher** (Poll, Epoll, Select) | the set of watched descriptors | `init`, `add`, `remove`, `modify`, `dispatch` | the kernel; calls `eventActivate`; `remove` calls the channel's `destoryCallback` |
| **Channel** | fd, events, callbacks | `channelInit`, `writeEventEnable` | loop, dispatcher |
| **TcpConnection** | channel, read and write buffer, request, response | `tcpConnectionInit`, `processRead`, `processWrite`, `tcpConnectionDestory` | made by the main thread, then run by its loop |
| **Buffer** | array, `readPos`, `writePos`, `capacity` | append, socket read, send, `bufferExtendRoom` | connection, parser, response |
| **HttpRequest / HttpResponse** | parse state, headers; status, headers | `parseHttpRequest`, `processHttpRequest`, `sendFile`, `sendDir`, `httpResponsePrepareMsg` | called by `processRead`, sends on the socket itself |
| **c_threadpool** | ring of tasks, counters, manager and workers | `threadPoolCreate/Add/Destory`, `worker`, `manager` | nobody: compiled in, never called |
| main, Log, Makefile | – | – | – |

What is hard, and what has to hold:

* **Two threads, one connection.** The main thread makes a connection and
  publishes it by queueing an ADD; its worker takes over at that instant.
* **Wake-ups.** The queue is filled under a mutex, the wake-up byte string is
  written after unlocking: a loop must never sleep on a task.
* **Callbacks that change what is being iterated.** A DELETE is processed inside
  `eventLoopAddTask`, in the middle of the scan over the `pollfd` table, together
  with whatever other threads have queued; descriptors are closed and the kernel
  hands them to other loops at once. The sockets *block*, so a single activation
  on readiness that has gone hangs a whole loop.
* **Three tables with one meaning.** Poll table, channel map and kernel
  descriptor table must agree, through growth of the map and reuse of numbers.
* **Start-up.** The main thread waits on a condition variable for each loop.
* **Partial failure.** `accept`, `realloc`, `pthread_create`, `socketpair` fail;
  some of these failures go unnoticed.
* **Bytes that come as they like.** A request is read in pieces, or with the
  next one behind it; its client stalls, closes or resets; its file is removed
  or cut short while it is sent. What is left in a buffer decides whether the
  connection is ever released.
* **Three builds.** `MSG_SEND_AUTO`, commented out in TcpConnection.h:10, moves
  sending from `processRead` to `processWrite`. Where it is defined decides which
  files see it.
* **Limits nobody looks at.** A full `pollfd` table, a descriptor above 1023, an
  epoll event in error, arrays of headers.

The hazards, each at its line with the properties that guard it, are in
`PROJECT.json` under `hazards`.

## 2. Modules

    ConnService  <-(implements)-  Reactor  -(uses)->  PollDispatcher
                                     |  table abstracted; justified by ChannelMap
                                     |  one loop, all dispatchers: Dispatch
                                     |  one connection, all its bytes: HttpExchange
    WatchSet     <-(implements)-  Dispatch  -(uses)->  PollDispatcher, EpollDispatcher,
                                                       SelectDispatcher, Channel
                                  HttpExchange  -(uses)->  HttpRequest, HttpResponse
                                  UrlDecode       (decodeMsg, which HttpExchange leaves out)
    ByteQueue    <-(implements)-  Buffer
    TaskQueue    <-(implements)-  CThreadPool
                                  ThreadPool      (what happens before Reactor's Init)

    PollDispatcherProofs, DispatchProofs, ReactorProofs, ChannelMapProofs, ThreadPoolProofs,
    BufferProofs, CThreadPoolProofs, HttpExchangeProofs (with UrlDecode)

`Reactor`, `Dispatch` and `HttpExchange` are three cuts through the same server.
`Reactor` has all threads and many connections, and takes a request for its
effect on the buffers. `Dispatch` has one thread, and looks at what happens
between the kernel's report and the callbacks. `HttpExchange` has one
connection, and looks at every line of its requests and every chunk of the
replies.

Definitions carry the source's names. Definitions under the comment *Seeded
fault* are not part of any specification: each is a plausible bug, and replacing
the definition that follows by it must break the property `PROJECT.json` pairs
it with under `mutants`.

### Channel, PollDispatcher, EpollDispatcher, SelectDispatcher
A channel is its descriptor and the events it asks for. Each dispatcher is a
record and functions from record to record: the `pollfd` table (`maxfd`, and
`fd`, `events`, `revents` per entry); epoll's interest list and the array
`epoll_wait` filled; select's two sets and the copies select overwrites.
`*Wait` is the kernel's call, `*Due` the places of the scan over its result that
will still activate a callback, `*Target` what is activated there. The poll
scan reads `revents` of entries that callbacks may have changed since, the epoll
scan its array, the select scan its copies: that is in `*Due`.

### Dispatch
One event loop over any of the three, in both builds that matter to it, with
ADD, DELETE and MODIFY tasks run in the middle of the scan or after it:

| action | code |
|---|---|
| `WaitReturns` | the kernel's call in `dispatch`; a failing select ends the process |
| `processRead`, `processWrite` | `eventActivate` with either event; what they queue is run at once |
| `eventLoopAdd`, `eventLoopModify`, `eventLoopRemove` | the tasks, with the dispatcher's return value ignored, and `exit` when epoll_ctl fails |
| `EndScan`, `EndTasks` | the ends of `dispatch` and `eventLoopProcessTask` |
| `Accept`, `ClientSends` | another thread's ADD; a client's data, close or reset |

`WatchSet` is what a loop may expect of any dispatcher: it reports only what is
watched and holds, each report is activated once, while it still holds, and a
descriptor is given up only when nothing is due for it any more.

### Reactor
The running server. Thread `t` runs loop `t`; loop 0 accepts. `pc[t]` says where
the thread stands, in steps as long as other threads cannot tell apart:

| action | code |
|---|---|
| `PollReturns` | poll(2) in `pollDispatcher`, including its time-out |
| `readLocalMessage` | `eventActivate` on the wake-up channel; one read of at most `LocalBuf` bytes |
| `acceptConnection`, `acceptFails` | the listener's callback, `takeWorkerEventLoop`, `tcpConnectionInit` up to `eventLoopAddTask`; with all descriptors in use `accept` returns -1 and the code goes on |
| `processRead` | a connection's callback: read, parse, answer, then ask for DELETE; never enabled for a client that does not read its answer, where `send` or `sendfile` does not return (`Stuck`) |
| `eventLoopAddTask` | the locked append; then `taskWakeup`, or the loop's own queue |
| `taskWakeup` | the write to the pair, which blocks while it is full |
| `LockTasks`, `eventLoopAdd`, `eventLoopRemove`, `UnlockTasks` | `eventLoopProcessTask`, task by task with the mutex held; `eventLoopRemove` goes through `pollRemove` to `tcpConnectionDestory` and `destoryChannel` |
| `tcpConnectionInitReturns` | the rest of `tcpConnectionInit`, after the connection was published |
| `Connect`, `Send` | clients |

Data abstracted: a request is one of five kinds. Four are told apart by what
parsing leaves in the two buffers (`LeftBy`), which is all `tcpConnectionDestory`
looks at. The fifth, `"unread"`, is the one whose callback never returns, because
the client does not read (Buffer.c:140, HttpRequest.c:400) or the file is cut short
(HttpRequest.c:398): the sockets block, so its loop stands there. Chunk by chunk,
with clients that read late, sending is `HttpExchange`'s subject.

`ConnService` is what all this promises a connection: accepted on a descriptor
nobody else holds, given to one loop, answered once by it, one connection at a
time per loop, and then released - or stranded, which the code does when bytes
are left over.

### HttpRequest, HttpResponse, HttpExchange
The parser as functions of request and unread bytes: a byte is CR, LF, space,
colon or a word. A response is a status, headers and a way to send the body; a
reply is a sequence of chunks. `HttpExchange` runs one connection through them:

| action | code |
|---|---|
| `Poll`, `EndScan` | the loop, for this connection |
| `processRead`, `processReadReturns` | `processRead`: the read, and what follows the parser; without `MSG_SEND_AUTO` the DELETE, and with it `tcpConnectionDestory` |
| `processWrite`, `processWriteReturns` | the same for POLLOUT |
| `ParseLine`, `ParseHead`, `ParseFails` | `parseHttpRequest`, one line per step; the 400 |
| `processHttpRequest`, `PrepareMsg` | the choice of the answer; `httpResponsePrepareMsg` |
| `SendChunk`, `bufferSendDataReturns`, `SendFails` | a blocking `send`, chunk by chunk, and SIGPIPE |
| `OpenFile`, `SendFile`, `sendFileReturns`, `SendDir` | `sendFile` with its loop over `sendfile`, `sendDir` with one send per name |
| `ClientSends`, `ClientReads`, `ClientLeaves`, `FileChanges` | client and file system |

The builds: `default`; `header`, with `MSG_SEND_AUTO` defined where the source
has it commented out, in TcpConnection.h, which TcpConnection.c and TcpServer.c
include, and of the files that test it only TcpConnection.c;
`flag`, with it defined for every file.

### UrlDecode
`decodeMsg` as it is called, with one string as source and target, character by
character, against what the URL stands for. Its definitions have names of their
own (`DecodeInit`, `DecodeSpec`), since its proofs share a module with those of
`HttpExchange`.

### ChannelMap
The array behind `channelMap->list`, one word past its end included. It shows
for which descriptors `Reactor` may take the map for a plain function: all those
whose number never equalled the size of the array (128, 256, ... in the
program). For these others `makeMapRoom` makes no room. A connection whose
buffers hold bytes when it is deleted keeps its entry and its descriptor.

### ThreadPool
`threadPoolRun` / `workerThreadRun` against `subThreadRunning`, statement by
statement where mutex and condition variable are concerned, with spurious
wake-ups and the failures of `pthread_create` and `socketpair`; then
`takeWorkerEventLoop`.

### Buffer
Every function of `Buffer.c` as a function on buffers, byte by byte: the three
cases of `bufferExtendRoom`, the two areas of readv, `memcpy` in either direction
(the areas overlap), and a `realloc` that may fail. `ByteQueue` is the promise.

### CThreadPool
The pool of `c_threadpool.c`: ring, workers, manager, destruction up to the
moment the pool is freed. A section under `mutexpool` is one step;
`pthread_cond_wait` ends one and starts another; signals wake any one sleeper or
are lost; sleepers may wake spuriously. `pthread_cond_destroy` on a condition on
which a thread sleeps is undefined, and on glibc waits for ever for that thread:
`Free` then ends in the state `"undefined"`. `TaskQueue` is the promise. Entries of
`threadIDs` that `threadPoolCreate` leaves unset are zero or anything else.

## 3. Runs

| run | shows | bounds and why |
|---|---|---|
| `workers` | types, no callback waits for input that is gone, no task or map entry refers to a freed connection, map and poll table agree, bounded queue, no wake-up is lost, an accepted connection is held exactly once, refinement of ConnService | main + 2 workers, 2 clients, 1 descriptor; pair of one message so that the write blocks. Two workers are the least with which one loop closes a descriptor that another gets; with one descriptor it is reused at every connection, and accept fails while it is taken |
| `live` | every whole request is served unless, for good, the only descriptor belongs to a silent, stranded or stuck connection or the acceptor is blocked; every loop comes back to poll unless it, or the loop it writes to, is in a `send` that does not return | 1 worker, 2 clients for 1 descriptor; whole, cut short and unread requests, so that each of these reasons happens. Failing accepts queue a wake-up each, so the acceptor does fill the pair of a stuck worker; fairness as below |
| `dispatch` | refinement of WatchSet; what is left of a scan names live channels; dispatcher and channel agree on the events; no epoll_ctl or select fails; only a full table or an fd_set refuses a connection; only epoll leaves out what is ready; the loop returns | 3 descriptors over a table of 2 entries, an fd_set of 2, one epoll event at a time: every limit is passed, and holes are filled |
| `request` | requests are parsed as sent however they are cut; replies are in order and whole (with the flag, in order until a file has been sent); a connection is stranded, and the parser undefined, only where named; callbacks return; what is answered ends | 9 conversations (`MCHttpExchange`) of one or two requests, 3 builds, 2 disks: a file of two bytes with an error page of one; a file of three, more than an `int` of this run counts, and no page. Array of 1 header in the request and 2 in the response, so that each overflows; room for one chunk, so that each send can block |
| `decode` (violated) | decoding in place leaves the tail of the encoded text, against HttpRequest.h:55 | URLs up to 4 characters: the least with an escape and something behind it |
| `released` (violated) | a connection with leftover bytes is taken from the dispatcher and never destroyed, against CALL_CHAIN.md:97-110 and the log line TcpConnection.c:113 | one partial request |
| `published` (violated) | the main thread reads a connection its worker may have freed, against CALL_CHAIN.md:66-80 | one request |
| `start` | a loop for everybody before the server listens, no missed signal, fair shares, the server comes to listen | 3 workers, 3 connections each: the index wraps three times |
| `fifo` | types, refinement of ByteQueue | size 3, chunks up to 3, capacity up to 6, 2 byte values: every case of `bufferExtendRoom`, exactly full and one more |
| `table` | map and dispatcher agree except at the sizes, so that only there the assertion can fail; new connections are watched | sizes 2, 4, 8 and descriptors up to 6; `realloc` may fail |
| `boundary` (violated) | a ready descriptor has lost its channel, against the assertion EventLoop.c:97 | the first descriptor past an array of 2, and the next |
| `elastic` | types, refinement of TaskQueue, `liveNum` covers the workers, no worker sleeps on a task, tasks run, calls return, destruction returns or finds a condition in use; no worker is left asleep there unless another went | 1 to 2 workers, ring of 2, 3 calls: the least with which the manager grows the pool (more queued than workers), shrinks it, and a caller finds the ring full |

`CHECK_DEADLOCK FALSE` stands where the system really ends: `start` (all
connections of the bound given out, or the process exited), `table`, `boundary`
(the process aborted), `elastic` (the pool is freed, or destroyed in
use), `request` (the connection is released or stranded), `decode` (the URL is
decoded), and `live`: with the only worker in a `send` that does not return and the
acceptor in the write to its full pair, the server does stand still.
The other `Reactor` runs, without such clients, and `dispatch` check deadlock: poll(2)
always returns. The `Buffer` run checks it as well.

Bounds of the models themselves: `MaxChunk`, `MaxCapacity` (Buffer), `MaxFd`
(ChannelMap), `TakeCap` (ThreadPool), `MaxRefused` (HttpExchange: a client does
not send on after more than one 400 is waiting for it), `MaxLen` (UrlDecode).

Symmetry (clients, connection descriptors) is used in safety runs only.

One descriptor in `workers` and `live` makes it change hands and run out, and keeps two
connections out of one table. What a table with several connections and holes adds
is covered by `dispatch` for one loop, and for all loops by the theorems on `Reactor`;
and both can be run with more: `AcceptedIsHeld` with 1 worker, 3 clients and 2
descriptors (a million states), and the properties of `live` with 2 descriptors and
the kinds `"complete"` and `"unread"`, where a connection waits behind a stuck one in its
own loop. Both hold.

### Fairness
* `Reactor`: weak fairness of each thread, strong fairness of
  `eventLoopAddTask`, whose mutex is taken and released again and again by the
  loop it belongs to. The loop leaves it free through every poll(2), up to two
  seconds at a time, so a scheduler that runs every thread lets the waiter have it.
  Clients are not fair: they need not connect, send or read. `processRead` is not
  enabled for one that never reads, so fairness does not make that call return;
  the liveness properties name what follows from it. `LoopsKeepPolling`: a loop stays
  away from poll(2) only while it is `Blocked`, itself stuck or writing to a stuck
  loop. `RequestServed`: a client is `KeptWaiting` in the backlog while the descriptors are
  `Exhausted` or the acceptor blocked, and after that only while its own loop is stuck.
* `Dispatch`: weak fairness of the loop's thread. Clients and the accepting thread
  do what they like.
* `HttpExchange`: weak fairness of the loop's thread, whose `send` goes on
  whenever there is room. The client need not send, read or close, nor does
  anybody have to change a file; so liveness is stated with the clients that
  stop reading left out by name.
* `ThreadPool`: weak fairness of each thread; strong fairness of a worker's first
  lock, because spurious wake-ups may make the main thread retake that mutex any
  number of times, with a sleep in between each time.
* `CThreadPool`: weak fairness of calls, workers, manager and destruction. A
  critical section is one step, so this includes that whoever asks for
  `mutexpool` gets it; and that a task's function returns. Nobody has to call
  `threadPoolDestory`.

## 4. Proofs

All for every value of the constants allowed by the `ASSUME`s.

* **Reactor** (`ReactorProofs`). `TypeCorrect` needs more than types: a DELETE
  carries a real connection and every queued connection, and every connection in a
  map, has a real descriptor (`TypeInv`), for `pollRemove` and `destoryChannel`
  index by it. `NoWakeupIsLost` adds that the first entry of each table is the
  loop's own wake-up socket (`WakeWatched`: `pollAdd` fills the first unused entry and
  `pollRemove` is never given that descriptor) and that a loop that sleeps with a
  non-empty queue has been announced to (`Announced`). The step that matters is
  `UnlockTasks`: a loop enters poll(2) with an empty queue, and everything queued
  later is followed by a write.

  The other theorems rest on `LifeInv`, the life of a connection: its ADD is on its
  way to its loop, or its loop watches it in one entry, or its DELETE is on its
  way, or it is over; open connections have descriptors of their own; and a table
  holds nothing else than what these say. None of the properties is inductive
  without it: that a map entry is not freed depends on there being no second
  DELETE, and that on the first having taken the entry from the table.
  `MapAndPollAgree` and `TasksNeverDangle` follow at once. `CallbacksNeverBlock`
  adds that what a scan has still to visit was readable when poll(2) returned, and
  that only the connection's own callback reads from it. `AcceptedStaysHeld`
  assumes room for every descriptor of the process (`RoomForAll`: MAX is 1024, and
  so is the usual limit on descriptors); without it an ADD can be refused, which
  `OnlyLimitsRefuse` is about. `QueueStaysBounded` counts: every task in a list is
  paid for by a message in the pair, a write under way or the reader's last batch.
  `ServesEachOnce` is the refinement of ConnService, one lemma per action; besides
  `LifeInv` it needs the fate of leftover bytes (`LeftInv`: they are there only from
  the read that asked for the DELETE on, and once that is done the connection is not
  watched any more).
* **Dispatch** (`DispatchProofs`). First, for each dispatcher, what every operation
  does to what is watched and to what is due of the last report: `add` and `modify`
  make nothing due and take nothing away, `remove` takes away only what is due for
  its own descriptor, and only epoll_wait leaves out what it might report. From
  there on the proofs do not look into the dispatchers. `LoopInv` says that
  a watched channel is in the map and a channel in the map open; that a queued ADD
  is the only one for its descriptor, which is open and not in the map; that the
  loop's own task is the last of the list, and a DELETE leaves nothing of the report
  behind; and that a channel asks for all it is watched for, for select clears only
  that. It gives `ScanFindsLiveChannels`, `ChangesAreQueued`, `ServerNeverExits`, the
  action properties `OnlyLimitsRefuse` and (with `FitsSet`: what select watches fits)
  `OnlyEpollLeavesOut`, and `EachIsAWatchSet`, the refinement of WatchSet. That
  an activation leaves nothing due behind a DELETE is where the order of the two
  tests of an entry matters: after POLLOUT nothing of it is left, and after POLLIN
  only a build that never asks for POLLOUT deletes.
* **ChannelMap** (`ChannelMapProofs`). `TableStaysRight`: `TableIsRight` is inductive
  once types are known and that the array has one of the sizes on record (`MapInv`):
  growth moves no entry, a descriptor that never equalled a size has a place of its
  own, and only its own task or another loop's connection gives it away.
  `NewChannelIsWatched` is the action property. `DoubledIs`: the doubling loop of
  `makeMapRoom` ends, at a size that is at least the descriptor asked for and below
  twice it; so the step is always possible, and the array it leaves holds every
  descriptor up to the one before.
* **PollDispatcher** (`PollDispatcherProofs`). What `pollAdd` and `pollRemove` return and keep:
  the lemmas Reactor and Dispatch rest on.
* **ThreadPool** (`ThreadPoolProofs`). One inductive invariant
  (`HandshakeInv`: who holds which mutex, which loops exist, how far the main
  thread is) gives `ServesWhenReady` and `SignalIsNotMissed`; the latter because
  the main thread tests and falls asleep in one possession of the mutex, and the
  worker signals after it released it. `RoundRobinBalanced`: workers before the
  index are one ahead of those from it on.
* **Buffer** (`BufferProofs`). `BufferIsQueue`: each operation, composed of
  tidying or growing and a write, leaves the unread bytes as they were, with the
  new ones behind. Assumed by name (`Careful`): `realloc` succeeds, and `memcpy`
  copies upwards. Without the first, `TypeOK` does not hold (set `ReallocFails`
  in `Buffer_fifo.cfg`); without the second the refinement fails, since source
  and destination overlap whenever more is unread than has been read (C leaves
  the result open).
* **CThreadPool** (`CThreadPoolProofs`). `RingOK` (rear = front + size around the
  ring, and every place between them holds a task) is what types need, for a
  worker runs what it takes, and what `CPoolIsQueue` needs: `threadPoolAdd` is a
  Put, `TakeTask` a Take, everything else a stutter. `CPoolLiveNumCovers`: the
  manager starts no more workers than there is room for, since each has its own
  number of free ids before it, below that room. `CPoolWorkIsShared` adds that
  until shutdown a free id was never used (`IdInv`), so that a worker that was told
  to exit is never replaced and the property stays excused after it.
  `CPoolAsleepForGone` counts through `threadPoolDestory` (`DestroyInv`): once it signals,
  the manager has ended and no worker falls asleep; sleepers are covered by signals
  still due, at first by `CPoolLiveNumCovers`, and every signal wakes one. Only a worker
  that exits takes one off the signals due without waking anybody.

* **HttpExchange** (`HttpExchangeProofs`). For any script of requests of any
  length, however it is cut into reads, any files, names and `int`, in all three
  builds. The properties are not inductive one by one; the invariant (`IInv`) has a
  part for each thing they depend on:

  - `Control`: what the parser's state and the counters are at each place of the
    loop. In the default build one read leads to one answer, and then to the end;
    in the others the loop may come back with the parser in the middle of a head.
    `WrittenInv`: until a request is processed there is nothing but a 400 to send.
  - `ParserInv`: while requests are well formed, the parser is at the byte of the
    script that the number of processed requests and the headers already in the
    array tell, and the array holds these headers. This is where the bytes come
    in: `LineFound`, `LineParsed`, `HeaderParsed` and `HeadEnds` say what `memmem`
    finds in what has arrived of a well-formed line. `RequestsParsedAsSent` and
    `UndefinedForAReason` follow from it; so does that a first request that has
    arrived whole is served before `processRead` returns.
  - `BufferInv`: without the flag the write buffer is empty whenever `sendFile` or
    `sendDir` starts, for `bufferSendData` returns early only to a client that has
    reset the connection. Otherwise a file, which goes past the buffer, would
    overtake what is in it: with the flag it does.
  - `FirstInv`: of the reply to the first request exactly as much has been written
    as the place in the answer and `offset` tell (`Produced`), the wire and the
    buffer together start like the reply, and later replies stand behind it. It
    holds while the client has not reset the connection, no file has changed and
    no 400 has come in between; those are the cases the properties excuse.
  - `ReplyInv`: `ReplyInOrder` holds after a reset as well, for the wire then stays as it is.

  From these, `RepliesInOrder`, `ReleasedWithAnswer` and `StrandedForAReason`. The
  proof of the first was what showed that an earlier form of `ReplyInOrder` was true of
  the scripts of the run only: with the flag, the file of a *second* request also
  overtakes the head of the first one. The property now says so, and the run has the
  script (`POST`, then `GET` of the file) in which it happens.
* **UrlDecode** (in `HttpExchangeProofs`). `StaysInside`: `decodeMsg` in place neither
  overwrites nor steps over the terminator of the URL. The writing place never
  overtakes the reading one, and an escape is recognised only when both its
  digits stand before the terminator. So what run `decode` shows is a wrong name,
  and not a write past the array.

The parser's proofs need inductions: over the requests of a script, and over what
`FlattenSeq` makes of them; and `DoubledIs` needs one over the size. The library's
induction theorems take an operator as parameter, which the provers cannot
instantiate; but that every non-empty set of numbers has a least element
(`LeastNumber`, from `WFMin`) gives induction over a *set* of numbers
(`Induction`), and the set is then the numbers for which the claim holds. The
recursive functions inside `FlattenSeq` and `Doubled` are shown to exist in the
same way (`FlatExists`, `DoublingExists`).

Assumed of the constants of `HttpExchange`: a word is none of the four signs the
parser looks for; a script has at least one request; the response has places for
the two headers one answer may have (there is room for 28: HttpResponse.c:17 allocates 16 times the size of a whole
response, of 288 bytes, for headers of 160); a file's size is a number. Nothing is assumed of the requests themselves: those the theorems promise
nothing about are named in the properties (`WellFormed`).

Only model-checked: liveness (`RequestServed`, `LoopsKeepPolling`, `LoopReturns`,
`HandlerReturns`, `AnsweredIsEnded` and the like: out of the provers' reach), and the
properties that runs show violated. Only proved: `GrowsOnlyWhenFull` of Buffer
(`BufferGrowth`). The `TypeOK` of ChannelMap, Dispatch and
HttpExchange documents their variables and is in no run; all three are proved
(`MapTypes`, `TypesStay`, `ExchangeTypes`).

## 5. Not modelled, and why

* `listenerInit`, `main`, Log, Makefile: pure I/O, or no state.
* The table of names in `getFileType`, the wording of headers, the lengths of
  file names against the arrays they are copied to: data no property is about.
* Functions without a caller: `pollClear`, `epollClear`, `selectClear`,
  `ChannelMapClear`, `isWriteEventEnable`, `httpRequestGetHeader`;
  `writeEventEnable(false)` (commented out in TcpConnection.c:23). isQuit is
  never set, so no loop ends.
* Sockets in `Dispatch` always have room for POLLOUT; `HttpExchange` has the ones
  that have not. The wake-up channel and the listener are in `Reactor` only.
* A server without workers (`ThreadNum = 0`): covered by Reactor's theorems and,
  in its only particularity, tasks of the loop's own thread, by `Dispatch`; no
  run has it.
* Requests longer than one read takes: `HttpExchange` cuts requests between
  reads, and `Buffer` shows how one read is stored.
* Memory exhaustion other than in `realloc`; failures of poll and epoll_wait.
* What threads do with a pool that has been freed or destroyed in use, or with memory past an array
  or behind NULL: undefined; the models stop there or show only that it happens.

## 6. Plan

Components and hazards are covered, and every safety property that a passing run
checks is proved. Worth doing next:

1. A composition of `Dispatch` and `HttpExchange`, so that several connections share
   one loop: a `send` that blocks, or a SIGPIPE, then concerns them all.
2. A `decodeMsg` that ends its result where it ends: with that change in the code,
   `DecodesString` could become a theorem.
