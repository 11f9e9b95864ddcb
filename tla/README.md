# Linen: a verification development

Linen is a Lean 4 standard library with C shims: base data types, a web server
(HTTP/1.1, HTTP/2, HTTP/3 framing), database drivers, a Redis client, a Chrome
DevTools client, PDF, cloud clients and more.  Most of it is pure functions,
many with Lean proofs beside them.  Lean proves nothing about two parts, and
these are what is specified here:

- where tasks run at the same time and share `IO.Ref`s, mutexes, promises and
  sockets;
- the C bindings in `ffi/`, whose handles a program and its garbage collector
  close, finalize and drop in any order over libraries that free what they are
  told to free.

The TLA+ modules are translated from the Lean and C source, TLC configurations
check them on small instances, and TLAPS checks theorems about them.

Paths below are relative to `src/Linen/` (`ffi/...` to `src/`);
`Server.lean` alone is `Network/HTTP2/Server.lean`.

## 1. Inventory

| Component | State it keeps | Operations | Hard behaviour | Correct when |
|---|---|---|---|---|
| **MVar** (`Control/Concurrent/MVar.lean`) | the value, queues of takers, putters, readers (promises), under one mutex | take, put, read, try variants, swap, withMVar, modify | blocked callers of three kinds handed values by whoever comes next | callers are served in order, each value goes to one take, nobody waits beside what it waits for |
| **QSem, QSemN** (`Control/Concurrent/QSem*.lean`) | count and waiter queue | wait, signal, withSem(N) | signal racing wait; release on exceptions; a signal that serves several requests | permits conserved, no lost wakeup, FIFO |
| **Chan** (`Control/Concurrent/Chan.lean`) | per endpoint a buffer and waiting readers; a list of endpoints, under another mutex | new, write, read, tryRead, dup | write copies the list and pushes after unlocking | every endpoint a lossless stream |
| **STM** (`Control/Monad/STM.lean`, `Control/Concurrent/STM/*`) | TVars (`IO.Ref`), one global mutex | atomically, retry, orElse, TMVar and TQueue operations | writes are in place; `retry` sleeps and reruns | a transaction that does not commit leaves no trace, waiters are rerun |
| **Event dispatcher** (`Network/Socket/EventDispatcher.lean`, `ffi/network.c`) | per shard: waiter list, running flag, an epoll or kqueue loop; timers | wait for readability or writability, with or without deadline; dispatch; shutdown | one-shot registrations, masks installed outside the lock, timers, shutdown, all racing | each waiter resolved once, no deaf socket, deadlines honoured |
| **HTTP/2 server connection** (`Network/HTTP2/Server.lean`) | stream slots (inbox, windows, waiters), connection windows, closed ids, a write lock | reader: HEADERS, DATA, RST_STREAM, WINDOW_UPDATE, SETTINGS, GOAWAY; handlers: read body, respond, write, finish | one reader and one handler thread per stream over one state, promises of two kinds, resets at any moment, teardown | bodies intact, flow control balanced, nobody asleep on what is there, quiet after close |
| **SQL pool** (`Database/SQL/Pool.lean`) | idle connections, a counter, in one `IO.Ref` | use, destroy | connects happen outside the reference, and fail | a connection is in one place, the pool is bounded |
| **Timeout manager** (`System/TimeManager.lean`) | an array of handles and a state per handle, plain `IO.Ref`s without a lock | register, tickle, pause, resume, cancel, stop; the sweeper | every read and write is a step of its own | a live handle is tracked, fires, and fires once |
| **SQLite binding** (`ffi/sqlite3_shim.c`) | wrappers of connections and statements, closures registered as SQL functions with their reference counts | open, close, prepare, step, reset, finalize, bind, column, create and delete function, callbacks, finalizers | a closed connection is a zombie until its last statement goes; callbacks into Lean from inside a step; drops in any order | nothing used after its release, nothing stranded, closures counted |
| **PostgreSQL binding** (`ffi/postgres.c`) | wrappers of connections and results | connect, exec and its variants, copy, reset, close, clear, finalizers | calls wait for the server while handles are dropped | as above; parameter arrays freed |
| **DuckDB binding** (`ffi/duckdb_shim.c`) | wrappers of six kinds of owners, and of vectors that own nothing; closures stored in DuckDB | the same, per kind; callbacks on DuckDB's threads | Lean gives references away that C takes for borrowed: finalizers that never run | as above |
| **zlib streams** (`ffi/zlib.c`) | a `z_stream`, `initialized`, `finished` | init, feed, finish, finalizers, inflate and deflate | output that ends exactly at a chunk, Z_BUF_ERROR, corrupt and trailing input | no output withheld, loops end, freed once |
| **Sockets** (`ffi/network.c`, `Network/Socket.lean`, `Network/Socket/Blocking.lean`) | a descriptor number per wrapper, the state in a socket's type; the kernel's table | create to close, poll, connect and its completion, event loops, finalizers | numbers are reused by the kernel; SO_ERROR means two things | a wrapper reaches its own file, the type tells the truth |
| **Line readers** (`ffi/network.c`, `Network/WebApp/Server/Request.lean`) | a buffer between socket and reader | read a line, read n bytes | CR, LF and the end of input at every place of a buffer | the bytes of the peer, in order, none lost or repeated |
| **TLS sessions** (`ffi/tls.c`, `Network/TLS/*`) | an SSL object with a mutex and a `failed` flag, its context | handshake, read and write (blocking or not) with their retry loops, close, finalizers | one thread reads while others write and one closes; retries must repeat a write; OpenSSL buffers input | writes whole and once, no wait on what is decrypted, no use after free, orderly shutdown |
| Green threads (`Control/Concurrent/Green.lean`) | tasks with a cancellation token | fork, kill, wait | cancellation racing a `finally` | the models use what it guarantees: a continuation runs after its promise is resolved |
| HTTP/1.1 server loop (`Network/WebApp/Server/Run.lean`) | connections, a shutdown flag | accept, keep-alive loop, withApplication | shutdown racing accept | every accepted connection is served or closed |
| Request timeout (`Network/WebApp/Extra/Middleware/Timeout.lean`) | a flag | run the application against a timer | the timer fires while the response is written | one response |
| Redis Pub/Sub, connections (`Database/Redis/*`) | pending and live subscriptions, a send queue, over STM; a pool | subscribe, listener, sender, reconnection | acknowledgements against newer changes, reconnection | the server's subscriptions converge to the wanted ones |
| CDP runtime (`CDP/Runtime.lean`) | in-flight commands, event subscriptions | send, listen, subscribe | the listener fails; timeouts | every command is answered or fails |
| Worker processes (`System/Worker.lean`) | one child process | call with deadline, stop | deadline racing the answer | the answer given is the one to this call |
| AutoUpdate, Debounce, ResourceT, FastLogger | one or two references each | get; run; allocate, release; log, flush | get/set in two steps | one action per interval; each resource released once; log order |

Components call one another like this.  The server loops (HTTP/1.1 and HTTP/2)
run each connection on green threads; a blocked socket operation registers a
waiter with the **event dispatcher** and continues when its promise is
resolved; HTTP/2 handlers and the connection's reader share slots and promises;
a handler uses the **SQL pool**, the **timeout manager** or the Redis client;
Redis Pub/Sub runs on **STM**, the CDP runtime on **MVar**.  Promises are the
common currency: whoever resolves one wakes a task that continues elsewhere,
which is why nearly every model has the shape "queue of promises, and who
removes a promise from it".

Below them the C bindings lie: the dispatcher and the servers use sockets, line
readers and TLS sessions, the drivers are given out by the pool.  A wrapper is
a Lean object with a pointer or a number; the program holds references to it,
and the collector runs its finalizer when the last one goes.

Not modelled, because no two tasks share state there or because it is bytes in,
bytes out: HPACK and frame codecs, HTTP/3, QUIC and WebSocket framing,
PostgREST query building, `ffi/jose.c` and `ffi/keychain.c` (each call
allocates, computes and frees within itself), cloud clients, PDF, lenses, text
and data structures.  `PROJECT.json` gives the reason for each under
`components`, and the hazards at their lines.

## 2. Modules

| Module | Models | State and actions in terms of the code |
|---|---|---|
| `MVarState`, `MVar` | `MVar.lean` | `value`, `takers`, `putters`, `readers` are `MVarState`'s fields, with call identities for promises; `got` and `acked` are what the promises hold. One action per operation, because each runs under the mutex; swap, withMVar and modify are `Swap` (the take) and `Restore` (the put in the task's continuation). |
| `MVarContract` | what an MVar promises | no queues: puts and takes numbered in call order, the k-th take gets the k-th put's value |
| `MVarHistory` | MVar with the two histories the contract speaks of; states that it implements `MVarContract` | histories are written, never read |
| `QSem`, `QSemN` | the semaphores | `count`, `waiters`; `Wait`, `Leave` (the `finally` of withSem), `Post` (a bare signal); `QSemN.Signal` is the greedy loop as one step, as it runs under the mutex |
| `Chan` | `Chan.lean` | `WriteBegin` copies the subscriber list under its mutex, `WritePush` pushes to one endpoint under that endpoint's mutex; histories: what each endpoint was given and asked, the writes in the order they began, and how many had begun when each endpoint was made |
| `STM`, `MCSTM` | `STM.lean` with TMVar and TQueue | a transaction is a sequence of instructions, `Bind` and `OrElse` are the monad's, one attempt of `atomically` is a step (it holds the global mutex) and leaves its in-place writes when it ends in retry |
| `EventDispatcher`, `MCEventDispatcher` | one shard and one socket, on Linux | `register` = Insert (under the lock), StartTimer, Arm (`epoll_ctl`); the timer = expire, TimeOut; the dispatch thread = Top, Wake, Collect (under the lock), ResolveReady, Rearm; shutdown = StopRunning, Drain, ResolvePending, Close; the socket's readiness comes and goes by itself. `armed`, `level`, `hup` are the kernel's side. |
| `HTTP2Receive` | the receiving half of a connection | the reader's steps are the sections of `headersFrame`, `dataFrame`, `rstStream` under the state lock; a handler reads its body (`readBody`, `returnWindow`), answers, finishes or fails at any point |
| `HTTP2Send`, `MCHTTP2Send` | the sending half | `respond`, `sendData` (Grant, wait, take the write lock, write), `finishStream`, `resetStream`; the reader applies WINDOW_UPDATE, SETTINGS, RST_STREAM, stream errors and closes |
| `SqlPoolState`, `SqlPool` | `Pool.lean` | every `modifyGet` of the reference is a step, connecting is a step outside it; `totalCreated` is left out (only `stats` reads it) |
| `TimeManager` | `TimeManager.lean` | every reference read and write is a step; the sweep is walked handle by handle; how long the sweeper sleeps is left open |
| `ForeignResource` | what every binding promises | `live`, `gone`, `touched`; its one action `Call` says that a call releases only what it touches and touches nothing that was gone before it. The bindings implement it step for step: `KeepsContract` is `Contract!Spec /\ [][Contract!Call]_vars`, so that releasing twice in a row is not mistaken for a stutter. |
| `SqliteHandles` | `sqlite3_shim.c` | `ptr` is the wrapper's pointer, `held` the program's reference, `lost` one that Lean gave away and C never drops; `native` is SQLite's side (zombies included); `registered`, `count`, `frame` follow the closures. One action per entry point or group of like ones, `Drop` for the collector. |
| `PgHandles` | `postgres.c` | the same state; a call that waits for the server is `Begin` and `Return` |
| `DuckHandles` | `duckdb_shim.c` | `Make`, `Ask`, `AskAndLose`, `Destroy`, `Drop`, each instantiated per kind of handle as the C code does; vectors point into their chunk |
| `DuckCallback` | its trampolines | DuckDB's threads call a closure while the program waits for the query. An update of the count on such a thread is two steps, a read and a write (`Enter` and `Retained`, `Applied` and `Released`); `Retained` either goes on to the call or returns early, without memory for a wrapper, and leaves its reference in `leaked` |
| `ZlibStream` | `zlib.c` | a turn of `linen_zlib_drive` or `..._drive_deflate` is a step; a stretch of input is the number of bytes it is worth; zlib does what `zlib.h` lets it |
| `Sockets` | `network.c` under `Socket.lean` | `number` is what a wrapper keeps, `table` the kernel's descriptors (lowest free number first), `kernel` a file's state, `type` the state in its Lean type; `waitReady` and `connectFinishLoop` are those of `Blocking.lean` |
| `RecvBuffer`, `BufferedSource`, `ByteSource` | the two line readers, and what both promise | a fill from the socket and the scan of one buffer are steps; each implements `ByteSource` |
| `TlsSession`, `MCTlsSession` | `tls.c` and the loops of `TLS/*.lean` | a C call is a step (it holds the mutex), except that a blocking read is two with the mutex held between; `pollForRead`, `pollForWrite` are the waits between non-blocking calls. `use` says who uses the session, and with it who may begin a write: `http1Turn` (the loop of `Run.lean`, which an exception ends), `http2Turn` (`Conn.send` under its write lock, which knows nothing of writes that failed), `clientTurn` (a client writes and then reads, a Redis subscriber reads in a thread of its own) |
| `MCConcurrency`, `MCLibrary`, `MCNetwork`, `MCServices`, `MCReceive` | | sums: a behaviour exercises one component, chosen at the start. `MCLibrary` adds the drivers to the primitives of `MCConcurrency`; `MCServices` adds the timeout manager to `MCNetwork`, for its liveness, and `MCReceive` to `HTTP2Receive`, for its safety. Properties of several components with the same question are conjunctions there. |
| `DataLemmas` | | lemmas the proofs share: sequences and their sets, induction over subsets and over sets of numbers, sums and tallies over finite sets |
| `ConcurrencyProofs`, `LibraryProofs`, `NetworkProofs`, `HTTP2ReceiveProofs`, `HTTP2SendProofs`, `EventDispatcherProofs`, `TimeManagerProofs` | | theorems, section 5 |

Next to an action stands, where a property needs it, a *bug*: the same action
with a slip a programmer could make.  Nothing uses these operators; each shows
that one property would notice (`mutants` in `PROJECT.json`).

The HTTP/2 server is split in two because its two directions meet in few
variables (`streams`' two done flags, `isClosed`); each half lets the other
half do whatever it can to those.  In `HTTP2Receive` a handler may answer and
fail at any time; in `HTTP2Send` a request may already be complete or not.

## 3. What the runs show

Every passing run explores its whole state space.

| Run | Bounds | Properties |
|---|---|---|
| `library`, MVar | 4 calls, 2 values, box full or empty at first | `Structural`: the invariant documented on `MVarState`. `ContractsKept`: refinement of `MVarContract`. Four calls are enough for two of one kind to queue behind one of another, and for a put to come between the halves of a swap. |
| `library`, semaphores | 4 clients that come and go for ever, 2 units, requests of 0 to 2, 1 bare signal | `NoIdlePermit`, `PermitsConserved`, `ServedInTurn` of QSem; `UnitsWellSpent` of QSemN. With two units and four clients two wait, of either size. |
| `library`, Chan | 3 endpoints (2 by dup), 2 writes, 2 reads | `EndpointIsStream`, `RealTimeOrder`, `SubscribersMissNothing`, over all overlaps of the two writes with dups and reads; an endpoint is made before, between, during or after them |
| `library`, STM | 3 threads, 7 transactions, 2 TMVars, a TQueue, 3 values placed anywhere | `ValuesConserved`, `TransactionsAreClean`, for transactions that write only after their last chance to retry (`Programs <- WriteLast`), as each library operation does; `stm_move` shows what another does |
| `library`, pool | 3 users, `maxSize` 2, 6 connection identities, 2 failed connects, destroy at any time | `OnePlaceEach`, `PoolStaysInBounds`. Three users are one more than the pool has places for. |
| `library`, SQLite | 1 connection, 2 statements, 2 closures, 1 function name | `ContractsKept`, `NothingStranded`, `ClosureCounted`. Two statements keep a zombie alive in turn; two closures replace each other under one name, while a call runs. |
| `library`, libpq | 2 connections, 2 results | `ContractsKept`, `NothingStranded` |
| `library`, DuckDB | one handle of each kind, 4 made in a behaviour; 2 query threads, 3 references taken | the same, and `ClosureCounted`. Four are the longest chain a call works through (database, connection, result, chunk). Two threads are enough for two updates of a count to overlap, three references for a call that is not made beside two that are. |
| `network`, sockets | 2 sockets, 1 loop, 2 descriptor numbers, waits with and without limit | `HandlesKeepContract`, `SocketsAreTheirOwn`. Fewer numbers than files, so that each number is reused. |
| `network`, readers | 3 inputs each of up to 8 bytes with CR and LF at every place (`EveryPlace`, `LongLines`), arriving in any pieces, buffers of 2, lines of at most 5 | `IsByteSource`: both readers implement `ByteSource` |
| `network`, TLS | an HTTP/1 server, an HTTP/2 server or a client; 2 writers of 2 bytes each, 4 ways for the peer to send and end | `WritesAreWhole`, `NoWaitOnDecrypted`, `HandlesKeepContract`, `OrderlyShutdown`, `CallsReturn` |
| `network`, zlib | 6 inputs (`EveryStream`), with corrupt stretches, trailers in the middle, output of 0 to 5 bytes against chunks of 2 | `NothingWithheld`, `HandlesKeepContract`, `CallsReturn` |
| `dispatcher` | 2 waits of any direction and deadline (up to exchanging them), one hang-up, readiness changing without bound, one shutdown | `ResolvedOnce`, `NeverDeaf`, `DeadlineHonoured`, `SameDirectionWakes`, `ShutdownEnds`. Two waiters give every pairing of holders: list, dispatch thread, timer, shutdown. |
| `http2_receive` | streams 1 and 3, windows of 4 (stream) and 5 (connection), 1 concurrent stream, 1 tolerated reset, 4 frames, content-length absent or 1 | `BodyIntact`, `CreditIsKept`, `NobodySleepsOnData`, `NeverReopened`. Four frames open a stream, fill and end its body, and touch another; the windows are small enough to be returned half way and to be overrun. |
| `http2_send` | 2 streams, bodies of 2 bytes in frames of 1, connection window 2, largest window 2, initial windows 0 or 1, 1 update from the peer | `WindowsRespected`, `WholeResponses`, `NobodySleepsOnWindow`, `QuietAfterClose`, `HandlersEnd`. A body outgrows the stream window, two bodies outgrow the connection's, and an update can exceed the largest window. The second stream is well-behaved company for the first: its handler writes and returns, and the peer at most widens its window. |
| `http2_receive`, timeout manager | 2 handles, timeout 1, clock up to 3, each armed at most twice | `FiresOncePerArming`, `SafeHandlesStayTracked`. A handle is armed again while the sweeper holds it; the other is registered during a compaction. |
| `network`, timeout manager | the same, but one handle armed at most twice, or each of the two once (`FewArmings`) | `TrackedHandleTimesOut`. Liveness at the larger bounds takes too long; both hazards stay: a handle armed again before it is reached, and an array that changes under a sweep. |
| `stm_move`, `dispatcher_stale_mask`, `http2_leak`, `zlib_leak`, `refused_closure`, `subscriber_deadlock`, `http2_tls_write` | the same or smaller | **violated**: section 6 |

The sums `library`, `network` and `http2_receive` check components that share no
state in one run; nothing is lost by it, as a behaviour exercises one component
through its own `Init` and `Next`.

The properties in words:

- **`ContractsKept`** and **`HandlesKeepContract`** say that the code implements
  an abstract specification.  For the MVar it is `MVarContract`: whatever mix of
  blocking, trying and swapping calls runs, answers are those of a box described
  by two numbered lists, and acknowledgements come exactly when the box had
  room.  For each binding it is `ForeignResource`: no library is handed what it
  has freed, and nothing is freed twice, in whatever order a program closes,
  finalizes, destroys and drops.  **`IsByteSource`** says the same of the two
  line readers and `ByteSource`.
- **`NothingStranded`** is the other half.  What SQLite or libpq has open, the
  program can still release.  Of DuckDB less is true, and less is said: what is
  open is the pointer of a wrapper, and the program holds the wrapper unless a
  call lost a reference to it; a connection that was interrupted and then let go
  of stays open (section 6).
- **`ClosureCounted`** balances reference counts against the uses of a closure,
  those of calls under way and those left behind by calls that could not be made
  included, and says that the closure is there for the whole of a call.  With
  DuckDB it speaks of behaviours in which no two updates of the count overlap
  (`overlapped`): the count is not atomic, and when two do, the closure can be
  freed under a call (section 6).
- **`SubscribersMissNothing`**: an endpoint remembers how many writes had begun
  when it was made (`joined`), and from that write on it is given each write at
  most once, every one that has returned, and nothing else.
- **`NoIdlePermit`**, **`UnitsWellSpent`**, **`NobodySleepsOnData`**,
  **`NobodySleepsOnWindow`**, **`NeverDeaf`**, **`NoWaitOnDecrypted`** are one
  question asked of six components: is anybody asleep who should have been woken?
- **`PermitsConserved`**, **`UnitsWellSpent`**, **`ValuesConserved`**,
  **`CreditIsKept`**, **`OnePlaceEach`** are books that must balance over all
  interleavings.  `CreditIsKept` balances with a history variable, `unsettled`,
  for what retired streams kept or returned twice; `NoByteLost` says there is
  none, and fails.
- **`ResolvedOnce`**, **`FiresOncePerArming`**, **`NeverReopened`** say that
  what races for a waiter, a handle or a stream id wins once.
- **`SocketsAreTheirOwn`** relates numbers to files: no call, send under way or
  finalizer reaches a file that was given the number later, and a socket typed
  as connected is.
- **`WritesAreWhole`**: what a write puts on the wire is its own bytes, whole and
  once, although OpenSSL takes any write for the repetition of a pending one.
  The one exception is part of the property, `Http2WriteFailed`: an HTTP/2 server
  writes on after a write that failed, and then it is false (`http2_tls_write`).
- **`NothingWithheld`** and **`CallsReturn`**: the zlib loops neither stop early
  nor spin, whatever `deflate` chooses to hold back.
- **`PoolStaysInBounds`** is what holds of the pool in place of the bound its
  documentation states: open connections never exceed the tasks using it, and
  the count errs only by failed attempts.

Type invariants: `TypeOK` of MVar, QSem, the dispatcher, the timeout manager,
libpq and the receiving half of HTTP/2 are theorems of their own and no run
repeats them; elsewhere it is a conjunct of an invariant of the run, or of an
inductive invariant that is proved.

Deadlock is not checked: the systems may rest.  Calls run out, everybody waits,
a connection ends.

## 4. Fairness

| Module | Assumed | Because |
|---|---|---|
| QSem | WF of each client's `Leave` | it is in a `finally`: the bracketed action ends, normally or not |
| STM | WF of each thread's `Atomically` | the loop sleeps one millisecond and tries again |
| EventDispatcher | WF of the rest of a call that has begun, of each timer, of the dispatch thread, of a shutdown that has begun | they are tasks and threads nobody holds up; nothing makes anybody call, or the peer send |
| HTTP2Send | SF of the reader's and of each handler's steps, WF of the application | the write lock is released after every frame and starves no thread for ever; an application given control returns it |
| TimeManager | WF of the sweep and of the clock | the sweeper is a dedicated task |
| TlsSession | WF of each C call and each wait that has begun, and of the peer's next record once it has what it awaits | threads run; the mutex is free whenever no blocking read holds it; a peer that waits for nothing more speaks |
| ZlibStream | WF of the turns of the driving loops | they are loops that wait for nothing |

Otherwise no fairness is assumed of peers, callers or users.  `STM` needs no strong
fairness: an attempt can always be made, it may just end in another retry.

## 5. What is proved

TLAPS proves these for every value of the constants that satisfies the named
assumptions below (any number of calls, clients, endpoints, streams or handles,
buffers of any size; the bounds are arbitrary naturals).

| Theorem | Statement | Inductive invariant and why it is needed |
|---|---|---|
| `ConcurrencyProofs!MVarTypeCorrect`, `StructuralInvariant` | `[]TypeOK`, `[]Structural` of MVar | the two together: lemmas on `ConsumeValue` and `DeliverValue`, the two helpers every operation ends in, carry them |
| `ConcurrencyProofs!MVarImplementsContract` | `KeepsContract` of `MVarHistory` | the box holds the first value offered and not taken; the queues are the offers and the takers beyond the shorter history. Without this link a step of the code does not say which entry of the contract's lists it answers |
| `ConcurrencyProofs!QSemTypeCorrect`, `NoPermitIdles`, `PermitsAreConserved`, `NobodyOvertakes` | `[]TypeOK`, `[]NoIdlePermit`, `[]PermitsConserved`, `NoOvertaking` | these and `WaitersAreDistinct`. The books count holders as a set, so handing a permit to a waiter balances only if the waiter was not a holder and waits once; that nobody overtakes needs that with permits to take the queue is empty |
| `ConcurrencyProofs!UnitsAreWellSpent` | `[]UnitsWellSpent` of QSemN | the books, that the head of the queue asks for more than is left, and one request per client; the greedy loop is followed turn by turn |
| `ConcurrencyProofs!EndpointsAreStreams`, `WritesKeepRealTimeOrder`, `WritesReachEverySubscriber` | `[]EndpointIsStream`, `[]RealTimeOrder`, `[]SubscribersMissNothing` | of an endpoint, buffer and waiting readers are what `delivered` and `asked` have beyond each other; what was pushed or is due has begun, and a complete write has nothing due; from `joined[e]` on each write has been pushed to `e` or is due there, and not both, and before it neither |
| `ConcurrencyProofs!ValuesAreConserved`, `TransactionsStayClean` | `[]ValuesConserved`, `TransactionsAreClean` of STM | a thread that has still to commit has in hand what it came with. `Bind` is unfolded turn by turn (an induction over a set of numbers), and each instruction moves at most one value |
| `LibraryProofs!OnePlaceForEach`, `DemandBoundsThePool` | `[]OnePlaceEach`, `[]PoolStaysInBounds` | the first, with the types; the second counts sessions by what they hold |
| `LibraryProofs!PgTypeCorrect`, `PgNothingStranded`, `PgImplementsContract` | the types, `[]NothingStranded`, `KeepsContract` of libpq's handles | a wrapper with a pointer has an open thing behind it, and is held while a call waits on it |
| `LibraryProofs!SqliteImplementsContract` | `KeepsContract` of SQLite's handles | a wrapper's pointer is set exactly while SQLite has the thing open, and then it is held; a zombie connection is kept by an open statement; a closure's count is the program's references, the names it is registered under and the call under way |
| `LibraryProofs!DuckImplementsContract` | `KeepsContract` of DuckDB's handles | an owner's pointer is set exactly while the thing is open, a vector's only while it is; an open owner is held or has lost a reference |
| `LibraryProofs!NothingIsStranded`, `ClosuresAreCounted`, `ContractsAreKept` | `[]NothingStranded`, `[]ClosureCounted`, `ContractsKept` | from the above. Of DuckDB's closures: while no two updates have overlapped, at most one is under way and it has read the count that is there; the count is the references of the program, of DuckDB, of each call that holds one, and of the calls that were not made |
| `NetworkProofs!SocketsReachTheirOwn`, `SocketsImplementContract` | `[]SocketsAreTheirOwn`, `KeepsContract` of `Sockets` | the number in a wrapper and the kernel's table agree, and no poll reports a connection still under way |
| `NetworkProofs!ZlibImplementsContract`, `NothingIsWithheld` | `KeepsContract`, `[]NothingWithheld` of `ZlibStream` | a call under way and an unfinished handle have an open stream; what was delivered, what is in the output buffer and what zlib still holds add up to what is due |
| `NetworkProofs!TlsImplementsContract`, `HandlesAreKept` | `KeepsContract` of `TlsSession`; `HandlesKeepContract` | the session is there while a call or a handshake uses it, and its context during a handshake |
| `NetworkProofs!ReadersTakeWhatIsThere`, `ShutdownIsOrderly` | `[]NoWaitOnDecrypted`, `OrderlyShutdown` | a fatal error has set the flag; a socket outlives its session, except that of a failed handshake |
| `NetworkProofs!WritesGoOutWhole` | `[]WritesAreWhole`, whoever uses the session | "a write of an HTTP/2 server has failed, or ...": the first, once true, stays; otherwise writers take turns, a pending record belongs to the writer whose turn it is or to the one that failed last, and every byte on the wire is that of a write that returned, or the close_notify |
| `NetworkProofs!RecvBufferIsByteSource`, `BufferedSourceIsByteSource`, `ReadersReturnTheInput` | both readers implement `ByteSource`, and keep their types | what was returned, what is buffered and what the peer has left make up the input; the part already searched holds no CRLF; a reader that waits has nothing unread; a closed link means that the peer has nothing left |
| `HTTP2ReceiveProofs!TypeCorrect`, `BodiesAreIntact`, `CreditKept`, `NobodySleeps`, `IdsUsedOnce` | the types, `[]BodyIntact`, `[]CreditIsKept`, `[]NobodySleepsOnData`, `NeverReopened` | per stream, the inbox holds the pieces received and not read, in order, and window, inbox, bytes in hand and bytes to return add up to the advertised window; over all streams (a sum over a finite set) the same for the connection, with `unsettled`; a sleeping reader's waiter is in its slot |
| `HTTP2SendProofs!WindowsAreRespected`, `ResponsesAreWhole`, `NobodySleeps`, `ClosedIsQuiet` | `[]WindowsRespected`, `[]WholeResponses`, `[]NobodySleepsOnWindow`, `[]QuietAfterClose` | per stream, the frame in hand and the wire against what the slot knows of them; a window is at most what the peer issued beyond what was sent; over all streams the same for the connection; a sleeper found a window empty and left a waiter; after the close nobody has the write lock |
| `EventDispatcherProofs!TypeCorrect`, `ResolvedExactlyOnce` | `[]TypeOK`, `[]ResolvedOnce` | `OnceInv`: a call that has not begun has an unresolved promise (`IdleUnresolved`), and the dispatch thread and the shutdown hold waiters in one phase only (`Phases`); without these a stray holder could appear from nowhere |
| `EventDispatcherProofs!NeverGoesDeaf` | `[]NeverDeaf` | `OnceInv`, `NeverDeaf` and `ArmsItself`: a caller about to arm carries at least its own direction, so the mask it installs is not empty |
| `TimeManagerProofs!TypeCorrect` (the array never holds a handle twice included), `SafeHandlesNeverLost`, `OneCallbackPerArming` | `[]TypeOK`, `[]SafeHandlesStayTracked`, `[]FiresOncePerArming` | `Shape /\ NoDuplicates /\ AllSafe /\ Paid`. `Safe` follows a handle through the compaction (kept or still to be read); `Paid` charges each arming for at most one of: a callback that has run, one about to run, a state the sweeper may still act on; both need that no copy of the array holds a handle twice |

Each proof has a lemma that the invariant holds at first, one per action or
group of actions, and a temporal step.  TLC has checked the properties on the
instances of section 3 first.  A refinement is proved as two facts: the initial
states map to initial states, and each step to a step or a stutter of the
abstract specification, under the invariant.  Theorems about components of a
sum speak of each component's own specification (`Tm!Spec`, `Sqlite!Spec`).

Assumed of the constants, each by name in the module that declares them and
evaluated by TLC on every run: that sets of threads, handles and streams are
finite and bounds are naturals (`QSemAssumption`, `SqlPoolAssumption`,
`InstanceIsSound`, `LibrariesAreSound`, `SocketAssumption`, `ConfigAssumption`,
`BoundsAssumption`, `TimeoutsAreSound`); that `None` is no call and no value
(`NoneAssumption`, `NoCallAssumption`); that messages, inputs and compressed
streams are sequences, buffers not empty (`MessageAssumption`,
`ReaderAssumption`, `ZlibAssumption`); that a session's users are among those
modelled (`UsesAssumption`).  Two say something of the code's surroundings:

- `ProgramsWriteLast`: no transaction retries after it has written.  It is
  needed: the run `stm_move` breaks it and loses a value.
- `~CloseFails`, a hypothesis of the two theorems on sockets: `close(2)` does
  not fail (section 6 says what happens when it does).

Only model-checked: the liveness properties (`DeadlineHonoured`,
`SameDirectionWakes`, `ShutdownEnds`, `HandlersEnd`, `TrackedHandleTimesOut`,
`CallsReturn`, and the half of `ServedInTurn` that says everybody is served), as fairness and
ENABLED are out of the prover's reach.  Induction over data is too, in its
general form; where a proof needs one (a transaction's instructions, a sum over
streams) it is an induction over a set of numbers or of subsets, proved in
`DataLemmas`.

## 6. Where code and documents disagree

Seven runs end in a counterexample:

- `stm_move`: *"abort this transaction"* (`Control/Monad/STM.lean:57`), but
  `writeTVar` sets the reference in place and `atomically` restores nothing: a
  take followed by a put that retries loses the value.
- `dispatcher_stale_mask`: *"Every registration [...] carries every direction
  still awaited on its fd"* (`EventDispatcher.lean:30`), but masks computed
  under the lock are installed after it is released, and an older one can
  replace a newer one.
- `http2_leak`: *"bytes the handler has consumed — or that were discarded — are
  returned"* (`Server.lean:32`), but a stream the handler finishes without
  reading its body keeps that body's share of the connection window.
- `zlib_leak`: *"freed exactly once, either by an explicit `finish` call or [...]
  by the GC finalizer"* (`Crypto/Zlib/FFI.lean:31`), but an inflate stream whose
  input reaches its trailer in `feed` is marked finished there, which makes both
  `finish` and the finalizer leave it alone.
- `refused_closure`: *"xDestroy will not be called by SQLite"*
  (`ffi/sqlite3_shim.c:698`), but `sqlite3_create_function_v2` calls it when it
  refuses, so the closure loses a reference of its owner.
- `subscriber_deadlock`: *"Serialize each SSL call [...], never the
  socket-readiness wait outside it"* (`ffi/tls.c:46`), but `SSL_read` of a
  blocking socket waits inside the call: a Redis subscriber over TLS cannot send
  a subscription until the server happens to speak.
- `http2_tls_write`: *"do no other write on the session in between"*
  (`ffi/tls.c:580`), *"nothing else writes in between"*
  (`Network/TLS/Green.lean:26`), but `Conn.send` (`Server.lean:331`) rethrows a
  write that timed out and leaves the connection open: `finishStream` (line 505)
  and the other streams write on, and OpenSSL takes their frame for the
  repetition of the record it still holds.

The models contain these too, as the code does them, without a run of their own:

- `QSemN.wait` looks at the count and not at the queue, so a newcomer barges
  past a larger request that waits (against *"waiters are served in `Std.Queue`
  order"*, `QSemN.lean:12`), and a small request can wait behind a larger one
  although it would fit (against the invariant at line 16).
- `Server.lean:844`: RST_STREAM wakes the waiter of the slot it looked up
  before taking the lock; a handler that starts waiting in between is not
  woken, and ends only at its timeout (`HandlersEnd` counts on that timeout).
- `Server.lean:689`: trailers mark a body complete before its announced length
  is compared, so a handler can read the end of a body that is too short.
- `Server.lean:364` counts pieces already read as unread, which credits them to
  the connection twice (`unsettled` in `HTTP2Receive`).
- A frame whose window was granted before a reset is written after it.
- `EventDispatcher.lean:239`: a caller that registers between the drain and the
  close stays on the list of a closed loop, for ever if it has no deadline.
- `Pool.lean:110`: with `maxSize` connections in use the pool opens another
  and does not count it (against lines 6 and 15), and line 109 counts a place
  for a connection that then fails to open, for good.
- `TimeManager.lean:88`: a handle registered during a compaction is dropped and
  never times out; `onTimeout`, *"fired once"* (line 46), runs again after the
  handle is armed again, and may run after a late cancel or tickle.
- DuckDB calls that borrow in C what Lean gives away (`ffi/duckdb_shim.c:839`
  and, in effect, every `destroy`) leave a reference behind: the finalizer of
  that wrapper never runs, against *"each with a GC finalizer that releases the
  underlying native resource if the caller never explicitly did"* (line 8).
  Nothing is released twice by it, but a connection that was interrupted and then
  let go of, without a disconnect, stays open; `NothingStranded` says so
  (`lost`).  SQLite's close and finalize leave a reference too, after releasing.
- `ffi/duckdb_shim.c:2937` and 3869: the count of a closure is not marked as
  shared, and DuckDB calls it on several threads.  Two updates that overlap lose
  one, and the closure may then be freed while it is stored, or under a call:
  `LastsForTheCall` of `DuckCallback` is false with two threads.
  `ClosureCounted` therefore speaks of behaviours without such an overlap.
- `ffi/duckdb_shim.c:3872`, `ffi/sqlite3_shim.c:657`: a callback without memory
  for its handles returns without dropping the reference it took, which is then
  never dropped (`leaked`, `starved`); and `linen_duckdb_create_vector`
  (line 4084) leaves a vector without a wrapper behind.
- `Network/Socket/Blocking.lean:48`, *"still poll rather than spin"*: without a
  limit the poll has a timeout of 0, which is no wait (`WaitsUntilReady` in
  `Sockets` fails for a limit of 0).
- `ffi/network.c:454`: if `close(2)` fails, the number is kept although the
  kernel has freed it; `SocketsAreTheirOwn` has `CloseFails` FALSE.
- `ffi/network.c:1099`: `FD_SET` of a number of 1024 or more is out of bounds,
  while `set_fd_limit` allows such numbers.
- `Server/Request.lean:149`: *"A line longer than `maxLineBytes` is an error"*
  only when it does not end within what is buffered.

## 7. Limits of the models

- One shard and one socket of the dispatcher, on epoll: sockets of a shard share
  only the batch.  kqueue and closing a socket under its waiters are left out.
- A body piece is a byte, a header block a frame; header validation is a
  choice of fates (fine, malformed, too large).  The bounded memory of closed
  ids, HPACK, the h2c upgrade and `connectionWindowSize` below 65535 are left out.
- STM transactions are straight-line sequences of TMVar and TQueue operations.
- `SqlPool`: connections are identities reused once closed; one task destroys
  at a time.  `TimeManager`: a sweep may start at any time after the last.
- Discipline assumed of programs: a connection or socket is closed by its owner
  and not under another thread's call on it; a reader or session is used while
  its socket is held; a server holds its TLS context through handshakes; a
  DuckDB vector is used only while its chunk is held; calls that dereference a
  closed handle's NULL pointer (`clear_bindings`, `column_name`,
  `create_function`) are made on open handles only; a reader stops after a
  failure; an HTTP/1 connection ends with a write that timed out; a blocking
  TLS client reads and writes by turns; libpq connections have one user at a
  time, as the pool gives them out.
- SQLite, libpq, DuckDB, OpenSSL, zlib and the kernel are modelled by what their
  documentation lets them do to the handles, streams and buffers they are given;
  values, queries and rows are left out.  One connection of SQLite and one
  handle of each kind of DuckDB: handles of a kind share no state.
- Registration of the external classes (`ffi/network.c:70`), allocation failures
  other than of wrappers, and inputs of 4 GiB or more to zlib are left out.
- Memory is sequentially consistent and each `IO.Ref` access atomic, as the
  Lean runtime provides.

## 8. Plan

Done, in this order: MVar and its contract, semaphores, Chan, STM, event
dispatcher, HTTP/2 in two halves, SQL pool, timeout manager; then the C
bindings with `ForeignResource`, TLS, sockets, line readers, zlib; proofs of
every safety property and refinement the runs check.

Next, modelling:

1. the Redis Pub/Sub controller over STM's `atomically`: do the server's
   subscriptions converge across reconnection;
2. the CDP runtime over MVar: every command is answered or fails;
3. the HTTP/1.1 server loop and `withApplication`'s shutdown over the event
   dispatcher, with the request-timeout middleware;
4. Worker, and the small ones (AutoUpdate, Debounce, ResourceT, FastLogger);
5. the remaining kinds of DuckDB handles.

The proofs of what these modules come to state go beside them.
