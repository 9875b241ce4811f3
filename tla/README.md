# A TLA+ project for noderati

noderati runs Node.js programs on the Paserati JavaScript engine: a Go program
(`src/cmd/noderati`) and a package (`src/internal/host`) that provides Node's
modules. The engine runs JavaScript on one thread, the *VM thread*; the host does
its work on goroutines and answers through the engine's event loop. This
directory models that host layer, checks the models with TLC, and proves theorems
about fourteen of them with TLAPS.

Three things make this layer hard, and most of the properties below are about them.

* **Goroutines and the loop.** `BeginExternalOp` / `EndExternalOp` count the
  *external ops*; the process leaves when the loop has nothing to run and the count is
  zero. One `End` too many and a callback is lost, one too few and the process never
  exits. `ScheduleMacrotask` and `ScheduleNextTick` are the only way back to
  JavaScript, and each module turns Node's `ref()`/`unref()` into a *hold*, a flag
  recomputed from different threads.
* **Re-entrancy on the VM thread.** Streams, emitters, sockets and requests call
  back into programs that call them again, half way through an operation. What a
  call does at once and what it leaves to a tick is most of Node's contract.
* **Data cut into pieces.** Compressed bytes, ciphertext, lines, text and files
  arrive in pieces of any length; what is held back between two pieces must come out
  once.

The engine is a dependency and not in this repository. Its loop is modelled from
how the host uses and describes it, and is marked external in `PROJECT.json`; so are
wazero, the codecs, the block ciphers and Go's net/http.

## Inventory

| component (files under `internal/host`) | state | operations | interacts by | hard behaviour | what makes it correct | modelled in |
|---|---|---|---|---|---|---|
| **Event loop, external ops** `net.go` (scheduleIO, kickWaker), `dns.go`, `crypto_binding.go` | op count, macrotask queue, waker's channel | start, post, kick, pulse, run, wait, leave | every other component | lost wakeup between the look at the queue and the wait; balance on two threads | each operation called back once; leaves when and only when none is owed | `HostLoop`, `AsyncOps` |
| **net handles, TLS upgrade, listeners** `net.go`, `tls.go` | conn, ready, reading, inRead, closed, writeQ, refed, active, opHeld; four goroutines | connect, accept, readStart/Stop, write, shutdown, ref/unref, close, startTLS, askSNI | macrotasks, external op, the conn | close, dial, ref and upgrade racing the read, write and accept loops | hold exact; chunks in order; requests answered once; errors are the peer's; one reader; none served after close | `NetHandle`, `Listener` |
| **Timers, immediates** `timeout_object.go`, `immediate_object.go` | deadline, live, refed and runtime timer of each Timeout | setTimeout, setInterval, setImmediate, clear, ref, unref, refresh; drainDue | engine's anonymous timers | callbacks that clear, refresh and create timers while several are drained | order, none lost, immediates after timers | `Timers` |
| **Worker threads** `worker_runtime.go`, `worker_threads_shim.go` | two mailboxes, workerState, ParentPort, channels, locks | run, post, drain, terminate, exit, uncaught, ref/unref, listen, close; BroadcastChannel; locks.request | two VMs on two threads | terminate at any moment; a lock aborted or stolen | order of events, exit codes, no message lost, who holds whom | `Worker`, `Mailbox`, `Ports` |
| **Child processes, IPC** `child_process.go`, `child_process_ipc.go`, `emitter.go` | spawn handle, pumps, wait goroutine, kept data; the channel's writer and reader | spawn, ref/unref, pump, wait; send, disconnect | ticks, external op, socket pair | unref racing exit; output racing exit; disconnect from either end; a full channel | balance, output before exit, messages whole and in order | `ChildProcess`, `ForkChannel` |
| **Streams** `stream_*.go` | ReadableState, WritableState, pipes, pipeline, map's queue | push, read, write, cork, end, destroy, pipe, unpipe, pipeline, map, toWeb | nextTick, callbacks | re-entrancy, back-pressure, errors half way | order, one callback each, finish and end are true, drain and pipeline's callback come | `Writable`, `WritableStream`, `Readable`, `ReadableStream`, `StreamOps`, `Conduit` |
| **Events** `events.go`, `event_global.go`, `emitter.go` | listener lists, the helpers' promise and iterator | on, once, off, emit, events.once, events.on | callbacks | list changed during nested emissions | once is once; helpers hear all and leave nothing | `Events`, `Observers` |
| **Signals** `signals.go` | listeners, active set, relay goroutine | on, off, emit, relay, resync | goroutine, ticks, OS | relay after the last listener left | intercepted exactly while listened to | `Signals` |
| **net and TLS sockets in JS** `net_shim.go`, `tls_shim.go` | pending writes, attempts, half-open; connection count | connect, write, end, destroy, listen, close | net handles, streams | late answers of attempts, destroy while connecting | no handle leaks, every callback, `close` when drained | `Socket`, `SocketServer` |
| **HTTP** `http.go`, `http_server.go`, `http_shim.go` | request and response life cycles | listen, request, write, end, destroy, abort, close | goroutines, channels, ticks | destroy racing the answer; a full channel | one response, headers first, bodies whole, holds | `HttpServer`, `HttpClient` |
| **Datagrams** `dgram.go`, `dgram_shim.go` | bind and connect state, queue, hold, reader | bind, connect, send, close, ref/unref | look-ups, goroutine | calls queued behind bind; close racing the reader | hold exact, order, every send answered | `Datagram` |
| **DNS** `dns.go` | none beyond an operation | lookup, query | the loop | as the loop | as the loop | `HostLoop` |
| **MessagePort, clone, v8** `message_port_global.go`, `structuredclone.go`, `v8_serdes.go` | port queues; the ids of a graph's objects | post, start, close, receive; serialize, deserialize, clone | ticks | getters that change what is written; cycles | order, none after close; a graph reads back | `Ports`, `Serdes` |
| **Async context** `async_context.go`, `async_hooks.go`, `diagnostics_channel.go` | frames, stores, hooks | run, enterWith, snapshot, bind, runInAsyncScope, trace | every scheduled callback | callbacks that run long after, in scopes of others | a callback sees what its scheduler saw | `AsyncContext` |
| **File system** `fs_fd.go`, `fs_streams_shim.go`, `fs_shim.go`, `fs_watch.go`, `fs_glob.go` | descriptors, positions, watchers | open, read, write, close, cp, watch, glob | callbacks, goroutines | an operation in flight when the stream ends or is destroyed | ranges whole, own descriptor only, reports are changes | `Files`, `Watch`, `Paths` |
| **Module loading** `cjs.go`, `nodemodules.go`, `osresolver.go`, `packageimports.go` | caches | require, import, resolve | file system | cycles, failures, links, exports maps | evaluated once, one instance, conditions in order | `Modules` |
| **Compression** `zlib.go`, `zlib_sync.go` | codec, queue, feed | write, flush, params, end; process | goroutine | process() and the decoder share a feed | whole, at once, faults reported | `Zlib` |
| **Crypto** `crypto_*.go`, `crypto_js/*` | cipher context, hash state, caches | update, final, digest, copy, randomInt, randomUUID | streams | pieces of any length, padding, tags | deciphers to the text, damage noticed | `Ciphers`, `HostLoop` |
| **Buffers, text** `buffer*.go`, `stringdecoder.go`, `text_encoder.go` | views of shared memory | read, write, copy, fill, search, slice, decode | - | offsets at every boundary | only what was asked for changes | `Bytes`, `Observers`, `StreamOps` |
| **Paths, URLs** `path.go`, `url.go`, `querystring.go` | none | parse, normalize, resolve, relative | - | roots, drives, dots | the same place | `Paths` (URLs not) |
| **WebAssembly** `webassembly_global.go` | copies of memories, handles of table slots | call, import, grow, get, set | calls nested both ways | a copy that is stale on either side | each side sees the other's writes | `Wasm` |
| **readline, perf_hooks, inspect, assert, util** | questions, entries, histograms | question, on line, observe, record | streams, ticks | a line between questions; buffered entries | a line has one owner; entries seen | `Observers` (formatting not) |
| **Process object; command line, scoreboard** `process.go`, `uncaught.go`; `cmd/*` | exit code | exit, stdio | - | - | - | not modelled |

`PROJECT.json` lists the components with all their files, what is modelled of
each, and the hazards with the line where each one bites. Its map names the
lines each definition translates; a helper whose lines lie within those of the
operation that uses it is not listed a second time.

## Modules

| module | models | extends or instantiates |
|---|---|---|
| `AsyncOps` | abstract: operations are started, delivered once, and none is owed at exit | |
| `HostLoop` | operations with one callback, the loop and the waker | implements `AsyncOps` |
| `NetHandle` | one netHandle with its goroutines, the wire and startTLS | |
| `Timers` | Timeouts, Immediates and the phases of the loop | |
| `Mailbox` | the operators of worker_runtime.go's mailbox, one per critical section | |
| `Worker` | one Worker: both threads, both mailboxes, run() | `Mailbox` |
| `ChildProcess` | spawn, pumps, wait goroutine, the buffering stream | |
| `Conduit` | abstract: chunks arrive in order, none lost, and the end is told last | |
| `Writable` | a Writable and destroy(), as operators on a record | |
| `WritableStream` | one Writable, its user and its implementation | `Writable` |
| `Readable` | a Readable, pipe, unpipe, pipeline, as operators | `Writable` |
| `ReadableStream` | one Readable with its dests; one Transform | `Readable` |
| `ForkChannel` | the IPC channel of a forked process, both ends | |
| `Signals` | the bridge from the OS's signals to process events | |
| `Watch` | watchFile, unwatchFile and watch | |
| `Listener` | the listening handle, its accepts, askSNI | |
| `Datagram` | a UDP socket, both layers | |
| `Socket` | net.Socket and tls.connect as clients | |
| `SocketServer` | net and tls servers | |
| `HttpServer`, `HttpClient` | http on both sides | |
| `Modules` | require, import and their resolution | |
| `Events` | EventEmitter, events.once and events.on | |
| `Ports` | MessagePort, BroadcastChannel, Web Locks | `Mailbox` |
| `AsyncContext` | AsyncLocalStorage, AsyncResource, hooks, tracing channels | |
| `Zlib` | compressor and decompressor streams | |
| `StreamOps` | map() and its kin, web adapters, TextEncoderStream | |
| `Files` | file streams, Utf8Stream, cp, fs.promises.watch | |
| `Serdes` | v8's serializer, structured clones, GCProfiler | |
| `Observers` | StringDecoder, readline, perf_hooks, Go-made emitters | |
| `Wasm` | memory and table bridges | |
| `Ciphers` | ciphers, hashes, random integers and UUIDs, decoding | |
| `Paths` | node:path and fs.glob | |
| `Bytes` | Buffer | |
| `HostLoop_proof`, `NetHandle_proof`, `Timers_proof`, `ChildProcess_proof`, `Worker_proof`, `Channels_proof` | theorems | the module they are about (`MCChannels` for the last) |
| `Http_proof`, `Network_proof` | theorems about http and servers; about sockets and all of `MCNetwork` | `MCNetwork`; `Http_proof` |
| `MCStreams`, `MCChannels`, `MCNetwork`, `MCPrograms` | instances of several, one at a time | those modules |

`HostLoop`, `NetHandle`, `Timers`, `Worker` and `ChildProcess` are run as they are: their constants are numbers and
small sets, given in the `.cfg`. In the last four modules a variable `component` says
which module a behaviour is about; the others stay as they were in their first
state (in `MCPrograms`, at a value `"idle"`).
The state spaces add up instead of multiplying, and a property of such a run is a
conjunction with one named part for each component. They do not interact in the
code beyond what each of them models of the other (`Socket` has the handle
`NetHandle` describes, `SocketServer` the `Listener`).

An action is a stretch of code that runs without a lock being given up or a call
that blocks, or the whole of it when only the VM thread touches what it touches.
A function that unlocks and locks again is two actions, and a goroutine has its
place in a `pc`-like field. Where the code is one object with many methods that call
each other (streams, sockets, requests), the object is a record and each method an
operator from records to records, composed the way the methods are; the actions are
the calls from outside and the ticks. Fields that begin to exist only for a
property (what was heard, in which order) are called the observer's where they are
declared. Operators with a comment that starts with "Mutant" are not the model: each
is a definition of it with a plausible mistake, which `PROJECT.json` pairs with the
property that catches it.

### HostLoop

`Start` is a binding (`dns.go:406-524`): Begin, then a goroutine. `Post` is the
goroutine's `ScheduleMacrotask`, `Kick` the send of `kickWaker`, which a goroutine may
make long after its macrotask has run. `WakerReceive`, `WakerBegin`, `WakerEnd` are the
waker goroutine. `RunMacrotask` and `Return` run a callback with its deferred
`EndExternalOp`. `LookEmpty` and `Wait` are the loop's two steps, and `vm = "gap"` lies
between them: a broadcast there wakes nobody. That is what `net.go:117-126`
records and the waker works around. Two things are taken from that comment:
`WaitForExternalOp` looks at the op count, not at the queues, before it waits; and
the waker's sleep of 1 ms is longer than the gap. The second is `oldGap`: a
gap that was open when the sleep began is over when it ends. Without it
`Delivered` fails (mutant `WakerBegin_NoSleep`).

### NetHandle

`mode` says how the handle came to be: dialed, accepted, or accepted and handed to
`startTLS`. The VM thread is in JavaScript, inside `close()` (three steps: the
critical section, `conn.Close`, the rest) or inside `startTLS()`, where it waits for
`inRead`. `rd`, `wr`, `dial` and `hs` are the goroutines: readLoop, writeLoop, the
dialer and the handshake. Blocking calls return what the wire allows: data,
EOF, a reset, or the error of a conn or deadline that the local side closed or set.
`replay` is `prefixConn`, through which bytes that a raw Read already had go back to
TLS. `macroQ` holds what the handle has scheduled; `RunTask` runs one.
Bytes are units numbered as sent; a write is a number, too. Addresses, socket
options and certificates are left out.

### Timers

A `Timeout` is a record; the engine's runtime timers (`rt`) are anonymous and only
call `drainDue`, which collects all that are due and runs them in `Precedes` order
until none is left of those still due. `Tick` is time. The loop's phases are
`"timers"` and `"macro"`, where Immediates run; a round that finds nothing to run
stands for the engine's sleep until the next deadline.

### Worker

The parent's side is the Worker object (`PostMessage`, `Terminate`, `SetRef`, `Drain`,
`Deliver`); the child's is `run()` from `Begin` to `PushExit` with its deferred
functions, the script, and ParentPort. Every operator of `Mailbox` is a critical
section. `terminate()` is two steps with the lock released in between, and so is
its meeting with `run()`. Structured cloning is a value passed on. A Go panic in
the child and a failing `initChildModule` are `Crash`.

### ChildProcess

`SpawnStarts` and `SpawnFails` are the two ends of `spawnProcessWith`. The child is a
process of its own that writes to its pipes, exits, and whose pipes close when
the last holder of the write end is gone, before or after that. `PumpReads`,
`PumpEnds` and `PumpDone` are a pump; `PumpsWaited`, `Reaps`, `Marks`, `Releases` and
`Forgets` are `waitSpawnProcess`, split where it locks and unlocks. `Flush` is
`flushPendingStreamData`, part of every action that calls it. Listeners do not call
back into the stream they listen to and are not removed. A pump's Read fails with EOF only: nobody
closes its end but itself (`child_process.go:465`).
`UnrefFailed` says whether a program calls `ref()`/`unref()` on a child that failed to
start, which the code gets wrong (below); with it FALSE the rest is checked.

### Streams: Conduit, Writable, WritableStream, Readable, ReadableStream

`Writable` is `stream_writable.go` with the destroy half of `stream_core.go`: a stream is a
record `w` with `WritableState`'s fields and its part of the tick queue; `Write`, `ClearBuffer`,
`DoWrite`, `Onwrite`, `AfterWrite`, `FinishMaybe`, `Destroy`, `ErrorOrDestroy`, `Uncork` and `End` are
the functions of the source. Each chunk carries how the implementation will answer for it: at once
or later, well or with an error. `_construct`, `_final` and `_destroy` answer when the environment
likes. `Readable` adds `stream_readable.go`, `pipe()`, `unpipe()` and `stream_pipeline.go`'s `pipeline()`
for two streams with `eos` on both. `ReadableStream` and `WritableStream` add the user; the Transform in
the second part of `ReadableStream` is the two halves in one object with the kept callback.

Chunks are numbers of length one; no decoder, no `objectMode` difference; `Writable`s take the same
callback every time, a new one, or none, which the batching of `afterWrite` tells apart. The
ticks of two streams interleave freely: the code has one queue, so this is more than it can do.

`Conduit` is what all three promise their user: what is sent arrives in order, and the end is told
when everything has. The mapping is in `MCStreams`: for a Writable, accepted, settled and
`finish`; for a Readable, pushed, left and `end` (or the dest's, under `pipeline`); for a
Transform, what it pushed. `StreamsAreConduits` is the refinement.

### Channels: ForkChannel, Signals, Watch, Listener, Datagram

* `ForkChannel`: both ends of a socket pair. `send()` puts on `writes` (the VM thread blocks when
  it is full: `blocked`), a goroutine writes, one that is started when somebody first
  listens reads. A listener is added by `on()` or `once()`; the latter takes itself off past the
  channel's own methods, and nothing looks at the hold (`OnceOff`). A message is two units so that a read may tear or join messages. A
  process ends in good order, or is killed.
* `Signals`: listeners by signal, the active set, what the operating system was told
  (`notified`), the resync in two steps, the channel and the relayed ticks.
* `Watch`: `watchFile` polls in a goroutine and is shared, `watch` relays; both report by ticks and
  hold the loop with a keepAlive.
* `Listener`: the goroutine that accepts and hands over, `close()` in its three steps on the VM
  thread, and handshakes that ask for a context with a timeout.
* `Datagram`: the queue behind bind, look-ups that answer in any order, the native handle and its
  reader that waits, reads or fails, and hands over. `Connect` has no health check of its own, as in
  the code. `waited` is what was queued and what of it was run.

### Network: Socket, SocketServer, HttpServer, HttpClient

* `Socket`: look-up, happy-eyeballs attempts with their timers and late answers, writes before
  the connection, `_final`, half-close, destroy from each listener. A native handle is
  reduced to what `NetHandle` shows of it: requests answered in order, a dial whose callback
  does not come once it is closed.
* `SocketServer`: `listen` with and without look-up, `close`, the count, `drop`, and the
  handshakes of a tls server with their timer.
* `HttpServer`: a goroutine per request that takes items from `writeCh` (here of one place),
  one per body, one per `Shutdown`; all they say is a tick. A `Shutdown` that returns gives up the hold
  (`ShutdownReturns`) before it puts the tick of `close` (`PutsClose`), and the process may end
  in between (`ProcessEnds`).
* `HttpClient`: `bodyCh`, the pipe, `client.Do` and the body reader; `destroy`, `abort`, `'close'`. The
  `error` of a write after `end()` is heard as `errorAfterEnd`, which tells it by its code from the request's
  own. A native `error` that nobody listens to ends the process (`exited`).

### Programs: what runs on the VM thread, or nearly

* `Modules`: a world is a file system with links, packages and the specifiers used in it. The
  resolution (`ResolveRequire`, `ResolveImport`, exports and imports maps with conditions, lists,
  null, `#`), the format of a file, the cache and the frames of modules being evaluated.
* `Events`: what is still to be done is a stack of instructions, a listener's body among them;
  bodies call the emitter.
* `Ports`: `mp` a pair of MessagePorts, `bc` BroadcastChannels over mailboxes, `wl` the locks
  of one thread.
* `AsyncContext`: frames, scopes, resources and hooks, and the callbacks scheduled before the module is
  loaded (`LoadAsyncHooks`), which have no frame; `tr` the tracing channels.
* `Zlib`: bytes are tokens: header, datum, flush, last, checksum. The decompressor's
  goroutine pulls from a feed that `process()` fills and waits on.
* `StreamOps`: map()'s pump and consumer; an adapter in each of four directions; surrogates.
* `Files`: `fr`, `fw` the file streams over descriptors that strangers may get next, `fu`
  Utf8Stream, `fc` cp, `fp` watch events.
* `Serdes`: a heap, a stack of values to write, the token stream, and its reader; `nm` the
  varints and bigints; `gc` the profiler's ring.
* `Observers`: a StringDecoder, a readline Interface, observers and the timeline, a
  histogram, an emitter made in Go.
* `Wasm`: a cell for a page; `truth` is what the standard says the memory holds, written by
  either side; the stack alternates between wasm and script.
* `Ciphers`: the modes work on real data: bytes of three bits, blocks of four bytes and a small
  Feistel network for the block cipher (external). A tag is the record of what it covers.
* `Paths`: paths are sequences of characters; the parser and the arithmetic of both
  styles; braces; a glob over a tree with links.
* `Bytes`: ArrayBuffers, views with offsets, one call at a time on all combinations of
  arguments at and beyond the boundaries.

## Runs

| run | result | states | what it shows |
|---|---|---|---|
| `HostLoop` | passes | 4,505 | The count is exactly what is owed plus the pulse (`OpsBalanced`); no exit while one is owed (`NoneOwedAtExit`); none is forgotten and the pulse does not hold the process (`Settles`); the whole implements `AsyncOps` (`Implements`). |
| `HostLoopDirect` | `Delivered` violated | | Operations that only call `ScheduleMacrotask`, as `crypto_binding.go:207` does, can be forgotten for good. |
| `NetHandle` | passes | 248,930 | The hold is exact outside `close()` (`HoldExact`), so a closed handle cannot keep the process; callbacks of every `close()` come before exit (`ClosedBeforeExit`); chunks in order, EOF last, TLS has the raw conn to itself (`Inbound`); errors are the peer's (`ErrorsAreThePeers`); requests answered once (`CalledOnce`) and in the end, and `startTLS` does not block for good (`Settles`). |
| `NetHandleReplay` | `Replayed` violated | | A chunk that waits in a macrotask when `startTLS` runs is delivered as plain data and missing from the handshake. |
| `Timers` | passes | 361,972 | A live Timeout has its runtime timer armed in the right queue and none that holds is left behind, and Immediates are queued once each and all come (`TimersArmed`); firing order across wakeups, Immediates after the Timeouts that were due (`TimersInOrder`); every Timeout whose time comes fires (`EventuallyFires`). |
| `Worker` | passes | 219,304 | Order of a Worker's events and exit codes (`EventsTrue`); who holds the parent, and messages in one place (`NothingLost`); the child lives as long as something holds it and not past `terminate()`, and hears what it listens for (`LivesAsHeld`). |
| `ChildProcess` | passes | 414,890 | The count is the children that are ref'd and not marked, and a ref'd child keeps the process until its exit is emitted (`ChildrenHold`); output before exit and chunks in order whoever listens when (`OutputKept`); exit is emitted in the end (`ExitHeard`). |
| `ChildProcessFailed` | `KeptAlive` violated | | `unref()` on a child that failed to start ends another child's op. |
| `Streams` | passes | 168,107 | `WritesKept`: chunks taken once and in order, callbacks once and true, `finish` true, `close` last. `ReadInOrder`: order, `end` last, back-pressure, a Transform complete. `PipelineIsTrue`. All three implement `Conduit` (`StreamsAreConduits`) and do not stall (`StreamsDeliver`). |
| `Channels` | passes | 1,040,345 | `LoopHeld`: each hold follows its rule, a fork channel's the parent's connection and the child's listeners (but for finding 20). `MessagesArrive`: fork messages whole, in order, none cut off by an orderly end. `SignalsBridged`. `ReportsTrue`: reports are changes; a handshake has one result and no answer to it blocks the VM thread; calls queued on an open UDP socket wait for a bind under way and run once each, in the order they were made. `QuietAfterClose`. `ChannelsSettle`: among the rest, two processes that fill each other's channels do not wait for each other for ever. |
| `Network` | passes | 1,109,772 | `SocketsKept`: no handle or listener leaks, events once, connections counted. `BytesInOrder`: writes and bodies in order, `end` after the last byte, a request's events once (but for the errors of writes after `end()`). `HttpExchange`: headers once and first, `finish` and `close` last, holds. `DrainedAtClose`. `NetworkSettles`. |
| `Programs` | passes | 552,822 | `ModulesLoaded`, `ListenersServed`, `ContextsKept`, `DataKept`, `ProgramsSettle`: see below. |

The properties of `Programs`, by component:

| property | part of it | says |
|---|---|---|
| `ModulesLoaded` | `EvaluatedOnce`, `OneInstance` | A loader evaluates a file once, whatever paths, links and cycles lead to it, and all who hold it hold one object. |
| | `ExportsInOrder` | A target of "exports" resolves to the first of what its lists and active conditions lead to, in the package's own key order, also where several keys are active. |
| | `NamesTrue`, `PlaceKept`, `RelativeLeads` | parse and format agree; normalizing leads to the same place and once is enough; the relative path leads from one place to the other, on Windows if both are on one drive or below one directory (finding 22). |
| | `BracesExact`, `GlobExact` | glob finds exactly the routes through the tree that the pattern describes. |
| `ListenersServed` | `OnceRunsOnce`, `IteratorInOrder`, `HelpersLeave`, `CaptureRestored` | Emitters under nested emissions; events.once and events.on hear all, in order, and leave nothing behind. |
| | `PortsInOrder`, `PortsHold`, `BroadcastInOrder`, `BroadcastToAll`, `LocksExclude` | Ports and channels keep order, none after close; locks exclude and are granted in turn. |
| | `OnceIsOnce`, `RemovedStays`, `EventsWatched` | The emitters made in Go; fs.promises.watch. |
| | `LinesWhole`, `QuestionsOwn`, `IteratorYields`, `EntriesSeen` | A line has one owner, and lines are whole however the input is cut; an observer is told what it is owed. |
| `ContextsKept` | `OwnContext`, `HooksNested`, `TracesBracketed` | Code runs with the stores of whoever scheduled it, if that was after async_hooks was loaded (finding 21) and not a goroutine while JavaScript ran. |
| | `WasmSeesWrites`, `ViewsSeeWrites`, `TableHolds`, `HandlesReleased` | Script and wasm see each other's writes, at every depth of calls. |
| `DataKept` | `CompressedWhole`, `DecodedAtOnce`, `FaultsReported` | Nothing lost by flush and params; process() hands over all it can; damage is reported and only damage. |
| | `ResultsInOrder`, `AdaptersKeep`, `TextUncut` | map() in order within its concurrency; adapters lose nothing; text does not depend on the cuts. |
| | `RangeRead`, `FileWritten`, `OwnDescriptor`, `LogWritten`, `CopiedTree` | A range is read once and whole; what was acknowledged is in the file; only the own descriptor is used, and it is closed. |
| | `ReadsBack`, `WideEven`, `ClonesApart`, `NumbersRead`, `PausesOwn` | A graph reads back with its sharing and cycles, no prefix of it does; clones share nothing. |
| | `DecodedWhole`, `OutputWhole`, `RecordsCounted` | Decoding in pieces is decoding; percentiles are of the records. |
| | `DecipheredTrue`, `DamageNoticed`, `DigestsTrue`, `IntsEven`, `IdsRise` | A decipher gives the text in whatever pieces; what was damaged does not pass; digests and copies; random integers even; UUIDs rise. |
| | `ChangesAsked`, `NumbersWeighed`, `BytesMoved`, `PlacesFound` | A call changes only the bytes it was asked to, in its own buffer; numbers, overlap, search and bounds. |
| `ProgramsSettle` | | Streams of zlib, map, adapters, files and logs, and observers, come to their end. |

`TypeOK` is part of a property of each of the older modules.

### Bounds, and why they are enough

Every bound is a constant named `Max...` or `...Cap`, or a set of worlds in the MC module.

* `HostLoop`: three operations. Two fill the queue while a third callback runs or a
  kick finds the waker's channel full; a fourth only repeats one of these.
* `NetHandle`: by mode, two units and two closes on an accepted handle, two requests
  and one close on a dialing one, one unit on one that is upgraded. Two of a kind
  are one in hand and one behind it, which is all that order and loss need. The
  reads and writes of one handle share only the hold and `closed`, which every mode
  has, so they are not multiplied with each other.
* `Timers`: two Timeouts (or intervals) with delays of 1 and 2, one Immediate, two
  calls, a clock that stops at 2: equal deadlines, a later timer that overtakes an
  earlier one, and a callback that changes the other one or itself.
* `Worker`: one message each way and two calls in the child: a listener from a timer,
  added and removed, or with ref or unref.
* `ChildProcess`: two children, so that one's mistake can cost the other its op; one
  pipe, two chunks, two calls: unref and ref against the exit, or a listener
  between two chunks.
* `Streams`: three chunks (one at the implementation, one batched, one behind), high-water
  marks of 1 and 2 (at and below it), two calls of cork, end and destroy on a
  Writable, and one of pause, pipe, unpipe, read or destroy on a Readable; two dests,
  one of them slow; four kinds of Writable and eight uses of a Readable.
* `Channels`: channels of one place. Three sets of budgets for the fork channel (`MCBudgets`): one message
  each way and two calls; four down and two calls; four each way and one call. The fourth `send()`
  blocks for as long as the peer does not read: the first is in the socket, the second in the
  writer's hands, the third in the channel. Four sets of loads for a UDP socket (`MCLoads`): sends, datagrams,
  receive errors and calls, with up to three calls that wait for bind; two signals, so that one is resynced for the other; two versions of a file and two changes
  (there and back); two connections.
* `Network`: two writes, one chunk from the peer, up to two addresses; two connections with
  a maximum of one or two; requests of one chunk, channels of one place, three
  sets of budgets that put the calls on one request, on the server, or on two
  requests; four calls on a client's request.
* `Programs`: each component's worlds are the shapes the code branches on (formats, modes,
  options, kinds of failure), with two to six calls. Byte-like data is shrunk
  until boundaries meet: varints of base 4, blocks of four bytes, a page of
  one cell, files of three bytes in chunks of two, a ring of three.

`SelfRearm`, `UnrefFailed`, `Careless`, `Nested`, `Reused`, `Hasty` and `WriteLengths` say whether a
program does what the code gets wrong (below). With them off the rest is checked; `SelfRearm` is
on in `Timers`, whose properties hold all the same.

Deadlock is not checked: in all the models a state with nothing to do is the process
having left, or waiting for a program or a peer that need not act. That it is not
anything else is what the liveness properties say.

### Fairness

* Goroutines and threads run when they can: weak fairness of each of their steps, which
  Go's scheduler and the operating system give. A blocking call returns once it
  has a reason to (data, a closed conn, a deadline), not before.
* The VM thread's loop runs and callbacks return: weak fairness. In `Worker` the
  child's script need not return unless it was cancelled, because a worker may
  compute for ever and `terminate()` is there for that; `Heard` and `ChildEnds`
  assume `JSReturns` in their own text.
* `Timers` needs strong fairness of `Tick`, as the phases of the loop switch it on
  and off while time passes all the same; `Worker` needs it of `ParentReturns`
  because the parent may be called into again and again.
* In the four composed instances fairness is `[]<>Resting \/ []<><<Working>>_vars`: weak
  fairness of what happens by itself, with its ENABLED written out as the negation of `Resting`.
  `Working` holds ticks, macrotasks, goroutines and the answers of an implementation or of
  a call that is under way. Each of them can happen a bounded number of times
  (the user's calls are bounded), so fairness of the union is fairness of each.
  Their liveness properties have the form `[]<>P`: at rest, what is owed has come.
* Nothing makes a program call, a peer send, end or answer, a dial succeed, a
  child exit or close its pipes. A server whose connections do not end need not say `close`
  (`ServerClosed`), and the clients of http's server may go away or not.

## Proofs

`HostLoop_proof`, `NetHandle_proof`, `Timers_proof`, `ChildProcess_proof`, `Worker_proof`,
`Channels_proof`, `Http_proof` and `Network_proof` are checked by TLAPS for every value of the constants. The assumptions are those
named in the modules: `JobsAssumption` (finitely many operations, the script is none of them),
`NetAssumption` (bounds by mode), `TimersAssumption` (delays are at least 1), `ChildAssumption`
(finitely many children), `WorkerAssumption` (the bounds and the exit codes are numbers), and
those of the five modules behind `Channels_proof` (`ForkAssumption`: two ends, capacities of at
least 1; `SignalsAssumption`, `WatchAssumption`, `ListenerAssumption`, `DatagramAssumption`: bounds
are numbers, and the words for "no signal", "no stat" and "no error" are no values), and of the four
behind `Network_proof` (`SocketAssumption`, `ServerAssumption`, `HttpServerAssumption`,
`HttpClientAssumption`: bounds are numbers, configurations have their type, the two channels hold
at least one item). `ChildrenAreHeld`
assumes `~UnrefFailed` besides.

**HostLoop.** `TypeCorrect`, `Balanced` (`OpsBalanced`), `ExitSafe`
(`NoneOwedAtExit`) and `Refinement` (`Implements`). `OpsBalanced` alone is not
inductive: `Return` ends one op, and that is right only if what runs is an
operation marked as running, and what is taken from the queue is posted and in
it once. `IInv` adds these two (`QueueOK`, `RunningOK`). Each step of the binding
adds or removes one element of `Owed`, which the finite set theorems turn into
one more or less in the count. `ExitSafe` follows since `Wait` leaves only at zero. The
refinement maps working, posted and running to pending: `Return` is the delivery,
all the rest but `Start` and leaving are stutters, and leaving needs `NoneOwedAtExit`.

**NetHandle.** `TypeCorrect`, `HoldIsExact`, `ClosesAreHeard`, `ErrorsAreReal`,
`AnsweredOnce`, `RawConnIsFree` and `ChunksInOrder` (`Inbound`). `IInv` adds to these
properties:

* `ReaderOK`: `inRead` is true exactly between readLoop's two critical sections, so
  `startTLS`, which waits for `~inRead`, waits for the Read. With `UpgradeOK` (while
  the handshake runs the handle is not ready, so readLoop begins no Read) it
  gives `OneReader`;
* `ConnOK`: which goroutines may be where while there is no conn, and that only
  `close()` makes a conn that is there unusable;
* `ErrOK`: the reason for an error is remembered from the call that fails to the
  task that reports it. What an error means is decided in a later critical section
  than the one it occurs in; closed and not ready are read there again;
* `ClosesCounted`: calls of `close()` are those called back, queued, or about to be
  queued. `LeftOK` (nothing is queued when the loop is left) turns it
  into `ClosedBeforeExit`;
* `RequestsOK`: a request is in `writeQ`, with writeLoop, in one task, or answered,
  and in one of these only;
* `RawOK`: without `startTLS` the handle is ready from the moment it has its conn, so a
  readLoop that is not closed never puts aside what it read. `InOrder` gives each unit a place,
  counted from the first that onread got to the one in readLoop's hand; a step moves the
  boundary between the parts and keeps the places (`InwardPosted`, `InwardAdded`, `InwardRun`).

**Timers.** `TimersAreArmed` (`TimersArmed`) and `TimersAreInOrder` (`TimersInOrder`).
Neither is inductive. A callback may clear, refresh or unref any Timeout, those included that
the same drain has collected and will reach later, so what is known of a collected
Timeout's runtime timer is less than of the others. `IInv` says how much less:

* `PhaseOK`: a callback and a collection exist only while the loop drains, and a Timeout
  that is live while its own callback runs is an interval;
* `DeadlineOK`: a live Timeout's deadline lies behind the last check phase. It is
  `CheckAfterTimers`, and it is kept since a deadline is a start plus a delay of
  at least 1;
* `ArmedOK`: a Timeout that is live, not running and not collected has its runtime timer;
  so has a collected one that a callback has refreshed;
* `DrainOK`: whatever is live and not collected is not due in this drain. It makes
  the first of the collected the first of all, which is `FiresInOrder`;
* `ImmediatesKept`, which is inductive: the queue is numbered without a gap up to the last Immediate made
  (`StepImmediates`).

**ChildProcess.** `ChildTypes`, `ChildrenAreHeld` (`ChildrenHold`: the count is balanced, and the
process does not leave before a ref'd child's exit), `OutputBeforeExit` (`OutputFirst`) and
`OutputIsKept` (`OutputKept`).
`IInv` relates what four threads do to one child: `HandleOK` (the handle is exited from
the waiter's critical section on), `PumpOK` (a pump that has ended read everything, and the
waiter has waited for it), `ExitKept` (exit is emitted or queued once the waiter has marked the
child), `ExitLast` (no output of a child is queued behind its exit), `TicksOK`, `LeftOK`. The
assumption is needed: finding 3 is a program that unrefs a child which failed to start,
and the run `ChildProcessFailed` shows what becomes of the count.
For the order of the output, `InOrder` numbers what was emitted of a pipe, what its stream
keeps and what is queued for it by its place among these; a step moves output from one
to the next, and `OrderedRead`, `OrderedEnd`, `OrderedKept` and `OrderedFlushed` say that no
place changes. Nothing is kept behind an "end" (`OrderedKept`): a chunk behind it
would need a place beyond the last one.

**Worker.** `EventsInOrder` (`EventsTrue`) and `NothingIsLost` (`NothingLost`), over lemmas about each
operator of `Mailbox`. `IInv` relates the two threads:

* `UpOK`: what the child has pushed, whether still in the mailbox, in a drain's hands or
  emitted, is an `Order`, and where `run()` is says which: nothing before "online", an
  "error" only of a worker that is marked, nothing behind "exit". Moving mail along
  keeps the sequence as it is, so only the five pushes need an argument;
* `ErrOK`: from the mark that `reportError` leaves to the exit no JavaScript runs that
  could call `process.exit` or throw again, and the code is 1. `ErrorMeansOne` needs it;
* `ParentOK`: the parent's mailbox is closed exactly when "exit" was delivered, and then
  nothing was behind it; it is held while the Worker is alive and ref'd. Without it
  a push could be dropped by a mailbox that closed too early;
* `DownOK`: each message down is on its way once (received, pending, in a drain, or in
  the mailbox), those not yet posted are nowhere, and the mailbox of the child is
  closed exactly when `run()` has closed it.

**Channels.** `LoopIsHeld` (`LoopHeld`), `ForkMessagesArrive` (`MessagesArrive`), `SignalsAreBridged`
(`SignalsBridged`), `ReportsAreTrue` (`ReportsTrue`) and `QuietOnceClosed` (`QuietAfterClose`): every
safety property of the run `Channels`. The invariant is one conjunct per component, and each holds
whichever component is at work, since the others stay as they began.

* `ForkInv`. `Pair(q, p, u)` relates an end `q`, its peer `p` and the wire `u` between them. A
  message is two units, so the units a peer has written have places 1, 2, 3, ...; what `q` has
  emitted, the unit it keeps, the data of its ticks and the wire are these places one after
  the other (`Upto`, `UnitsAt`), however reads cut them. `SendOK` says that the queue holds the
  messages behind them and a blocked `send()` the last, and that an end which left in good
  order has an empty queue; `HearOK` that no data is queued behind "eof". Then an end that is told of
  the peer's end has emitted up to the last place, which is `NoneCutOff`. `OnDataHears` and
  `WrittenKeeps` are the arithmetic of one read and one write. `ForkRule` is who holds the loop; it is kept apart from the
  units, which have no part in it.
* `SignalInv`. Between `Stop` and `Notify` nothing is bridged, otherwise `active` is (`BridgeOK`);
  with it the three properties are inductive.
* `WatchInv`. `StopOK`: an open watcher has no "stop" queued and a closed one at most one.
  `PollOK`: the reports emitted and those queued are one sequence (`Story`), whose last entry is what
  the poller's `last` and `busy` stand for (`Knows`); a sample extends it by at most one.
* `ListenerInv`. Between the two steps of `close()` the operation is still held (`ServerOK`); a
  result other than the timeout is the first of the answers, and the channel holds an answer only once `once` is
  spent, so no second one finds it full (`AnswersOK`).
* `DgramInv`. `Binding`: on an open socket calls wait only while a bind is looked up. `clearQueue` is a recursive
  function over the queue; `RunsOf` states that a function is its run, and what one call keeps
  holds after all of them. `Ordered`: what was run is a prefix of what was queued, all of it unless a call threw. `OrderOK` numbers what was emitted, the macrotasks, the datagram in the goroutine's
  hand and those at the socket, with a gap behind the emitted once the socket is closed.

**Network.** `SocketsAreKept` (`SocketsKept`), `BytesStayInOrder` (`BytesInOrder`), `HttpExchangeHolds`
(`HttpExchange`) and `ClosedWhenDrained` (`DrainedAtClose`): every safety property of the run `Network`,
from `NetworkInvariance` (`NetworkInv`): of the component at work its invariant holds. Events are
logs and pending ticks are queues, so most of what has to be known is of the form "this comes once",
"this is in the log or in the queue, not in both", "nothing of this comes behind that". `Http_proof`
begins with these (`Tally`, `Has`, `Single`, `OnceIn`, `NoLater`, `Ordered`) and with what `Append`, `Tail`
and joining do to them; each proof below says only which of them a step touches.

* `SocketInv`. The properties say nothing of what is pending, so none is inductive. `HandlesOK`: only
  the newest handle can be the socket's, the others are closed, and a new one is blank. `ReportOK` and `ConnectOK`: a
  dial whose answer waits in a macrotask is that of the handle in use, so a late answer of an attempt that
  was given up says nothing. `SaidOK` and `ComesOnce`: an event that was emitted, or waits in a tick, is
  marked in the socket's flags, and the mark outlives it. `IdsOK`, `PendingOK`, `WireOK`: a write is buffered, current,
  asked of the handle, in a macrotask, or settled, and in one of these only; what is on the wire comes
  before what the handle was asked, and that before what is buffered. `FinOK`: `_final` goes through its
  stages once, so there is one FIN, behind all writes, until another attempt begins over. `ReadOK`:
  units read, passed on and queued add up to what came in. `TidyOK`, needed since
  `errorBuffer` empties only the buffer of a socket without a current write, is kept apart: it fails between the two
  halves of some steps. Every operator of `Socket` has a lemma that says what it keeps and what it leaves alone
  (`...Is`, `Same...`); `attempt` is argued in its two halves, the old handle shut and the new one dialed.
* `ServerInv`. `CountOK` is the count; `ConnOK`: of a connection a handshake runs, or its answer waits, or it is
  over, and what has a timer has not been reported. Without it an answer that crosses the time-out
  could report a connection twice. `DrainOK`: a "close" that is queued finds no connection, which the guard of
  the accept keeps true. `OpenOK`: the listeners that are open.
* `HttpInv`. `ResponseOK`: what was said is the headers and the chunks, and the client's part, the
  channel, the item that waits for room (`Waiting`) and the goroutine's hand are that sequence cut into pieces (`Flows`).
  `EventsOK`: where 'request', the chunks, the 'end' (four cases, `BodyEnd`) and 'finish' of a request are,
  in its log, in the request or among the ticks of all requests. `ClosedOK`: behind the `closed` of a server that was shut down there is no
  'finish' of a request it took. `HoldOK` is the hold, with what a second `listen()` loses.
* `ClientInv`. `BodyOK`: the wire, the channel and a blocked `write()` are the chunks in order while the
  feeder lives. `SaysOK`, `OnceOK`, `AfterOK`: the events and the ticks that will say them. `ResponseAt` and `ChunksOK`:
  the chunks heard, buffered, in ticks and left add up (`SumsOK`), and a body that was cut has its
  error queued before its 'end' (`CutOK`), which is why an 'end' that is heard is true.

Least elements and induction on the length of a sequence come from `WellFoundedInduction`
(`LeastElement`, `SetInduction`), stated for sets so that no operator has to be instantiated.

Model-checked only: all liveness and the refinements' fairness (out of TLAPS's reach), the three
invariants of `MCStreams` (`WritesKept`, `ReadInOrder`, `PipelineIsTrue`) and those of the modules under
`MCPrograms`. `Modules`, `Serdes`, `Paths` and the other data modules compute with recursive or folded
definitions over sequences, which need induction over data that the prover cannot
be given, and `RECURSIVE` is among them; their properties stay with TLC. The streams fold their
handlers over the queued events, which would first have to be
written as recursive functions, as `ClearQueue` of `Datagram` is. `RECURSIVE` appears in no module the proof modules reach.

## Where the code disagrees with its own words

Three of these are runs that TLC must find violated. The others are stated as a property in
the module and TLC refutes the property when it is named in the instance's `.cfg`, with the constant
given here.

| # | code | words | stated as |
|---|---|---|---|
| 1 | `crypto_binding.go:207`: async()'s `ScheduleMacrotask` may fall into the gap that `net.go:117-126` describes, and nothing kicks the waker. Worker mailboxes and `cancelChild` post the same way | `crypto_binding.go:191`: "delivering cb(err, value) later from the event loop" | `Delivered`, run `HostLoopDirect` |
| 2 | `tls.go:431`: a chunk that waits in a macrotask is not seen by startTLS | `tls.go:337-339`: "whatever it already got is replayed into the TLS layer" | `Replayed`, run `NetHandleReplay` |
| 3 | `child_process.go:412`: `unref()` on a child that failed to start ends another's op | `child_process.go:377-379`: it "ends this child's own BeginExternalOp ... exactly once" | `KeptAlive`, run `ChildProcessFailed` |
| 4 | `timeout_object.go:263`: an interval's callback that refreshes, refs or unrefs the interval leaks a ref'd runtime timer | `timeout_object.go:24-27`: "an unref'd timer must not keep the process alive" | `OnlyLiveHold` of `Timers` |
| 5 | `worker_threads_shim.go:253`: messages that wait for the first listener are overtaken | `worker_threads_shim.go:249-250`: they "wait, as on a port that hasn't been started yet" | `HeardInOrder` of `Worker` (two messages down) |
| 6 | `child_process_ipc.go:234`: after `channel.unref()` the first listener does not start the reader | `child_process_ipc.go:121-123`: "lazily, once something listens" | `ListenerHears` of `ForkChannel` |
| 7 | `signals.go:289`: resync stops the relay of every signal before it asks again | `signals.go:286-288`: the "no listener means default OS behavior" contract | `NeverKilledHeard` of `Signals` |
| 8 | `http.go:192`: the feeder leaves at a write error and nobody drains the channel | `http.go:184-190`: write() "must never block" | `NeverStalls` of `HttpClient` |
| 9 | `http_server.go:57`: writeCh has 64 places, then write() waits for the client | `http_server.go:57-62`: "must never block the VM thread on network I/O" | `NeverBlocks` of `HttpServer` |
| 10 | `http_server.go:412`: an old Shutdown drops the hold of the server that listens again | `docs/real-node-plan.md:16418`: its op is its "listening lifetime" | `ListeningHolds` of `HttpServer` |
| 11 | `packageimports.go:122`: "imports" conditions are tried in a fixed order | `nodemodules.go:476-477`: key order, "not a fixed priority list" | `Modules` follows the code; its `ExportsInOrder` demands key order of exports only |
| 12 | `main.go:173`: the main file's format is decided by prefixes of lines | `nodemodules.go:581-583`: that test "missed two real shapes" | `Modules` follows the code |
| 13 | `worker_threads_shim.go:455`: an aborted lock request does not pump the queue | `worker_threads_shim.go:5-6`: "Web Locks LockManager" | `NoneWaitsInVain` of `Ports` |
| 14 | `zlib.go:314`: an empty chunk queued when end() is called ends the stream before the chunks behind it | `zlib.go:8-12`: "mirroring lib/zlib.js's own ZlibBase" | `NothingDropped` of `Zlib` |
| 15 | `webassembly_global.go:630`: grow() from script drops what script wrote since the last call | `webassembly_global.go:418-421`: a write is "never silently discarded" | `ViewsSeeWrites` with `Hasty = {"grow"}` |
| 16 | `webassembly_global.go:906`: slots that grow() filled share one handle, and the first set() releases it | `webassembly_global.go:789-790`: get() gives "that exact JS value" | `TableHolds` with `Hasty = {"fill"}` |
| 17 | `emitter.go:256`: a once() listener runs twice when emissions nest | `emitter.go:237`: "Node's on/once/addListener" | `OnceIsOnce` with `Nested = TRUE` |
| 18 | `buffer.go:649`: write()'s length is never read | `buffer.go:647`: "write(string, offset?, length?, encoding?)" | `ChangesAsked` with `WriteLengths = {1}` |
| 19 | `crypto_js/10_hash.js:46`: a Hash used as a stream can be used after its digest | `crypto_js/10_hash.js:13`: "Digest already called" | `DigestsTrue` with `Reused = TRUE` |
| 20 | `emitter.go:258`: a once() listener takes itself off without the channel's updateRef, and the child stays held without a listener | `child_process_ipc.go:229-232`: "the channel keeps the process alive only while 'message' or 'disconnect' listeners exist" | `HeldByListeners` of `ForkChannel` |
| 21 | `async_context.go:69`: what is scheduled before async_hooks is loaded has no frame, sees stores entered later and leaves its own behind | `async_hooks.go:4-6`: "every callback the async runtime schedules ... runs in the frame that was current when it was scheduled" | `EarlyFindNone` of `AsyncContext` |
| 22 | `path.go:619`: win32.relative cuts two characters off both paths whatever they are, and panics at a bare root | `docs/real-node-plan.md:1718-1720`: "all implemented and checked against known-correct outputs directly" | `RelativeLeadsAnywhere` of `Paths` |

### Seen while modelling

With no words of the repository to hold them against, or the same in Node; the models
follow the code, and where a property would be false its comment names the exception.

* **net, tls.** `close()` between the dialer's check and its attach leaves an open conn on a closed
  handle (`net.go:386`); a write taken by writeLoop before startTLS goes out in plain text after it
  (`tls.go:431`); callbacks of requests that `close()` flushes may be lost at exit
  (`net.go:358`). A later connection attempt forgets an `end()` called while connecting
  (`net_shim.go:281-301`, `796-799`) and an `unref()` on the first handle; a look-up
  may be reported after `close`; `destroy()` inside a `connectionAttempt` listener
  is undone by the attempt (not modelled). `listen(host)` twice during the look-up leaks the
  first listener; `close()` during it listens afterwards; `close()` twice emits `close`
  twice; the handshake timer reports a socket that is already destroyed.
* **http.** `res.destroy()` does not cancel the transfer; a cut response never lets the request
  emit `close`, and `complete` becomes true; a request cut by its client reports `end` and `complete`;
  `response` may follow `error` when it crosses `destroy()`; `listen()` twice leaks the first
  listener; `ref()` during Shutdown drops the hold; a `write()` after `end()` emits `error` each time, also behind
  `close` (`http_shim.go:481-484`, `NoErrorAfterClose`); the native `error` of a body that is cut finds no
  listener when `abort()` crossed the answer, and ends the process (`http.go:477-479`, `emitter.go:443-445`,
  `NeverExits`); `close()` gives up the hold before it puts the tick of `close`, which is lost when the
  process ends in between (`http_server.go:412-415`, `CloseIsSaid`); `SetOwn("complete")` is called off the VM
  thread (`http_server.go:506`), which the comment at 430-435 excludes.
* **workers, children, ports.** `on("message")` on a closed ParentPort holds the child again;
  postMessageToThread resolves although the inbox may never be drained
  (`worker_runtime.go:571-588`, `ThreadsHear` of `Ports`).
* **datagrams.** `connect()` after a `close()` during the bind is queued behind a bind whose answer is not looked
  at, and waits for ever (`dgram_shim.go:144`, `176-183`, `NoneWaitsForNothing`). A listener for `listening` that the
  user adds before the first queued call runs before the queue is emptied (not modelled). The queue is dropped when bind fails and connectState stays "connecting"; a send
  queued behind a queued close throws; one whose look-up ends after close never calls back.
* **streams.** As in Node: `finish` may follow `destroy()`; pipe ignores pause on a destroyed source; a
  second `pipe()` resumes a source that another dest holds; pipeline reports success when its dest is
  destroyed with an asynchronous `_destroy` and a chunk was refused, and never calls back when the source is
  destroyed between its last push and `end`.
* **files.** With functions of the user's own, a read, write or fsync that waited for the open is
  issued after `destroy()` (`Careless`); Utf8Stream loses or misplaces data when `destroy()`,
  `flush()` and `reopen()` meet a pending open; cp leaves a nested empty directory over a file
  unreported.
* **modules.** A module that failed stays in the cache, so a second `require()` gets partial exports; a
  null target falls to index.js; the main loader and the interop loader have a cache each.
* **events, readline, perf.** `removeListener` with the original function never removes a once()
  listener of a Go-made emitter; `stopImmediatePropagation` is recorded and not obeyed; an observer
  that throws keeps the later ones of its turn waiting; a second question with a signal is
  dropped and its abort cancels the first.
* **serialization.** An error whose cause leads back to it reads back with null; Map, Set and typed
  arrays go through a MessagePort by reference.
* **wasm.** Writes made by a `valueOf()` while arguments are converted are lost; a failed conversion
  leaves the bridge dirty; a memory exported under two names has two bridges that overwrite each other.
* **async context.** A goroutine that schedules while JavaScript runs inherits its store (the source
  says so); a tracing promise publishes asyncStart before it settles.
* **paths, buffers.** win32 normalizing loses UNC's double separator; an inner group in an outer
  one without a comma is not expanded; `Buffer.slice` copies where Node shares; a negative offset to
  `write` reaches before the view.

## Not modelled, and why

* Byte formats and the conversions done by library calls (TLS records, HTTP and DNS messages,
  codecs, block ciphers, digests, base64, keys and certificates): data transformations
  without state, in Go's standard library or in dependencies.
* The engine: its loop is modelled as far as the host relies on it, the rest is
  external.
* Property plumbing, argument checks, the wording of errors, formatting (util.inspect, assert's diffs,
  console) and deep comparison: no state, and hundreds of cases that only restate themselves.
* `url`, `querystring`: parsers, delegated in part to the engine. `http2`, agents, upgrade: next
  in the plan. `spawnSync`, kill, stdin of children; socket options and multicast.
* The process object (property plumbing; exit codes and uncaught errors appear in `Worker`), the
  command line (one script and a drain of the loop) and the scoreboard (a test runner).

## Plan

Done of the earlier plan: the fork channel, streams with their abstract `Conduit`, listeners, sockets,
signals, ports, async contexts, http, modules, paths, and on top of it files, compression,
serialization, ciphers, WebAssembly, Buffers and observers. What is left, in this order:

1. Proofs: the invariants of `MCStreams`, one conjunct per module as in `Network_proof`.
2. `Hold`: the abstract hold (one op exactly while active, ref'd and not closed), shown to be
   implemented by `NetHandle`, `Datagram`, `Watch`, `Listener` and the mailbox.
3. http's agents (a pool at its limit, a free socket that closes) and upgrade; http2's streams.
4. `EventTarget`'s own fields, `compose`, spawnSync, the process object's exit path.
5. url and querystring as pure algorithms with a reference definition.
