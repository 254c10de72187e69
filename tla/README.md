# TLA+ models of TekiXquic

TekiXquic is an Android client for QUIC: a Kotlin API in the style of OkHttp on
top of a C layer that drives the xquic engine with libev and cJSON, both of which
are in the repository. Two kinds of traffic
use it: *short* calls, each over a connection of its own, and *long*
connections, which carry web sockets and reused calls. This directory holds
TLA+ models of the library, the TLC runs that check them, and TLAPS proofs.
`M/` below stands for `src/xquic/src/main/`.

## 1. The system

| component | state it keeps | operations | interacts through |
|---|---|---|---|
| long-connection context (`M/cpp/main/xquic_client_long.c`) | `xqc_cli_ctx_t`: `active`, `msg_data` (one command slot `cmd_type`, a message queue), the task with `user_conn`, the libev loop and watchers | `client_long_conn`, `_start`, `_send`, `_send_ping`, `_cancel`; the schedule callback serves commands | called by XRealWebSocket's threads, woken with `ev_async_send`, called back by the engine, calls up into Java |
| short call (`xquic_client_short.c`, `XAsyncCall.kt`, `XAsyncCallCommon.kt`) | the same context without a queue; `clientCtx`, `isFinish`, `isCallback`, the read-timeout message | `client_short_send`, `client_short_cancel`; `execute`, `cancel`, `callBackData`, `callBackMessage`, the timeout handler | worker thread of the dispatcher's pool, main looper, cancelling threads |
| call dispatcher (`XDispatcher.kt`, `XExecutorService.kt`) | `readyAsyncCalls`, `runningAsyncCalls`, the two limits | `enqueue`, `promoteAndExecute`, `finished`, `cancel`, `cancelAll` | every thread that enqueues, cancels or executes a call |
| web socket (`XRealWebSocket.kt`) | `messageAndCloseQueue`, `queueSize`, `enqueuedClose`, `clientCtx`, ping counters | `send`, `close`, `ping`, `connect`, callbacks | its two pool threads, the long context, the global native mutex |
| reuse pool (`XConnectionPool.kt`, `XConnection.kt`, `XAsyncCallReuse.kt`) | the pooled connections, cached messages, listeners | `execute`, `cleanUp`, `send`, web-socket callbacks | dispatcher, web sockets |
| stream I/O (`M/cpp/main/src/xquic_h3_*.c`, `xquic_hq_*.c`) | `xqc_cli_user_stream_t`: what of a request was sent, what of a response received | send, read, write and close notifications | engine, upcalls |
| message queue (`M/cpp/main/include/xquic_msg_queue.h`) | a linked list with two ends and a count | put, pop, empty | long context |
| JNI layer (`M/cpp/native_xquic_jni.c`) | one mutex for all contexts, the global reference of each call | entry points, upcalls | both sides |
| call set-up and teardown (`get_args_params`, `client_*_init_*`, the `fail:` labels, `xquic_socket.c`, `XRttInfoCache.kt`) | which of arguments, context, loop, engine, task, socket, `user_conn` and connection exist; token and session of each authority | everything between the application's request and the connection, and back | JNI, resolver, kernel, engine, event loop |
| event loop (`share_libs/src/ev/ev.c`, `ev_epoll.c`) | watchers, pending lists, the event pipe with its two flags, the fd changes, the timer heap | `ev_run`, `ev_async_send`, `ev_*_start`, `_stop`, `_again`, `ev_loop_new`, `_destroy` | every context has one; senders are other threads |
| JSON (`share_libs/src/cJSON.c`) | items: linked lists of children, owned names and strings | create, add, detach, replace, duplicate, print, parse, compare, minify | the message headers of both clients |
| engine and transport callbacks, client facade, values | little | forwarding, builders, parameters | |

What is hard in this code:

* **One command slot, several writers.** `client_long_send` writes `cmd_type`
  under the mutex; pings, cancels and the engine's close notification write it
  without. A later command replaces an earlier one that was not served, and the
  long client resets the slot after serving it. The short client has no mutex
  and never resets the slot.
* **Pointers that outlive their owner.** `user_conn` is shared by the task, the
  engine's connection, the socket watcher and the idle timer, and freed by the
  first DESTROY; the context is freed by the loop thread while Java still holds
  its address as a `Long`.
* **Check, then act.** `clientCtx`, `active`, `isCallback`, the dispatcher's
  lookup in `finished` are all read, and used later.
* **Locks in no common order.** The monitor of a web socket, the interned string
  `TAG`, the one native mutex of all contexts, the monitors of the connection pool
  and of pooled connections are held across calls that take others of them.
* **Flags instead of locks.** `ev_async_send` and the loop agree by two flags and
  memory fences on who writes the byte into the pipe.
* **State kept twice.** The timer heap caches times and positions, the kernel holds
  interests of descriptors that are closed and opened again.
* **Every step may fail, one label cleans up.** Allocation, resolver, loop,
  engine, protocol registration, socket and connect, in that order.
* **Answers from everywhere.** A call may be answered by data, by each of
  several error paths, by the timeout and by the tail of `execute`.

Correct behaviour, per component:

* *long context*: no access to a freed or missing object except in windows one
  can name; no lost wakeup; accepted messages are handed over in order, once,
  and not lost silently; DESTROY is delivered once and last; a closed
  connection releases the context.
* *short call*: as above, and every call is answered; at most once.
* *dispatcher*: limits hold; no call is stranded in the queue, no slot leaks,
  no call starts twice.
* *web socket*: threads wait for each other in no more ways than one can name;
  an accepted message is handed over in order, at most once, or its loss has a
  named cause; a close frame ends the connection.
* *reuse pool*: at most one usable connection per authority, a bounded number of
  them, no call forgotten.
* *stream I/O*: a request's units are sent once and in order across `EAGAIN`; what
  is reported of a response is its beginning, in order; every callback finds its
  object; headers are alive when they are sent.
* *message queue*: the list implements a FIFO.
* *set-up*: nothing is touched, watched or freed that is not held; everything is
  released, whatever fails; only whole tickets of the same server are offered.
* *event loop*: the loop never sleeps over a signal; no stopped watcher is called;
  the kernel's interest set is what the watchers ask for; timers expire once, in
  order, not too early.
* *JSON*: items form a forest, memory has one owner, print and parse are inverse,
  no write behind a buffer.

## 2. Modules

| module | what it is |
|---|---|
| `LongClient` | one long-connection context, from the return of `client_long_conn` to the return of `client_long_start` |
| `LossyFifo` | abstract specification: what the send side of a long connection promises |
| `LongClientProps`, `LongClientProofs`, `MCLongClient` | its properties, proofs, TLC instances |
| `Dispatcher` | the call dispatcher with the executor's threads |
| `DispatcherProps`, `DispatcherProofs`, `MCDispatcher` | same |
| `ShortCall` | one call over its own connection: worker, looper, cancelling threads, native context |
| `ShortCallProps`, `ShortCallProofs`, `MCShortCall` | same |
| `WebSocket`, `WebSocketProps`, `WebSocketProofs`, `MCWebSocket` | the threads and locks of one `XRealWebSocket`; implements `LossyFifo`, too |
| `ReusePool`, `ReusePoolProps`, `ReusePoolProofs`, `MCReusePool` | reused calls, their connections and the pool |
| `CallSetup`, `CallSetupProofs`, `MCCallSetup` | what calls hold, from the request to the connection and back |
| `MsgQueue` | the linked list of `xquic_msg_queue.h`, as operations on a heap of nodes |
| `StreamIO`, `StreamIOProps`, `StreamIOProofs`, `MCStreamIO` | messages from that list to the engine's streams, and responses back |
| `EvLoop`, `EvLoopProps`, `EvLoopProofs`, `MCEvLoop` | the libev loop with async watchers and a socket over epoll |
| `Wakeup` | abstract specification: a signal is never lost |
| `EvTimers`, `MCEvTimers` | the timer heap and the pending list; its proofs are in `EvLoopProofs` |
| `TimerService` | abstract specification: what an armed timer does |
| `SeqFilter` | what is left of a list when elements are taken out of it |
| `CJsonHeap`, `CJsonText`, `CJson`, `CJsonProps`, `MCJson` | items and their operations; printing and parsing; an application that uses them; properties; instance |
| `Forest` | abstract specification: what happens to trees of items |

`PROJECT.json` maps every definition to the lines it models.

### LongClient

*Loop thread.* `loop` says where it is: `created` -> `looped` (`StartLoop`:
`ev_loop_new`, engine) -> `armed` (`ArmTask`: `ev_async_start` and
INIT_TASK into the slot) -> `poll` (in `ev_run`) -> `break` (`ev_break` was called) ->
`stopped` -> `freed` -> the return into `XRealWebSocket.connect`. A command is
served by `Enter` and one of `HandleNone`, `HandleInit`, `HandleInitFails`,
`HandlePing`, `HandleSendData`, `HandleCancel`, `HandleDestroy`; the reset of
the slot (`ResetCommand`) is a step of its own, because writers without the
mutex come between. *Callers* start with `CallSend`, `CallPing`, `CallCancel`
(the check of `active`), go on with `PutMessage` or `WriteCommand`, and wake the
loop (`WakeLoop`); `TouchFreed` is what an access to a freed context does. *The
engine and libev* are `HandshakeFinished`, `CloseNotify`, `SocketError`,
`IdleFires`.

A handler is one action up to the reset: apart from the slot it touches only
what is private to the loop thread or protected by the mutex. Undefined
behaviour is a choice: a freed object may be read with no visible effect, or the
process crashes. A NULL pointer crashes.

`EarlyCalls = TRUE` lets calls start as soon as `connect` returned, which is
when `clientCtx` is set; then `ctx->eb` may be NULL, `ev_async_start` forgets
wakeups, and INIT_TASK overwrites, or is overwritten by, another command.
`FALSE` restricts to calls after the connection opened.

Abstractions: one task per context (the JNI layer always selects `MODE_SCMR`);
request counters and `fin_flag`, which are only logged here; payloads; stream
I/O; the kill timer, which is never armed because `env_cfg.life` is never set.
Upcalls are taken to return (the deadlock they can take part in is in
`WebSocket`), and `xqc_conn_close` not to call the close
notification before it returns.

### Dispatcher

Threads are users, who `Enqueue` and `Cancel`, and one worker per call, named by
the call. `Promote` is the critical section of `promoteAndExecute`, `Launch` the
hand-over of one call to the executor outside it. `finished` is three actions,
because the lookup is outside the monitor: `Check`, then `Remove` (and on to
`Promote`) or `Drop`. `EndExecute` is the `finally` of `execute`. The order of
the ready deque is the order of the tickets; `Picked(S)` says which calls the
loop over that deque selects.

The executor has no bound and is never shut down, so it rejects nothing. The
unlocked lookup in an `ArrayDeque` is taken to be atomic. The `AssertionError`
of `finished` is not caught by anything: the process ends. A call is cancelled
only after it was enqueued. `cancel(tag)` and `cancelAll`, which
iterate over the deques while their own callees change them, are not modelled;
calls of `XAsyncCallReuse`, whose `finished` comes from web-socket callbacks, are
in `ReusePool`.

### ShortCall

*Worker.* `stage` follows `execute` and `client_short_send`: `start` -> `named`
(the DNS answered) -> `inited` (MSG_TYPE_INIT gave the context to Java) ->
`active` -> `armed` (`ev_async_start` done) -> `poll` (in `ev_run`) -> `break` ->
`stopped` -> `freed` -> `tail` (back in `execute`) -> `done`. Every failure path
is an action: `DnsFails`, `ParseFails`, `EngineFails`, `CanceledBeforeTask`,
`SocketFails`, and `HandleTask` with its three outcomes. In `ev_run` the worker
runs `ServeCancel`, `ServeDestroy`, the engine and the timers. An upcall that
reports data or an error (`EnterCallBack`, `Deliver`) holds the worker, which
may cancel the call from inside. *Looper*: `TimeoutFires`, `MarkLate`,
`TellLate`, then a cancellation. *Any thread* cancels by `BeginCancel`,
`CheckContext`, `CheckActive`, `WriteCommand`, `WakeLoop`, with `LateAccess` for a
context that is freed by then.

Abstractions: only the worker runs `callBackData`, so `synchronized(isCallback)`
excludes nobody and `isCallback`, which it sets after the delivery, may be set with
it; `finished` is left to `Dispatcher`; callbacks of the application do not
throw; `ev_loop_new` does not fail; the default branch of the schedule callback
runs only in its direct call. Both initial states are real: a read timeout is
set or it is not.

### WebSocket

*Threads.* `pc[t]` is where a thread is in `XRealWebSocket`, `op[t]` what it does
there. `Apps` call `send`, `close` and `cancel` (`Call`); `Writer` is the pool thread
that runs `writerRunnable` (`TakeJob`, `StartWriting`, `WriteMessage`, `SendByteChecked`,
`SendByte`, `WriteClose`, `StopWriting`) and the ping task (`PingStarts`, `PingSent`,
`NetworkChanged`, `NetworkCloses`); `Loop` is the one inside `connect`, with its
upcalls (`Event`, `Deliver`, `ErrorFirst`, `ErrorCloses`, `ErrorAgain`). *Locks*:
`monitor` (`synchronized(this)`), `tag` (`synchronized(TAG)`), `mutex` (the native one).
`send` and `close` are three steps in the monitor: the check and the queue, the
second check (`Submit`), and `executor.execute` (`Execute`).

*Native side.* There is `active`, the command slot `cmd` with its wakeup `async`, and the
connection. Pings, cancels and the close notification write the slot without the
mutex (`Command`, behind the check `Touch`); `lost` records that a CANCEL or a DESTROY left
it unserved. The loop thread arms the wakeup and writes INIT_TASK (`ArmTask`), takes
the command under the mutex (`TakeCommand`: directly the first time, then whenever it is
woken), serves it (`ServeInit`, with the error upcall or DESTROY inside, `ServeSend`, `ServePing`,
`ServeCancel`, `ServeDestroy`, and `ServeEarly`, which has no `user_conn` yet) and resets
the slot (`ResetCommand`). Writing and waking are one step, and so are the requests
of one drained queue: their parts are in `LongClient`. Lengths are abstract: a message may be too
long for `byteBuffer` (`oversize`), and the queue limit of 16 MiB is the case of `send`
in `CloseQueued`. Both modules implement the same `LossyFifo`.

### ReusePool

A call has a worker, and if it makes a connection, the two threads of that
connection's web socket. A thread is a stack of frames (`stack[t]`), one for each
method it is in, because listeners, pool and connections call each other with
monitors held; which locks it holds follows from the frames, and monitors are
reentrant. The locks are the two interned strings `TAG` (`TAG`, `SockTAG`), the monitors of the pool,
of connections and of sockets, and the native mutex.

*Workers.* `Get`, `Put`, `Add`, `cleanUp`, `Unpool`, `Unpooled` are the pool's methods;
`Create`, `Send`, `Cache`, `Offer`, `Close`, `Submit` those of a connection and its socket. *Writer*:
`TakeMessage`, then `HandOver` or, with an inactive context, `SendFails`, which tells the listener
with the monitor held; `ServeClose`; the ping task that finds another network
(`NetworkChanges`, `NetworkTold`). *Loop thread*: `Open`, `Drain`, `Message`; a refused request and an
error of the socket (`Refuse`, `Refused`, `SocketFails`, `Error`); DESTROY from inside the mutex (`Destroy`,
`Destroyed`); `Lose` and `End`. `Release`, `Unpool` and `FailCalls` are what a listener is
told, on whichever thread. An exception (`Throw`, a shut-down executor) leaves all
frames of the thread. The clock is a choice: a connection that has answered may
have been idle for longer than the keep-alive time.

Of the web socket there is less than in `WebSocket`: no slot, no lengths, and the
writer gives its monitor back between two messages. `Faulty` are the connections
whose network, socket and requests may fail.

### CallSetup

One action per stage of the set-up, each with its failure, of both kinds of call: `GetArgs`
(default values, tickets, headers), `Resolve`, `MakeContext`, `NewLoop`, `InitEngine`,
`StartTasks`, `Connect`, then the engine's notifications and the teardown in the order of
the code. A call records which objects it holds, which its pointers still name,
and what it touched or freed without holding it; `Set(r, S)` is what the tests
for NULL behind the `fail:` labels let through. Two calls share the cache of
tickets, which `SaveToken` and `SaveSession` fill from one connection and `Ask`, `AskSession`
read for the next in two steps.

Assumed: an URL, a protocol name and a number of headers fit their arrays; malloc
finds memory; the cache of 16 authorities is never full; the kernel offers the
same features to all calls. Unreachable: the kill timer and `MODE_SCSR`.

### MsgQueue, StreamIO

`MsgQueue` is `xquic_msg_queue.h` as functions on a record: nodes by their address,
head, tail, count. `StreamIO` puts messages into that list
(`client_long_send`), takes them out (`BeginRequests`, `SendNext`, `EndRequests`, or
`SendShort`), and calls the same functions when a stream becomes writable
(`WriteNotify`). `HeaderResults`, `BodyResults` and `hq_content` are the results a send function can have,
given that the engine takes all of what it is offered, a part, nothing, or refuses.
`Peer` makes a response arrive, `ReadNotify` reports it, `CloseNotify` frees the stream
object, `free_ctx` ends it all. Four configurations run: H3 or HQ with and without
`finish_flag`, long or short.

Assumed of the engine: it calls back from the loop only, never inside a send
function; a peer answers a stream only after something was sent on it. Assumed of the
application: `recv_body_max_len` exceeds the 4096 bytes of the receive buffer, a JSON
message has headers.

### EvLoop, EvTimers

`EvLoop` has one action per access to a shared variable in `ev_async_send`
(`SetSent` to `WriteByte`), since its two flags are not protected by a lock, and one
per phase of `ev_run` on the loop's side (`fd_reify`, `Decide`, `PollReturns`, `CheckSkipped`,
`InvokePipe`, `PipeClear`, `PipeAsync`, `PipeScan`, `InvokeAsync`, `InvokeSocket`). The
callbacks stop and start the watcher of the socket and close and reopen its
descriptor, so that `anfds`, `fdchanges`, the generation counters and the epoll set come
apart and together again. The memory fences are taken to do what they are for:
accesses are sequentially consistent.

`EvTimers` is the 4-heap with cached times and back pointers. The loops of `upheap`,
`downheap` and `timers_reify` are functions of the number of turns made: `RiseTurn`, `SinkTurn`
and `ExpireTurn` are one turn each, a turn of a loop that is over changes nothing, and there are
as many turns as the loop can need. `ev_timer_start`, `_stop`, `_again` and `TimersTurn`
(`timers_reify`) are the actions, `ev_invoke_pending` calls one callback at a time. Times are
integers and `ev_rt_now` never goes back. `MCEvTimers` lets one unused watcher stand for
all of them (`SomeTimersSpec`); the theorems are about `TimersSpec`, which does not.

### CJsonHeap, CJsonText, CJson

Items are records on a heap, with `next`, `prev`, `child` and the flags
`IsReference` and `StringIsConst`; a heap also counts the strings that are allocated and the
allocations malloc is still going to grant, so every operation meets a failure at
every point. `CJsonText` prints and parses texts as sequences of bytes, with the sizes
`ensure` asks for, a flag for a write behind the buffer and the allocations the printer
is still granted. `CJson` is an application that deletes and gives away only what it
holds. An item also remembers whether its name really is a constant of the
application (`isConst`), which the code does not know: `FreeName` sets `wild`, and the model
stops, when such a name is freed for want of the mark.

Limits: numbers are integers; no search by case among items without names; texts
stay below half of `IntMax`, so `ensure`'s clamp at INT_MAX is never taken; the
unterminated strings and comments `cJSON_Minify` would read past are left out. `Forest`
lets a new child stand at any index: where `cJSON_InsertItemInArray` puts it is not checked.

## 3. Runs

| run | instance | states, time | shows |
|---|---|---|---|
| `long_safety` | 2 callers, 4 calls, early calls, fair | 519 000, 45 s | no object is used after its end, no lost wakeup, no silent loss, `LossyFifo`, an undisturbed close releases the context |
| `long_close_lost` | 1 caller, 2 calls, fair | 10 000, 2 s | violated: `close()` may never be answered |
| `disp_safety` | 4 calls for 3 urls, limits 2 and 1, 1 cancellation, fair | 291 000, 105 s | limits, no leaked slot, no stranded call, each launched once, the queue moves |
| `disp_assert` | 3 calls, 2 users | - | violated: `finished` can throw its `AssertionError` |
| `short_call` | 2 cancelling threads, 2 cancellations, fair | 87 000, 20 s | lifetimes, answers and their number, the end of a closing connection |
| `ws_safety` | 2 application threads, 2 calls, 1 upcall, 2 pings, fair | 641 000, 135 s | who can wait for whom, what can be lost, where a native call may crash, `LossyFifo`, what a close frame the writer got hold of leads to |
| `reuse` | 3 calls for 2 authorities, no idle connection; all faults and 1 cancellation among 2 of them | 254 000, 45 s | bound and uniqueness of pooled connections, no forgotten call, the kinds of deadlock |
| `setup` | 2 calls to 1 server, SHORT over H3 and LONG over HQ | 1 270 000, 125 s | nothing misused, everything released, only sound tickets offered |
| `stream` | 2 messages, one of two units and one empty | 1 294 000, 50 s | order on both ways, the list, owners of buffers, freed headers |
| `loop` | 2 senders, 1 async watcher, 3 signals, 1 event of the socket, fair | 460 000, 65 s | no sleep over a signal, kernel in step, no stale callback, `Wakeup` |
| `timers` | 6 timers, delays 0 and 1, times to 2, 7 operations | 610 000, 55 s | `TimerService` |
| `json` | 4 items of up to 4, 2 held, 4 allocations, nesting 3 | 25 000, 115 s | ownership and links, print and parse, buffers, sample texts, `Forest` |

**Bounds.** They bound what an application or the environment does, never what the
code does in answer.

* `long_safety`: four calls are a message, a ping, a cancel and one more, in any order
  around a close notification, which writes the same slot; with two callers they
  overlap.
* `disp_safety`: two calls for one url and two for others, with two slots and one per
  url, make either limit the one that binds and leave a call behind a blocked one.
* `short_call`: two cancelling threads, the looper and the worker give every pair of
  cancellations; the slot holds one command, so a third adds nothing.
* `ws_safety`: two messages, a message and a close, or two closes, of one thread or
  of two at once, around one upcall; the second ping is the first that can notice a
  changed network. The safety properties are proved for any number of each.
* `reuse`: two calls share an authority and a third evicts their connection;
  `MaxIdle = 0` makes the pool as small as it can be. The constraint
  `ThirdCallOrFailure` bounds the run. It leaves the third call where it begins once
  a socket failed or a call was cancelled, since two calls on one connection are the
  sender and the one that is told; and it lets the third connection open or fail
  only while one of the others has not begun, since two connections are the one
  that ends and the one it evicts. The theorems have all of it at once.
* `setup`: tickets of length 1 and 3 with limits 2 and 3 fit, or do not; a second
  call is what reads a first one's tickets.
* `stream`: a body of two units is the shortest that can be sent in part; a second
  message is what a kept HQ stream, or a kept header, meets. `MaxSent` 3 allows one
  resumption of each kind, `MaxRecv` 2 fills the report buffer with the second unit.
* `loop`: three signals of two senders cover one in every window of the loop's turn; one
  event of the socket closes, reopens or rearms it.
* `timers`: six timers make the second level of a 4-heap, where a replacement can
  have to go up as well as down.
* `json`: four items are a container, its middle child and both ends. `IntMax` is 300 so
  that saturation happens; `NestingLimit` 3 so that the limit does.

**Symmetry** is used in `reuse`, `setup` and `json`, which check no liveness.

**Fairness.** Threads are scheduled (weak fairness of their steps; no application
has to make a call, no peer has to answer, no network has to change). A
connection that is being closed is released by the engine when its draining
period is over; nothing is assumed about a connection nobody closes. In
`ShortCall`, serving a wakeup, the expiry of the idle timer and the release are
*strongly* fair: the worker does one thing at a time, so socket events disable
them again and again, while libev looks at every expired timer and pending
wakeup in each iteration. In `Dispatcher` every execution ends. In `EvLoop` the loop's
thread and each sender run; epoll never has to time out for a signal to be
answered.

**Deadlock** is not checked: the modelled objects come to an end, and a short call
whose connect failed, or whose DESTROY was overwritten, really stays in its
loop (`setup`). The deadlocks among locks are the subject of `OnlyTwoInversions` and
`StuckOnlyWhenDying`.

**Findings.** The two violated runs are disagreements between the code and what it
says of itself, quoted in `PROJECT.json`.

* `long_close_lost`: the reset of the slot erases a CANCEL written after the switch,
  or the CANCEL replaces a DESTROY, or a refused request has already made
  `active` -1.
* `disp_assert`: two finishers of one call (its worker and a cancellation) both
  pass the lookup; the second finds the call gone.

The properties that hold name the limits of what can be promised, and these are
worth knowing:

* A ping replaces an unserved SEND_DATA; the message stays queued until the next
  send (`LossIsReported` counts it as queued).
* A cancelled call gives back its slot while its worker still executes, so
  the limits bound slots and not native calls. A cancelled short call may run
  for ever when its connect failed silently or CANCEL came over DESTROY.
* A short call may be answered twice, once by its worker and once by the timeout:
  the DNS failure does not remove the timeout, and the timeout handler does
  not ask (`EndsBounded`). The read timeout is removed by the first chunk of a body.
* The writer of a web socket and an upcall under the native mutex can wait for
  each other, and the ping task and an error upcall can (`OnlyTwoInversions`).
* A close frame does not end the connection if its CANCEL, which is written without
  the mutex (`xquic_client_long.c:1078`), is overwritten by INIT_TASK (`:898`) or erased by the
  reset (`:855`), or if a command written before it overwrote DESTROY (`CloseFrameEnds`).
* A thread that tells a listener the failure of a web socket has the socket's monitor
  and wants the connection's (`XRealWebSocket.kt:364`, `:404`, `XConnection.kt:112`); a call in
  `XConnection.send` (`:127`) has the connection's and wants the socket's: both wait for
  ever (`StuckOnlyWhenDying`).
* A message that does not fit `byteBuffer` is logged and lost; one behind a close
  frame is dropped (`SendsAccounted`).
* On H3 an empty FIN that comes alone is never reported: the return for a
  notification without a body (`xquic_h3_callbacks.c:174`) comes before the look at
  `EMPTY_FIN` (`:217-219`).
* Requests resumed after `EAGAIN` give the engine their headers once more, read those
  of a message that was freed, and a BYTE message inherits those of a JSON one
  (`HeadersWindow`). What the engine does with headers sent twice is its affair.
* On the HQ stream that is kept a message of which the engine takes a part is cut, or
  sent anew when the stream becomes writable: only that no rest follows another
  message is promised there (`SentInOrder`).
* `cJSON_AddItemToObject` without memory for the name takes the mark off a constant name
  that stays (`cJSON.c:1877`, and `:1889-1892` returns before there is a new one), and the
  constant may be freed later (`:221-224`): the exception of `HeapSound`.
* `cleanUp` closes an evicted connection with the pool's monitor held
  (`XConnectionPool.kt:56-57`, `StuckOnlyWhenDying`), and gives up at a destroyed one (`:38-40`).
* `onOpen` drains the cached messages outside the lock under which they are cached
  (`XConnection.kt:138-141`, `:86-89`): a message may stay behind, and only the
  connection's end answers it. A request without a body ends in
  `body!!` (`XAsyncCallReuse.kt:60`); the first chunk of a response ends a reused call
  (`XConnection.kt:96-97`); its DNS failure keeps its slot of the dispatcher.
* The global reference of a call that ends without DESTROY, and the `user_conn` of a
  socket that could not be made, are lost (`NothingLeft`).

## 4. Proofs

All theorems hold for any sets of threads and calls and any bounds; they use
only the assumptions named in the modules (`LongClientAssumption`,
`DispatcherAssumption`, `ShortCallAssumption`, `WebSocketAssumption`, `EvLoopAssumption`,
`EvTimersAssumption`, `CallSetupAssumption`, `MsgQueueAssumption`, `StreamIOAssumption`,
`ReusePoolAssumption`), which say that bounds and delays are numbers, that threads, calls and
timers are not confused with each other or with "none", that calls of the dispatcher and
watchers of the loop are finitely many, and that the report buffer is larger than the receive buffer. Every
safety invariant a run checks is a theorem, but those of `CJson`.

* `LongClientProofs`. `TypeCorrect` stands alone. `Lifetime` is the inductive
  invariant `LifeInv`: `ConnBacked` is not inductive, since it needs to know that no
  DESTROY is served while the connection lives, which depends on where the loop
  thread is, what is in the slot and where it goes next (`Stages`, `Slot`,
  `Callable`). From it follow `UserConnOutlivesUsers`, `CrashOnlyInWindow`,
  `DestroyDelivered` and `SilentAfterDestroy`, and with them `NoneUsedAfterItsEnd`, the
  property of the run. `CommandsAnnounced` (no lost
  wakeup) has its own induction. `SendSideIsFifo` is the refinement: Init maps
  to Init, and every step to a step of `LossyFifo` or to a stutter.
  `NoSilentLoss` follows the messages by their numbers.
* `DispatcherProofs`. `NoCallStranded`: a step that frees room leaves its thread
  about to promote, a promotion leaves no call there is room for.
  `SlotsAreHeld` and `CallsStartOnce` need that a call is in the hands of at most
  one thread (`Owned`). `WithinLimits` is about `Picked`: the last call a
  promotion picked, the one with the largest ticket, saw all the others and
  still found room (`LastCall`, by well-founded minimum); `Ticketed` makes the
  tickets distinct. `SlotsAreSound` joins them.
* `ShortCallProofs`. `CallInvariant` is the inductive invariant: `Stages` ties the
  worker's stage to user_conn, connection, timer and `destroyed`; `Passed` follows a
  context a cancellation has seen; `Told` ties `isCallback` to what the application
  heard; `Budget` counts the answers given against those still possible
  (`MayAnswer`, `MayTimeOut`). The invariants of the run are corollaries.
* `WebSocketProofs`. `LockInv` says which thread does what where and holds which lock
  (`Roles`, `Places`, `Locks`); `LocksOrdered` is a case analysis on it. `CtxInv`
  adds what a native call knows of `clientCtx` (`CrashOnlyInWindow`). `NoSendIsForgotten` is two
  inductions: frames against the jobs, submitters and writers that will poll
  them (`BackedStep`), and the numbers of accepted messages against the elements
  of the two queues (`ExplainedStep`); both need `Early`, that a shut-down executor
  leaves no frame and that nothing is accepted before the context exists.
  `SocketIsFifo` is the refinement: the abstract queue is what `MessagesOf` picks out of
  the frames, and the proof needs what this function makes of one more frame and
  of one less (`MessagesAppend`, `MessagesTail`), and that the writer between its look at a
  frame and `client_long_send` still has that message, no close frame, in front (`AtMessage`).
* `EvLoopProofs`. `SignalsAreFlagged` and `FlagsAreAnnounced` follow a signal from the sender to
  the byte in the pipe (`FlagInv`), and `NoSleep` needs in addition
  what the loop read after it had announced that it wants the byte. `KernelInv` relates
  the epoll set to `anfds`, `fdchanges` and the open descriptors; `PendingInv` the
  pending lists to the active watchers. The refinement to `Wakeup` is proved step by step.
  The second half is about the timers. `TimersInv` says that heap, positions and times fit
  together (`Holds`), that no entry is later than its children (`Ordered`), and that pending watchers
  know their places (`PlacesInv`). Inside a loop neither holds: there is a hole,
  and with the entry that looks for its place put into the hole the heap is right but
  for that entry (`Fitted`; `RiseOrder` above it, `SinkOrder` below it, and
  `Bridged`: its children are not earlier than its parent, or a turn would break what
  is below). `LoopEnds` is proved once for any loop whose turns keep a set of states
  and lower a measure: the position for `upheap`, the distance to the end for `downheap`,
  the number of timers still to expire for `timers_reify`. The third loop keeps `FedOK`:
  what was taken is over, in the order of the times at the beginning, earlier than
  what is left, and not over again. With `RootIsEarliest`
  this gives `ExpiredFacts`, the turn of the service; what is left of the list when a watcher is
  stopped is `DroppedFromList`. Both `TimersInvariant` and `TimersImplementService` follow
  from `TimersStep`. TLC checks the same refinement on six timers.
* `CallSetupProofs`. The inductive invariant `SetupInv` says for every place of a call
  what it holds and what it does not (`Has`, `HasNot`), what its pointers name
  (`Points`), and what may be watched (`Watching`). The properties alone are not inductive: that a
  step behind a `fail:` label frees nothing twice depends on which pointers the
  failed step left NULL, which depends on the place it failed at. With it
  `NothingIsMisused`, `WatchersAreBacked` and `NothingIsLeft` are corollaries.
  `OffersAreSound` follows tickets from a connection through the cache (`CacheInv`)
  and the arguments (`ArgsSound`) into the next offer (`OfferInv`).
* `StreamIOProofs`. If the nodes reached from the head spell a sequence, `queue_put`
  appends to it and `queue_get` takes its first element (`PutAppends`, `GetTakesTheFirst`):
  the invariant is that the addresses are distinct and the last one is the
  tail. `BaseInv` adds that the list spells the last messages by number
  (`ListInv`), that a message not freed is in it unless sending was given up (`HeldInv`), that open
  streams and stream objects name each other (`UsersInv`), and that reported and
  kept units together are what was read (`RecvInv`); `NothingIsLost` and `ReportsAreInOrder`
  follow. `SentInv` ties what is on a stream to its object: on a stream of its own
  a message has a beginning as long as the object's offset (`OneBody`, `SentBy`); on
  the HQ stream that is kept, where a message may be cut, every unit follows the last one
  or begins a message that is not older (`Chained`), because an object's message is among those
  `Taken` from the list and the list goes on with the next number.
  `HeadersAreOfTheMessage` is an action property, proved from `BaseInv` and `HeadInv`.
* `ReusePoolProofs`. `BaseInv` says what stacks of frames there are (`Shape`: what calls
  what), what the place of a frame says of its connection (`FrameOk`, `ConnInv`), and that
  no lock has two holders (`LockInv`). `NobodyIsForgotten` needs `TellInv`: an unanswered call is
  registered or about to be, and the loop thread of an ended connection is on its
  way to tell what is registered there. `PoolIsSound` needs what the one thread in the
  block on `TAG` has learnt at each place (`PoolInv`): `get` found none of its authority, *and*
  it either left no destroyed connection behind or there is room anyway (`RoomToMake`), so that
  `cleanUp` does not give up. `OnlyTheDyingAreStuck` follows from `BaseInv`. A set of
  threads that wait for each other is a `Knot` if none of them waits for the native
  mutex or in an error upcall; the other sets are of the two kinds `WebSocket` has as well.
  In a knot who holds a socket's monitor has told its listener (`SockHolder`), so if one
  holds the pool's it is in `release` or `close` of a connection that comes to its end
  (`PoolHolder`). If none does, the shape of the frames leaves little (`NoPoolFacts`): the socket's
  monitor is held by a thread in `release` (`SockHeld`), which waits for the connection's,
  which is held by one in `offer` (`ConnHeld`), which waits for the socket's (`SockKnot`).

Recursion over data is written as recursive functions where something is to be
proved of it (`Walk`, `Bodies`, `Kept`, `Only`, `MessagesOf`, the loops of the timers). For each the
proofs show that the function exists, place by place, and what it does, by induction
over the natural numbers with a set in the place of the predicate (`SetInduction`, from
the library's well-founded minimum).

Only model-checked:

* liveness (`UndisturbedCloseReleases`, `QueueMoves`, `ClosingEnds`, `CloseFrameEnds`,
  `SignalsHandled`), which the prover does not handle;
* the properties of `CJson*`: trees, printer and parser are RECURSIVE operators, which the
  prover does not take.

## 5. Not modelled

* Watcher kinds the program never starts (signal, child, stat, idle, prepare, check,
  fork, embed, periodic), the backends it never runs on (select, poll, `io_uring`, linuxaio),
  and the C++ wrapper `ev++.h`: half of libev, and unreachable from the library.
* The xquic engine: only its headers are in the repository. What the library
  relies on is in the environment actions of each module, named there.
* cJSON's hooks, locale, fractions and exponents, and its one-line predicates.
* `cancel(tag)` and `cancelAll` of the dispatcher: they iterate over deques which their
  own callees change, and what the iterator then does is the JDK's affair.
* `queueSize` of a web socket (it grows by characters and shrinks by bytes, so it drifts),
  logging, key log, certificate checks, the parsing of URLs and addresses, builders
  and constants, the loops of `read` and `write` on the socket, the demo application.

Worth doing next: cJSON's trees as functions of their depth, so that ownership and links
(`HeapSound`) can be proved for any number of items.
