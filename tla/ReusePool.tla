------------------------------ MODULE ReusePool ------------------------------
(***************************************************************************)
(* Reused calls: XAsyncCallReuse, the XConnection it sends on and the      *)
(* XConnectionPool that keeps the connections, over web sockets that open, *)
(* answer, are closed and end.                                             *)
(*                                                                         *)
(* A connection is named by the call that makes it.  Every call has a      *)
(* worker and, if it makes a connection, the two threads of that           *)
(* connection's web socket: the loop thread and the writer, which also     *)
(* runs the ping task.  Methods call each other with their monitors held:  *)
(* a thread is a stack of frames, and the locks it holds follow from its   *)
(* frames, so that monitors are reentrant.                                 *)
(*                                                                         *)
(* XRealWebSocket is WebSocket with less of the native side: a listener is *)
(* told of a failure by any thread that finds the socket unusable or a     *)
(* request it cannot hand over.  Between two frames the writer gives its   *)
(* monitor back here, which the code does not, and frames have no order.   *)
(* Left out: the limits on the queue and on the size of a message, and     *)
(* what an ArrayDeque does when two threads change it at once; the pool    *)
(* never reads idleAtNanos of a destroyed connection.                      *)
(***************************************************************************)
EXTENDS Integers, Sequences, SequencesExt, FiniteSets, SeqFilter

CONSTANTS
  Calls,           \* the reused calls the dispatcher executes
  None,            \* no call and no connection
  authority,       \* authority[c]: what isEligible compares
  MaxIdle,         \* maxIdleConnections
  Faulty,          \* connections whose network, socket and requests may fail
  MaxCancels       \* bound on the number of cancellations

ASSUME ReusePoolAssumption ==
  /\ None \notin Calls /\ MaxIdle \in Nat
  /\ MaxCancels \in Nat /\ Faulty \subseteq Calls

VARIABLES
  stack,           \* the frames of each thread, the innermost first
  pool,            \* connections of the pool
  connection,      \* connection[c]: the connection of a call
  xWebSocket,      \* xWebSocket[k] is set
  isDestroy,       \* isDestroy[k]
  responded,       \* connections with a response, in the order of idleAtNanos
  xCallBackMap,    \* the calls with a callback in k
  messageQueue,    \* the calls whose message waits for onOpen
  queued,          \* the calls whose message waits for the writer
  sent,            \* the calls whose request the native side took
  loop,            \* where the connect task of the web socket is
  closeQueued,     \* a close frame waits for the writer
  shut,            \* enqueuedClose of the web socket
  inactive,        \* a request was refused: ctx->active is -1
  isCallback,      \* isCallback of the web socket
  answered,        \* calls the application got an answer to
  canceled,        \* calls that were cancelled or timed out
  thrown           \* threads that met an exception

conns == <<xWebSocket, isDestroy, responded, xCallBackMap, messageQueue>>
socks == <<queued, sent, loop, closeQueued, shut, inactive, isCallback>>
ends  == <<answered, canceled, thrown>>
vars  == <<stack, pool, connection, conns, socks, ends>>

Threads == Calls \X {"worker", "loop", "writer"}
Worker(c) == <<c, "worker">>
Loop(k) == <<k, "loop">>
Writer(k) == <<k, "writer">>

Places == {"start", "get", "got", "put", "add", "send", "cache", "sending", "offer",
           "offered", "close", "closing", "told", "release", "unpool", "unpooled",
           "cancel", "drain", "native", "net", "refused", "destroy", "error", "serve"}

TypeOK ==
  /\ stack \in [Threads -> Seq([at : Places, on : Calls \cup {None}])]
  /\ pool \in Seq(Calls) /\ IsInjective(pool)
  /\ connection \in [Calls -> Calls \cup {None}]
  /\ xWebSocket \in [Calls -> BOOLEAN] /\ isDestroy \in [Calls -> BOOLEAN]
  /\ responded \in Seq(Calls)
  /\ xCallBackMap \in [Calls -> SUBSET Calls]
  /\ queued \in [Calls -> SUBSET Calls] /\ sent \in [Calls -> SUBSET Calls]
  /\ messageQueue \in [Calls -> Seq(Calls)]
  /\ loop \in [Calls -> {"none", "connecting", "open", "down", "ended"}]
  /\ closeQueued \in [Calls -> BOOLEAN] /\ shut \in [Calls -> BOOLEAN]
  /\ inactive \in [Calls -> BOOLEAN] /\ isCallback \in [Calls -> BOOLEAN]
  /\ answered \in SUBSET Calls /\ canceled \in SUBSET Calls
  /\ thrown \in SUBSET Threads

Init ==
  /\ stack = [t \in Threads |->
                IF t[2] = "worker" THEN <<[at |-> "start", on |-> None]>> ELSE <<>>]
  /\ pool = <<>> /\ connection = [c \in Calls |-> None]
  /\ xWebSocket = [k \in Calls |-> FALSE] /\ isDestroy = [k \in Calls |-> FALSE]
  /\ responded = <<>>
  /\ xCallBackMap = [k \in Calls |-> {}] /\ messageQueue = [k \in Calls |-> <<>>]
  /\ queued = [k \in Calls |-> {}] /\ sent = [k \in Calls |-> {}]
  /\ loop = [k \in Calls |-> "none"]
  /\ closeQueued = [k \in Calls |-> FALSE] /\ shut = [k \in Calls |-> FALSE]
  /\ inactive = [k \in Calls |-> FALSE] /\ isCallback = [k \in Calls |-> FALSE]
  /\ answered = {} /\ canceled = {} /\ thrown = {}

-----------------------------------------------------------------------------
(* Locks and frames.                                                        *)

TAG == <<"TAG">>
Pool == <<"pool">>
Conn(k) == <<"connection", k>>      \* the monitor of an XConnection
Sock(k) == <<"socket", k>>          \* the monitor of its XRealWebSocket
SockTAG == <<"socket TAG">>         \* TAG of XRealWebSocket
Mutex == <<"mutex">>                \* the native mutex of all contexts

\* The locks a frame holds.
Held(f) ==
  CASE f.at \in {"get", "got", "put"}       -> {TAG}
    [] f.at = "add"                         -> {TAG, Pool}
    [] f.at \in {"cache", "sending", "unpool"} -> {Conn(f.on)}
    [] f.at = "unpooled"                    -> {Conn(f.on), Pool}
    [] f.at \in {"offered", "closing", "told", "drain", "native", "error"} -> {Sock(f.on)}
    [] f.at = "net"                         -> {SockTAG}
    [] f.at \in {"refused", "destroy", "serve"} -> {Mutex}
    [] OTHER                                -> {}

\* Mutant of Wanted: onOpen drains the queue in a block on the connection.
WantedInDrain(f) ==
  CASE f.at = "start"                       -> {TAG}
    [] f.at \in {"get", "put", "unpool"}    -> {Pool}
    [] f.at \in {"send", "release", "cancel", "drain"} -> {Conn(f.on)}
    [] f.at \in {"offer", "close", "refused", "destroy"} -> {Sock(f.on)}
    [] f.at = "error"                       -> {SockTAG}
    [] f.at = "native"                      -> {Mutex}
    [] OTHER                                -> {}

\* The lock a frame is waiting for.
Wanted(f) ==
  CASE f.at = "start"                       -> {TAG}
    [] f.at \in {"get", "put", "unpool"}    -> {Pool}
    [] f.at \in {"send", "release", "cancel"} -> {Conn(f.on)}
    [] f.at \in {"offer", "close", "refused", "destroy"} -> {Sock(f.on)}
    [] f.at = "error"                       -> {SockTAG}
    [] f.at = "native"                      -> {Mutex}
    [] OTHER                                -> {}

Holds(t, l) == \E i \in DOMAIN stack[t] : l \in Held(stack[t][i])
Busy == {t \in Threads : stack[t] # <<>>}
Free(t, l) == \A u \in Busy \ {t} : ~Holds(u, l)

Frame(at, on) == [at |-> at, on |-> on]

\* t is at a place and gets the lock it needs there.
At(t, place) ==
  /\ stack[t] # <<>> /\ Head(stack[t]).at = place
  /\ \A l \in Wanted(Head(stack[t])) : Free(t, l)
On(t) == Head(stack[t]).on

\* The frame of t is followed by others.
Becomes(t, frames) == stack' = [stack EXCEPT ![t] = frames \o Tail(@)]

\* A method returns, and with it the ones that have nothing left to do.
Return(t) ==
  LET rest == Tail(stack[t])
      i == SelectInSeq(rest, LAMBDA f : f.at \notin {"sending", "told", "serve"})
  IN stack' = [stack EXCEPT ![t] = IF i = 0 THEN <<>> ELSE SubSeq(rest, i, Len(rest))]

-----------------------------------------------------------------------------
(* XConnectionPool.                                                         *)

\* connections.remove.
Delete(P, k) == Only(P, Calls \ {k})

\* The connection that has been idle longest, in the order of idleAtNanos.
\* Before its first response a connection counts as idle since the far future
\* (Long.MAX_VALUE); of several like that it is the first.
Longest(P) ==
  LET i == SelectInSeq(responded, LAMBDA k : Contains(P, k)) IN
  IF i # 0 THEN responded[i] ELSE IF P = <<>> THEN None ELSE Head(P)

FirstDestroyed(P) == SelectInSeq(P, LAMBDA k : isDestroy[k])

\* What cleanUp may make of the connections P.  A destroyed one makes it remove
\* the longest idle one before it in its place, and give up.  Otherwise the
\* longest idle one is evicted if there are too many, or if its last response
\* is long ago.
cleanUp(P) ==
  LET d == FirstDestroyed(P)
      longest == Longest(P)
      kept == [rest |-> P, evicted |-> None]
      evicts == [rest |-> Delete(P, longest), evicted |-> longest]
  IN
  IF d # 0 THEN {[kept EXCEPT !.rest = Delete(P, Longest(SubSeq(P, 1, d - 1)))]}
  ELSE IF Len(P) > MaxIdle THEN {evicts}
  ELSE IF Contains(responded, longest) THEN {kept, evicts}
  ELSE {kept}

\* The evicted connection is closed with the pool's monitor held; one that is
\* not open has no web socket to close.
Closing(k) == IF k # None /\ xWebSocket[k] THEN <<Frame("close", k)>> ELSE <<>>

\* get walks the connections, removes destroyed ones, stops at an eligible one.
Eligible(c, k) == authority[k] = authority[c] /\ ~isDestroy[k]
Get(c) ==
  LET t == Worker(c)
      i == SelectInSeq(pool, LAMBDA k : Eligible(c, k))
      n == IF i = 0 THEN Len(pool) ELSE i
  IN
  /\ At(t, "get")
  /\ pool' = Only(SubSeq(pool, 1, n), {k \in Calls : ~isDestroy[k]})
             \o SubSeq(pool, n + 1, Len(pool))
  /\ connection' = [connection EXCEPT ![c] = IF i = 0 THEN None ELSE pool[i]]
  /\ Becomes(t, <<Frame("got", None)>>)
  /\ UNCHANGED <<conns, socks, ends>>

\* put: cleanUp, with the close of what it evicts, then add.
Put(c) ==
  LET t == Worker(c) IN
  /\ At(t, "put")
  /\ \E r \in cleanUp(pool) :
       IF Closing(r.evicted) = <<>>
       THEN pool' = Append(r.rest, c) /\ Return(t)
       ELSE pool' = r.rest /\ Becomes(t, Closing(r.evicted) \o <<Frame("add", c)>>)
  /\ UNCHANGED <<connection, conns, socks, ends>>

\* The rest of put, after the close.
Add(c) ==
  /\ At(Worker(c), "add")
  /\ pool' = Append(pool, c)
  /\ Return(Worker(c))
  /\ UNCHANGED <<connection, conns, socks, ends>>

-----------------------------------------------------------------------------
(* XAsyncCallReuse.execute.                                                 *)

\* The DNS fails: the application is told, but finish() is not called.
DnsFails(c) ==
  /\ stack[Worker(c)] # <<>> /\ Head(stack[Worker(c)]).at = "start"
  /\ answered' = answered \cup {c}
  /\ Return(Worker(c))
  /\ UNCHANGED <<pool, connection, conns, socks, canceled, thrown>>

\* Mutant of EnterTag: there is no synchronized(TAG).
EnterTagFreely(c) ==
  /\ stack[Worker(c)] # <<>> /\ Head(stack[Worker(c)]).at = "start"
  /\ Becomes(Worker(c), <<Frame("get", None)>>)
  /\ UNCHANGED <<pool, connection, conns, socks, ends>>

EnterTag(c) ==
  /\ At(Worker(c), "start")
  /\ Becomes(Worker(c), <<Frame("get", None)>>)
  /\ UNCHANGED <<pool, connection, conns, socks, ends>>

\* A connection was found: the block on TAG ends, and the message is sent.
Found(c) ==
  LET k == connection[c] IN
  /\ At(Worker(c), "got") /\ k # None /\ ~isDestroy[k]
  /\ Becomes(Worker(c), <<Frame("send", k)>>)
  /\ UNCHANGED <<pool, connection, conns, socks, ends>>

\* A request without a body (XRequest.Builder.get()) throws instead, and the
\* catch block cancels and finishes the call without a word to the application.
FoundBodiless(c) ==
  LET k == connection[c] IN
  /\ At(Worker(c), "got") /\ k # None /\ ~isDestroy[k]
  /\ Becomes(Worker(c), <<Frame("cancel", k)>>)
  /\ thrown' = thrown \cup {Worker(c)}
  /\ UNCHANGED <<pool, connection, conns, socks, answered, canceled>>

\* XConnection's constructor: the callback is registered, and a web socket
\* begins to connect, which sends the first request itself.
Create(c) ==
  /\ At(Worker(c), "got")
  /\ connection[c] # None => isDestroy[connection[c]]
  /\ connection' = [connection EXCEPT ![c] = c]
  /\ xCallBackMap' = [xCallBackMap EXCEPT ![c] = {c}]
  /\ loop' = [loop EXCEPT ![c] = "connecting"]
  /\ Becomes(Worker(c), <<Frame("put", None)>>)
  /\ UNCHANGED <<pool, xWebSocket, isDestroy, responded, messageQueue, queued, sent,
                 closeQueued, shut, inactive, isCallback, ends>>

-----------------------------------------------------------------------------
(* XConnection.send, and the methods of XRealWebSocket it leads to.         *)

SendRefused(c) ==
  /\ At(Worker(c), "send") /\ isDestroy[On(Worker(c))]
  /\ answered' = answered \cup {c}
  /\ Return(Worker(c))
  /\ UNCHANGED <<pool, connection, conns, socks, canceled, thrown>>

\* The callback is registered; xWebSocket decides where the message goes.
Send(c) ==
  LET t == Worker(c) k == On(t) IN
  /\ At(t, "send") /\ ~isDestroy[k]
  /\ xCallBackMap' = [xCallBackMap EXCEPT ![k] = @ \cup {c}]
  /\ Becomes(t, IF xWebSocket[k] THEN <<Frame("offer", k), Frame("sending", k)>>
                                 ELSE <<Frame("cache", k)>>)
  /\ UNCHANGED <<pool, connection, xWebSocket, isDestroy, responded, messageQueue, socks,
                 ends>>

\* messageQueue.add: meanwhile onOpen may have set xWebSocket and drained it.
Cache(c) ==
  LET t == Worker(c) k == On(t) IN
  /\ At(t, "cache")
  /\ messageQueue' = [messageQueue EXCEPT ![k] = Append(@, c)]
  /\ Return(t)
  /\ UNCHANGED <<pool, connection, xWebSocket, isDestroy, responded, xCallBackMap, socks,
                 ends>>

Usable(k) == loop[k] \in {"connecting", "open"} /\ ~shut[k]

\* check() finds the web socket unusable: its listener releases the connection.
Offer(t) ==
  LET k == On(t) IN
  /\ At(t, "offer")
  /\ Becomes(t, IF Usable(k) THEN <<Frame("offered", k)>>
                ELSE <<Frame("release", k), Frame("told", k)>>)
  /\ UNCHANGED <<pool, connection, conns, socks, ends>>

\* close(): nothing after a close frame was served; else a close frame is
\* queued, and runWriter checks.
Close(t) ==
  LET k == On(t) IN
  /\ At(t, "close")
  /\ CASE shut[k]  -> Return(t)
       [] Usable(k) -> Becomes(t, <<Frame("closing", k)>>)
       [] OTHER    -> Becomes(t, <<Frame("release", k), Frame("told", k)>>)
  /\ UNCHANGED <<pool, connection, conns, socks, ends>>

\* RejectedExecutionException leaves all methods of the thread; execute catches
\* it, cancels the call and finishes it without a word to the application.
Throw(t) ==
  /\ thrown' = thrown \cup {t}
  /\ stack' = [stack EXCEPT ![t] =
                 IF t[2] = "worker" THEN <<Frame("cancel", connection[t[1]])>> ELSE <<>>]

\* executor.execute: the connect task may have shut it down since the check.
Submit(t) ==
  LET k == On(t) IN
  /\ At(t, "offered") \/ At(t, "closing")
  /\ \/ /\ loop[k] # "ended"
        /\ IF Head(stack[t]).at = "offered"
           THEN /\ queued' = [queued EXCEPT ![k] = @ \cup {t[1]}]
                /\ UNCHANGED closeQueued
           ELSE /\ closeQueued' = [closeQueued EXCEPT ![k] = TRUE]
                /\ UNCHANGED queued
        /\ Return(t)
        /\ UNCHANGED thrown
     \/ /\ loop[k] \in {"down", "ended"}
        /\ Throw(t)
        /\ UNCHANGED <<queued, closeQueued>>
  /\ UNCHANGED <<pool, connection, conns, sent, loop, shut, inactive, isCallback, answered,
                 canceled>>

-----------------------------------------------------------------------------
(* callBackAndReleaseData, on the thread that tells the listener.           *)

Release(t) ==
  LET k == On(t) IN
  /\ At(t, "release")
  /\ xWebSocket' = [xWebSocket EXCEPT ![k] = FALSE]
  /\ isDestroy' = [isDestroy EXCEPT ![k] = TRUE]
  /\ Becomes(t, <<Frame("unpool", k)>>)
  /\ UNCHANGED <<pool, connection, responded, xCallBackMap, messageQueue, socks, ends>>

\* Mutant of FailCalls: the map is cleared before it is walked.
FailCallsLate(k) ==
  /\ xCallBackMap' = [xCallBackMap EXCEPT ![k] = {}]
  /\ UNCHANGED answered

\* Every call that still waits on the connection is told its failure.
FailCalls(k) ==
  /\ answered' = answered \cup xCallBackMap[k]
  /\ xCallBackMap' = [xCallBackMap EXCEPT ![k] = {}]

\* XConnectionPool.remove: cleanUp follows, and may close another connection
\* before the calls of this one are told.
Unpool(t) ==
  LET k == On(t) IN
  /\ At(t, "unpool")
  /\ \E r \in cleanUp(Delete(pool, k)) :
       /\ pool' = r.rest
       /\ IF Closing(r.evicted) = <<>>
          THEN FailCalls(k) /\ Return(t)
          ELSE /\ Becomes(t, Closing(r.evicted) \o <<Frame("unpooled", k)>>)
               /\ UNCHANGED <<answered, xCallBackMap>>
  /\ UNCHANGED <<connection, xWebSocket, isDestroy, responded, messageQueue, socks,
                 canceled, thrown>>

Unpooled(t) ==
  /\ At(t, "unpooled")
  /\ FailCalls(On(t))
  /\ Return(t)
  /\ UNCHANGED <<pool, connection, xWebSocket, isDestroy, responded, messageQueue, socks,
                 canceled, thrown>>

-----------------------------------------------------------------------------
(* Cancellation.                                                            *)

\* cancel, by the application or by the read timeout: the callback is forgotten.
\* Without a connection, or once the call has its answer, it changes nothing here.
Cancel(c) ==
  LET k == connection[c] IN
  /\ c \notin canceled \cup answered /\ Cardinality(canceled) < MaxCancels
  /\ k # None /\ \A t \in Busy : ~Holds(t, Conn(k))
  /\ canceled' = canceled \cup {c}
  /\ xCallBackMap' = [xCallBackMap EXCEPT ![k] = @ \ {c}]
  /\ UNCHANGED <<stack, pool, connection, xWebSocket, isDestroy, responded, messageQueue,
                 socks, answered, thrown>>

\* The catch block of execute cancels its call as well.
CancelThrown(c) ==
  LET t == Worker(c) k == On(t) IN
  /\ At(t, "cancel")
  /\ xCallBackMap' = [xCallBackMap EXCEPT ![k] = @ \ {c}]
  /\ Return(t)
  /\ UNCHANGED <<pool, connection, xWebSocket, isDestroy, responded, messageQueue, socks,
                 ends>>

-----------------------------------------------------------------------------
(* The writer of the web socket of a connection.                            *)

\* writerRunnable finds a message: on a closed socket it drops what is queued.
TakeMessage(k) ==
  LET t == Writer(k) IN
  /\ stack[t] = <<>> /\ queued[k] # {} /\ Free(t, Sock(k))
  /\ IF Usable(k)
     THEN /\ stack' = [stack EXCEPT ![t] = <<Frame("native", k)>>]
          /\ UNCHANGED queued
     ELSE /\ queued' = [queued EXCEPT ![k] = {}]
          /\ UNCHANGED stack
  /\ UNCHANGED <<pool, connection, conns, sent, loop, closeQueued, shut, inactive, isCallback,
                 ends>>

\* client_long_send takes the mutex; a context that is gone forgets the request.
HandOver(t) ==
  LET k == On(t) IN
  /\ At(t, "native")
  /\ \E c \in queued[k] :
       /\ queued' = [queued EXCEPT ![k] = @ \ {c}]
       /\ sent' = IF loop[k] \in {"connecting", "open"}
                  THEN [sent EXCEPT ![k] = @ \cup {c}] ELSE sent
  /\ Return(t)
  /\ UNCHANGED <<pool, connection, conns, loop, closeQueued, shut, inactive, isCallback, ends>>

\* sendByte finds the context inactive: the message is lost, and the writer tells
\* the listener with the monitor held.
SendFails(t) ==
  LET k == On(t) IN
  /\ stack[t] # <<>> /\ Head(stack[t]).at = "native" /\ inactive[k]
  /\ \E c \in queued[k] : queued' = [queued EXCEPT ![k] = @ \ {c}]
  /\ Becomes(t, <<Frame("release", k), Frame("told", k)>>)
  /\ UNCHANGED <<pool, connection, conns, sent, loop, closeQueued, shut, inactive, isCallback,
                 ends>>

\* The close frame is served, and what is behind it is dropped.
ServeClose(k) ==
  /\ closeQueued[k] /\ ~shut[k] /\ loop[k] \in {"connecting", "open", "down"}
  /\ stack[Writer(k)] = <<>> /\ Free(Writer(k), Sock(k))
  /\ shut' = [shut EXCEPT ![k] = TRUE]
  /\ queued' = [queued EXCEPT ![k] = {}]
  /\ UNCHANGED <<stack, pool, connection, conns, sent, loop, closeQueued, inactive, isCallback,
                 ends>>

\* PingRunnable finds the network changed, and closes in a block on TAG ...
NetworkChanges(k) ==
  LET t == Writer(k) IN
  /\ stack[t] = <<>> /\ k \in Faulty /\ Usable(k) /\ ~isCallback[k] /\ Free(t, SockTAG)
  /\ stack' = [stack EXCEPT ![t] = <<Frame("close", k), Frame("net", k)>>]
  /\ UNCHANGED <<pool, connection, conns, socks, ends>>

\* ... at whose end it notes that the socket was told.
NetworkTold(t) ==
  /\ At(t, "net")
  /\ isCallback' = [isCallback EXCEPT ![On(t)] = TRUE]
  /\ Return(t)
  /\ UNCHANGED <<pool, connection, conns, queued, sent, loop, closeQueued, shut, inactive,
                 ends>>

-----------------------------------------------------------------------------
(* The loop thread.                                                         *)

Idle(k) == stack[Loop(k)] = <<>>
Runs(k) == loop[k] \in {"connecting", "open"} /\ Idle(k)

\* onOpen, with the web socket's monitor held by the upcall.  The first request
\* is on its way, unless it has no body.
Open(k) ==
  /\ loop[k] = "connecting" /\ Idle(k) /\ Free(Loop(k), Sock(k))
  /\ loop' = [loop EXCEPT ![k] = "open"]
  /\ xWebSocket' = [xWebSocket EXCEPT ![k] = TRUE]
  /\ \E first \in {{}, {k}} : sent' = [sent EXCEPT ![k] = first]
  /\ stack' = [stack EXCEPT ![Loop(k)] = <<Frame("drain", k)>>]
  /\ UNCHANGED <<pool, connection, isDestroy, responded, xCallBackMap, messageQueue,
                 queued, closeQueued, shut, inactive, isCallback, ends>>

\* messageQueue.poll(): the next cached message is sent, or refused by a socket
\* that is closed already; or onOpen ends.
Drain(t) ==
  LET k == On(t) IN
  /\ At(t, "drain")
  /\ IF messageQueue[k] = <<>>
     THEN Return(t) /\ UNCHANGED <<queued, messageQueue>>
     ELSE /\ messageQueue' = [messageQueue EXCEPT ![k] = Tail(@)]
          /\ IF Usable(k)
             THEN /\ queued' = [queued EXCEPT ![k] = @ \cup {Head(messageQueue[k])}]
                  /\ UNCHANGED stack
             ELSE /\ Becomes(t, <<Frame("release", k), Frame("told", k), Frame("drain", k)>>)
                  /\ UNCHANGED queued
  /\ UNCHANGED <<pool, connection, xWebSocket, isDestroy, responded, xCallBackMap, sent, loop,
                 closeQueued, shut, inactive, isCallback, ends>>

\* onMessage: a response, or its first part, ends the call if its callback is
\* still there.
Message(k) ==
  /\ loop[k] = "open" /\ Idle(k) /\ Free(Loop(k), Sock(k))
  /\ \E c \in sent[k] :
       /\ sent' = [sent EXCEPT ![k] = @ \ {c}]
       /\ answered' = answered \cup ({c} \cap xCallBackMap[k])
       /\ xCallBackMap' = [xCallBackMap EXCEPT ![k] = @ \ {c}]
  /\ responded' = Append(Delete(responded, k), k)
  /\ UNCHANGED <<stack, pool, connection, xWebSocket, isDestroy, messageQueue, queued, loop,
                 closeQueued, shut, inactive, isCallback, canceled, thrown>>

\* The engine refuses a request: the error is reported from inside the mutex.
Refuse(k) ==
  /\ Runs(k) /\ k \in Faulty /\ ~inactive[k] /\ Free(Loop(k), Mutex)
  /\ loop[k] = "connecting" \/ sent[k] # {}
  /\ inactive' = [inactive EXCEPT ![k] = TRUE]
  /\ sent' = [sent EXCEPT ![k] = {}]
  /\ stack' = [stack EXCEPT ![Loop(k)] = <<Frame("refused", k)>>]
  /\ UNCHANGED <<pool, connection, conns, queued, loop, closeQueued, shut, isCallback, ends>>

\* callBackData with that error: only the first one closes.
Refused(t) ==
  LET k == On(t) IN
  /\ At(t, "refused")
  /\ IF isCallback[k] THEN Return(t) ELSE Becomes(t, <<Frame("error", k), Frame("serve", k)>>)
  /\ UNCHANGED <<pool, connection, conns, socks, ends>>

\* callBackData after the idle timeout or an error of the socket.
SocketFails(k) ==
  /\ Runs(k) /\ k \in Faulty /\ ~isCallback[k] /\ Free(Loop(k), Sock(k))
  /\ stack' = [stack EXCEPT ![Loop(k)] = <<Frame("error", k)>>]
  /\ UNCHANGED <<pool, connection, conns, socks, ends>>

\* The block on TAG: a close frame is queued, unless one was served.
Error(t) ==
  LET k == On(t) IN
  /\ At(t, "error")
  /\ closeQueued' = [closeQueued EXCEPT ![k] = @ \/ (~isCallback[k] /\ ~shut[k])]
  /\ isCallback' = [isCallback EXCEPT ![k] = TRUE]
  /\ Return(t)
  /\ UNCHANGED <<pool, connection, conns, queued, sent, loop, shut, inactive, ends>>

\* DESTROY: the last upcall is made from inside the mutex ...
Destroy(k) ==
  /\ Runs(k) /\ Free(Loop(k), Mutex)
  /\ stack' = [stack EXCEPT ![Loop(k)] = <<Frame("destroy", k)>>]
  /\ UNCHANGED <<pool, connection, conns, socks, ends>>

\* connect comes to its end: clientCtx = 0, the requests go with it, then the
\* executor is shut down ...
Down(k) ==
  /\ loop' = [loop EXCEPT ![k] = "down"]
  /\ sent' = [sent EXCEPT ![k] = {}]

\* ... after that upcall, which queues a close frame ...
Destroyed(t) ==
  LET k == On(t) IN
  /\ At(t, "destroy")
  /\ Down(k)
  /\ closeQueued' = [closeQueued EXCEPT ![k] = @ \/ ~shut[k]]
  /\ Return(t)
  /\ UNCHANGED <<pool, connection, conns, queued, shut, inactive, isCallback, ends>>

\* ... or without one, if the socket never came to run ...
Lose(k) ==
  /\ loop[k] = "connecting" /\ Idle(k)
  /\ Down(k)
  /\ UNCHANGED <<stack, pool, connection, conns, queued, closeQueued, shut, inactive,
                 isCallback, ends>>

\* ... and the listener is told.
End(k) ==
  /\ loop[k] = "down"
  /\ loop' = [loop EXCEPT ![k] = "ended"]
  /\ stack' = [stack EXCEPT ![Loop(k)] = <<Frame("release", k)>>]
  /\ UNCHANGED <<pool, connection, conns, queued, sent, closeQueued, shut, inactive,
                 isCallback, ends>>

-----------------------------------------------------------------------------
Execute(c) ==
  \/ DnsFails(c) \/ EnterTag(c) \/ Get(c) \/ Found(c) \/ FoundBodiless(c)
  \/ Create(c) \/ Put(c) \/ Add(c)
  \/ SendRefused(c) \/ Send(c) \/ Cache(c) \/ CancelThrown(c)

Methods(t) ==
  \/ Offer(t) \/ Close(t) \/ Submit(t) \/ Release(t) \/ Unpool(t) \/ Unpooled(t)
  \/ HandOver(t) \/ SendFails(t) \/ NetworkTold(t)
  \/ Drain(t) \/ Refused(t) \/ Error(t) \/ Destroyed(t)

WriterThread(k) == TakeMessage(k) \/ ServeClose(k) \/ NetworkChanges(k)

LoopThread(k) ==
  \/ Open(k) \/ Message(k) \/ Refuse(k) \/ SocketFails(k) \/ Destroy(k)
  \/ Lose(k) \/ End(k)

Next ==
  \/ \E c \in Calls : Execute(c) \/ Cancel(c)
  \/ \E t \in Threads : Methods(t)
  \/ \E k \in Calls : WriterThread(k) \/ LoopThread(k)

Spec == Init /\ [][Next]_vars
==============================================================================
