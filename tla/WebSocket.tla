----------------------------- MODULE WebSocket -----------------------------
(***************************************************************************)
(* XRealWebSocket over one native long connection: the threads that meet   *)
(* in it and the three locks they take.                                    *)
(*                                                                         *)
(* The executor has two threads.  One, Loop, runs the task of connect: it  *)
(* blocks in client_long_start and makes the upcalls.  The other, Writer,  *)
(* runs the writer and the ping task.  Apps are application threads.  The  *)
(* locks are the monitor of the socket; tag, the monitor of the interned   *)
(* string TAG, shared by all sockets; and mutex, the one native mutex of   *)
(* all contexts, which the loop holds while it serves a command and        *)
(* client_long_send takes to queue a message.                              *)
(*                                                                         *)
(* Of the native side there is the command slot, the wakeup of the loop    *)
(* and the state of the connection.  The slot is written without the mutex *)
(* by a cancel, a ping and the close notification: a command can replace   *)
(* another one, or be erased when the loop resets the slot.  Writing and   *)
(* waking are one step here, and the requests of a drained queue are one   *)
(* step; LongClient has the parts.  What libev still calls in the          *)
(* iteration that breaks the loop is left out, and so are other sockets,   *)
(* which take tag and mutex as well.                                       *)
(***************************************************************************)
EXTENDS Integers, Sequences

CONSTANTS
  Apps,          \* application threads
  Loop, Writer,  \* the two threads of the executor
  None,          \* no thread: the owner of a free lock
  MaxCalls,      \* bound on the calls of the application
  MaxUpcalls,    \* bound on the upcalls that carry data or an error
  MaxPings       \* bound on the runs of PingRunnable

ASSUME WebSocketAssumption ==
  /\ Loop # Writer /\ Loop \notin Apps /\ Writer \notin Apps
  /\ None \notin Apps \cup {Loop, Writer}
  /\ MaxCalls \in Nat /\ MaxUpcalls \in Nat /\ MaxPings \in Nat

VARIABLES
  monitor, tag, mutex,  \* the owner of each lock
  pc,             \* where each thread is in XRealWebSocket
  op,             \* what it is doing there
  loop,           \* where the connect task is
  ctx,            \* clientCtx: "zero", "set", or "bad" for -1
  enqueuedClose,  \* enqueuedClose, and failed, set under the same monitor
  isCallback,     \* isCallback
  status,         \* cancelOrClose
  frames,         \* messageQueue: numbers of messages, 0 for a close frame
  accepted,       \* messages send accepted so far; they are numbered by it
  handed,         \* messages client_long_send took, oldest first
  oversize,       \* a message did not fit byteBuffer: logged, never reported
  jobs,           \* writerRunnables waiting in the executor
  shutdown,       \* executor.isShutdown
  active,         \* ctx->active > 0
  cmd,            \* ctx->msg_data.cmd_type
  async,          \* a wakeup of the loop is pending
  conn,           \* the connection; "closed" once its close was notified
  lost,           \* a CANCEL or a DESTROY left the slot without being served
  told,           \* what the listener, or the caller, was told
  calls, upcalls, pings,
  process         \* "crashed" once undefined behaviour took the process down

locks  == <<monitor, tag, mutex>>
java   == <<ctx, enqueuedClose, isCallback, status>>
queue  == <<frames, accepted, handed, oversize, jobs, shutdown>>
native == <<active, cmd, async, conn, lost>>
counts == <<calls, upcalls, pings>>
vars == <<locks, pc, op, loop, java, queue, native, told, counts, process>>

Threads == Apps \cup {Loop, Writer}
Owners  == Threads \cup {None}
Holding == {"frames", "send", "mutex", "tag", "submit", "execute"}
Over    == {"down", "end", "ended", "dead"}
Serving == {"first", "serve", "destroyed", "reset", "last"}

TypeOK ==
  /\ monitor \in Owners /\ tag \in Owners /\ mutex \in {None, Loop}
  /\ pc \in [Threads -> Holding \cup {"idle", "enter", "ping", "pingtag"}]
  /\ op \in [Threads -> {"none", "send", "close", "write", "net",
                         "message", "error", "destroy"}]
  /\ loop \in {"queued", "made", "looped", "armed", "poll", "returned"}
              \cup Serving \cup Over
  /\ ctx \in {"zero", "set", "bad"}
  /\ enqueuedClose \in BOOLEAN /\ isCallback \in BOOLEAN
  /\ status \in {"other", "cancel", "close"}
  /\ frames \in Seq(Nat) /\ accepted \in Nat /\ handed \in Seq(Nat)
  /\ oversize \in BOOLEAN /\ jobs \in Nat /\ shutdown \in BOOLEAN
  /\ active \in BOOLEAN /\ async \in BOOLEAN /\ lost \in BOOLEAN
  /\ cmd \in {"none", "init", "ping", "data", "cancel", "destroy"}
  /\ conn \in {"none", "alive", "closing", "closed"}
  /\ told \in SUBSET {"refused", "rejected", "sendFailed", "dns", "connect",
                      "closed", "failed"}
  /\ calls \in 0..MaxCalls /\ upcalls \in 0..MaxUpcalls /\ pings \in 0..MaxPings
  /\ process \in {"up", "crashed"}
  /\ \A t \in Threads : pc[t] \in Holding => monitor = t
  /\ mutex = Loop <=> loop \in Serving

Init ==
  /\ monitor = None /\ tag = None /\ mutex = None
  /\ pc = [t \in Threads |-> "idle"] /\ op = [t \in Threads |-> "none"]
  /\ loop = "queued"
  /\ ctx = "zero" /\ enqueuedClose = FALSE /\ isCallback = FALSE
  /\ status = "other"
  /\ frames = <<>> /\ accepted = 0 /\ handed = <<>> /\ oversize = FALSE
  /\ jobs = 0 /\ shutdown = FALSE
  /\ active = TRUE /\ cmd = "none" /\ async = FALSE /\ conn = "none"
  /\ lost = FALSE
  /\ told = {} /\ calls = 0 /\ upcalls = 0 /\ pings = 0
  /\ process = "up"

Goto(t, where) == pc' = [pc EXCEPT ![t] = where]
Tell(what)     == told' = told \cup {what}

\* check(): the socket can be used.
Usable == ctx = "set" /\ ~enqueuedClose

\* A native call looks at ctx->active; once the context is freed, anything may
\* happen.
Freed == {"returned", "down", "end", "ended"}
Touch == process' \in IF loop \in Freed THEN {"up", "crashed"} ELSE {"up"}

\* The same with clientCtx read anew: null is dereferenced to be logged.
TouchCtx == IF ctx = "zero" THEN process' = "crashed" ELSE Touch

\* A native call writes command c over what is in the slot and wakes the loop;
\* while there is no event loop it follows a null pointer instead.
Command(c) ==
  /\ IF loop = "made" THEN process' = "crashed" ELSE Touch
  /\ IF loop \in Freed THEN UNCHANGED <<cmd, async, lost>>
     ELSE /\ cmd' = c
          /\ async' = TRUE
          /\ lost' = (lost \/ cmd \in {"cancel", "destroy"})

\* A thread leaves the monitor.  If it was in a block on TAG it leaves that one
\* too; the loop goes on in native code, where it has served its command if it
\* had one, and then still holds the mutex.
Leave(t) ==
  /\ monitor' = None
  /\ tag' = IF tag = t THEN None ELSE tag
  /\ Goto(t, "idle")
  /\ op' = [op EXCEPT ![t] = "none"]
  /\ UNCHANGED mutex
  /\ loop' = IF t = Loop /\ loop # "poll"
             THEN (IF loop = "destroyed" THEN "last" ELSE "reset") ELSE loop

-----------------------------------------------------------------------------
(* Entering the monitor: send, close and the upcalls.                       *)

\* send, cancel() and close(code, reason) of an application thread.
Call(a) ==
  /\ pc[a] = "idle" /\ calls < MaxCalls
  /\ calls' = calls + 1
  /\ \E o \in {"send", "close"} :
       /\ op' = [op EXCEPT ![a] = o]
       /\ IF o = "close" THEN status' \in {"cancel", "close"} ELSE UNCHANGED status
  /\ Goto(a, "enter")
  /\ UNCHANGED <<locks, loop, ctx, enqueuedClose, isCallback, queue, native, told,
                 upcalls, pings, process>>

Acquire(t) == pc[t] = "enter" /\ monitor \in {None, t}

\* send: the check that comes first refuses.
SendRefused(t) ==
  /\ Acquire(t) /\ op[t] = "send" /\ ~Usable
  /\ Tell("refused")
  /\ Leave(t)
  /\ UNCHANGED <<java, queue, native, counts, process>>

\* The message is accepted and queued.
SendQueued(t) ==
  /\ Acquire(t) /\ op[t] = "send" /\ Usable
  /\ monitor' = t
  /\ accepted' = accepted + 1
  /\ frames' = Append(frames, accepted + 1)
  /\ Goto(t, "submit")
  /\ UNCHANGED <<tag, mutex, op, loop, java, handed, oversize, jobs, shutdown,
                 native, told, counts, process>>

\* What close() does, for an application, PingRunnable, the DESTROY upcall and
\* a send that finds the queue full.
QueueClose(t) ==
  /\ monitor' = t
  /\ frames' = Append(frames, 0)
  /\ Goto(t, "submit")
  /\ UNCHANGED <<mutex, op, loop, accepted, handed, oversize, jobs, shutdown>>

CloseQueued(t) ==
  /\ Acquire(t)
  /\ \/ op[t] \in {"close", "net", "destroy"}
     \/ op[t] = "send" /\ Usable
  /\ ~enqueuedClose
  /\ QueueClose(t)
  /\ UNCHANGED <<tag, java, native, told, counts, process>>

CloseAgain(t) ==
  /\ Acquire(t) /\ op[t] \in {"close", "net", "destroy"}
  /\ enqueuedClose
  /\ isCallback' = (isCallback \/ op[t] = "net")
  /\ Leave(t)
  /\ UNCHANGED <<ctx, enqueuedClose, status, queue, native, told, counts, process>>

\* callBackMessage, and callBackData with XQC_OK.
Deliver ==
  /\ Acquire(Loop) /\ op[Loop] = "message"
  /\ Leave(Loop)
  /\ UNCHANGED <<java, queue, native, told, counts, process>>

\* callBackData with an error: only the first one closes.
ErrorAgain ==
  /\ Acquire(Loop) /\ op[Loop] = "error" /\ isCallback
  /\ Leave(Loop)
  /\ UNCHANGED <<java, queue, native, told, counts, process>>

ErrorFirst ==
  /\ Acquire(Loop) /\ op[Loop] = "error" /\ ~isCallback
  /\ monitor' = Loop
  /\ Goto(Loop, "tag")
  /\ UNCHANGED <<tag, mutex, op, loop, java, queue, native, told, counts, process>>

\* synchronized(TAG) inside the monitor: close(ret, data), isCallback = true.
ErrorCloses ==
  /\ pc[Loop] = "tag" /\ tag = None
  /\ IF isCallback \/ enqueuedClose
     THEN /\ Leave(Loop)
          /\ isCallback' = TRUE
          /\ status' = IF isCallback THEN status ELSE "close"
          /\ UNCHANGED queue
     ELSE /\ tag' = Loop
          /\ status' = "close"
          /\ QueueClose(Loop)
          /\ UNCHANGED isCallback
  /\ UNCHANGED <<ctx, enqueuedClose, native, told, counts, process>>

\* runWriter: check() again, for the connect task may have cleared clientCtx.
Submit(t) ==
  /\ pc[t] = "submit"
  /\ IF Usable
     THEN /\ Goto(t, "execute")
          /\ UNCHANGED <<locks, op, loop, isCallback, told>>
     ELSE /\ Tell("refused")
          /\ isCallback' = (isCallback \/ op[t] \in {"error", "net"})
          /\ Leave(t)
  /\ UNCHANGED <<ctx, enqueuedClose, status, queue, native, counts, process>>

\* Mutant of Execute: no job is submitted while one is waiting, as if the one
\* waiting would see the frame in any case.
ExecuteOnce(t) ==
  /\ pc[t] = "execute" /\ ~shutdown
  /\ jobs' = 1
  /\ isCallback' = (isCallback \/ op[t] \in {"error", "net"})
  /\ Leave(t)
  /\ UNCHANGED <<ctx, enqueuedClose, status, frames, accepted, handed, oversize,
                 shutdown, native, told, counts, process>>

\* executor.execute(writerRunnable); a shut-down executor throws.
Execute(t) ==
  /\ pc[t] = "execute"
  /\ IF shutdown
     THEN Tell("rejected") /\ UNCHANGED <<jobs, isCallback>>
     ELSE /\ jobs' = jobs + 1
          /\ isCallback' = (isCallback \/ op[t] \in {"error", "net"})
          /\ UNCHANGED told
  /\ Leave(t)
  /\ UNCHANGED <<ctx, enqueuedClose, status, frames, accepted, handed, oversize,
                 shutdown, native, counts, process>>

-----------------------------------------------------------------------------
(* The writer thread.                                                       *)

TakeJob ==
  /\ pc[Writer] = "idle" /\ jobs > 0
  /\ jobs' = jobs - 1
  /\ op' = [op EXCEPT ![Writer] = "write"]
  /\ Goto(Writer, "enter")
  /\ UNCHANGED <<locks, loop, java, frames, accepted, handed, oversize, shutdown,
                 native, told, counts, process>>

StartWriting ==
  /\ Acquire(Writer) /\ op[Writer] = "write"
  /\ monitor' = Writer
  /\ Goto(Writer, "frames")
  /\ UNCHANGED <<tag, mutex, op, loop, java, queue, native, told, counts, process>>

\* messageQueue.poll() finds nothing.
StopWriting ==
  /\ pc[Writer] = "frames" /\ frames = <<>>
  /\ Leave(Writer)
  /\ UNCHANGED <<java, queue, native, told, counts, process>>

\* A message: it is handed on, dropped on a closed socket, or too long for
\* byteBuffer, whose exception ends the runnable.
WriteMessage ==
  /\ pc[Writer] = "frames" /\ frames # <<>> /\ Head(frames) # 0
  /\ IF Usable
     THEN \/ /\ Goto(Writer, "send")
             /\ UNCHANGED <<locks, op, loop, frames, oversize>>
          \/ /\ frames' = Tail(frames)
             /\ oversize' = TRUE
             /\ Leave(Writer)
     ELSE /\ frames' = Tail(frames)
          /\ UNCHANGED <<locks, pc, op, loop, oversize>>
  /\ UNCHANGED <<java, accepted, handed, jobs, shutdown, native, told, counts,
                 process>>

\* sendByte looks at ctx->active without the mutex; if the context is inactive
\* the message is lost and the listener is told.
SendByteChecked ==
  /\ pc[Writer] = "send"
  /\ TouchCtx
  /\ IF active
     THEN Goto(Writer, "mutex") /\ UNCHANGED <<frames, told>>
     ELSE /\ frames' = Tail(frames)
          /\ Tell("sendFailed")
          /\ Goto(Writer, "frames")
  /\ UNCHANGED <<locks, op, loop, java, accepted, handed, oversize, jobs, shutdown,
                 native, counts>>

\* Mutant of SendByte: the message stays in messageQueue.
SendByteKeeps ==
  /\ pc[Writer] = "mutex" /\ mutex = None
  /\ handed' = Append(handed, Head(frames))
  /\ Command("data")
  /\ Goto(Writer, "frames")
  /\ UNCHANGED <<locks, op, loop, java, frames, accepted, oversize, jobs, shutdown,
                 active, conn, told, counts>>

\* client_long_send takes the mutex, queues the message and gives it back; the
\* monitor is held all the time.
SendByte ==
  /\ pc[Writer] = "mutex" /\ mutex = None
  /\ frames' = Tail(frames)
  /\ handed' = Append(handed, Head(frames))
  /\ Command("data")
  /\ Goto(Writer, "frames")
  /\ UNCHANGED <<locks, op, loop, java, accepted, oversize, jobs, shutdown,
                 active, conn, told, counts>>

\* Mutant of WriteClose: the native cancel is forgotten.
WriteCloseQuietly ==
  /\ pc[Writer] = "frames" /\ frames # <<>> /\ Head(frames) = 0
  /\ enqueuedClose' = TRUE
  /\ frames' = <<>>
  /\ ctx' = "zero"
  /\ shutdown' = TRUE /\ jobs' = 0
  /\ Leave(Writer)
  /\ UNCHANGED <<isCallback, status, accepted, handed, oversize, native, told,
                 counts, process>>

\* A close frame: everything behind it is dropped, the context is cancelled
\* and forgotten, the executor is shut down.  The cancel takes no mutex, and does
\* nothing if the context is inactive.
WriteClose ==
  /\ pc[Writer] = "frames" /\ frames # <<>> /\ Head(frames) = 0
  /\ enqueuedClose' = TRUE
  /\ frames' = <<>>
  /\ IF ctx # "set" THEN UNCHANGED <<cmd, async, lost, process>>
     ELSE IF active THEN Command("cancel")
     ELSE Touch /\ UNCHANGED <<cmd, async, lost>>
  /\ ctx' = "zero"
  /\ shutdown' = TRUE /\ jobs' = 0
  /\ Leave(Writer)
  /\ UNCHANGED <<isCallback, status, accepted, handed, oversize, active, conn,
                 told, counts>>

\* Mutant of PingStarts: clientCtx is not checked.
PingStartsBlindly ==
  /\ pc[Writer] = "idle" /\ ~shutdown /\ pings < MaxPings
  /\ pings' = pings + 1
  /\ Goto(Writer, "ping")
  /\ UNCHANGED <<locks, op, loop, java, queue, native, told, calls, upcalls, process>>

\* PingRunnable.  Its count of unanswered pings is never increased, so that the
\* ping timeout never closes the socket.
PingStarts ==
  /\ pc[Writer] = "idle" /\ ~shutdown /\ pings < MaxPings /\ Usable
  /\ pings' = pings + 1
  /\ Goto(Writer, "ping")
  /\ UNCHANGED <<locks, op, loop, java, queue, native, told, calls, upcalls, process>>

\* sendPing reads clientCtx a second time; its command takes no mutex.
PingSent ==
  /\ pc[Writer] = "ping"
  /\ IF ctx # "zero" /\ active THEN Command("ping")
     ELSE TouchCtx /\ UNCHANGED <<cmd, async, lost>>
  /\ Goto(Writer, "idle")
  /\ UNCHANGED <<locks, op, loop, java, queue, active, conn, told, counts>>

\* The network changed since an earlier run noted it: synchronized(TAG) outside
\* the monitor.
NetworkChanged ==
  /\ pc[Writer] = "ping" /\ pings > 1
  /\ Goto(Writer, IF isCallback THEN "idle" ELSE "pingtag")
  /\ UNCHANGED <<locks, op, loop, java, queue, native, told, counts, process>>

NetworkCloses ==
  /\ pc[Writer] = "pingtag" /\ tag = None
  /\ IF isCallback
     THEN Goto(Writer, "idle") /\ UNCHANGED <<tag, op, status>>
     ELSE /\ tag' = Writer
          /\ status' = "close"
          /\ op' = [op EXCEPT ![Writer] = "net"]
          /\ Goto(Writer, "enter")
  /\ UNCHANGED <<monitor, mutex, loop, ctx, enqueuedClose, isCallback, queue, native,
                 told, counts, process>>

-----------------------------------------------------------------------------
(* The task of connect.                                                     *)

DnsFails ==
  /\ loop = "queued"
  /\ loop' = "dead"
  /\ Tell("dns")
  /\ UNCHANGED <<locks, pc, op, java, queue, native, counts, process>>

Connect ==
  /\ loop = "queued"
  /\ \/ ctx' = "set" /\ loop' = "made" /\ UNCHANGED told
     \/ ctx' = "bad" /\ loop' = "returned" /\ Tell("connect")
  /\ UNCHANGED <<locks, pc, op, enqueuedClose, isCallback, status, queue, native,
                 counts, process>>

\* client_long_start: the event loop, and the engine, which may fail.
Start ==
  /\ loop = "made"
  /\ loop' \in {"looped", "returned"}
  /\ UNCHANGED <<locks, pc, op, java, queue, native, told, counts, process>>

\* client_long_start_task_manager: wakeups sent so far are forgotten, and what
\* is in the slot gives way to INIT_TASK.
ArmTask ==
  /\ loop = "looped"
  /\ loop' = "armed"
  /\ async' = FALSE
  /\ cmd' = "init"
  /\ lost' = (lost \/ cmd = "cancel")
  /\ UNCHANGED <<locks, pc, op, java, queue, active, conn, told, counts, process>>

Upcall(o) ==
  /\ op' = [op EXCEPT ![Loop] = o]
  /\ Goto(Loop, "enter")

\* Mutant of Event: these upcalls are made with the mutex held, too.
EventLocked ==
  /\ loop = "poll" /\ pc[Loop] = "idle" /\ upcalls < MaxUpcalls
  /\ upcalls' = upcalls + 1
  /\ mutex = None /\ mutex' = Loop
  /\ \/ Upcall("message") /\ UNCHANGED conn
     \/ Upcall("error") /\ conn' \in {conn, IF conn = "alive" THEN "closing" ELSE conn}
  /\ UNCHANGED <<monitor, tag, loop, java, queue, active, cmd, async, lost, told, calls,
                 pings, process>>

\* Upcalls outside the mutex: the handshake, received data, an error of the
\* socket; the idle timeout also closes the connection.
Event ==
  /\ loop = "poll" /\ pc[Loop] = "idle" /\ upcalls < MaxUpcalls
  /\ upcalls' = upcalls + 1
  /\ \/ Upcall("message") /\ UNCHANGED conn
     \/ Upcall("error") /\ conn' \in {conn, IF conn = "alive" THEN "closing" ELSE conn}
  /\ UNCHANGED <<locks, loop, java, queue, active, cmd, async, lost, told, calls, pings,
                 process>>

\* The close notification, after the peer, the idle timeout or a CANCEL closed
\* the connection: DESTROY comes into the slot, whatever is there.
CloseNotify ==
  /\ loop = "poll" /\ pc[Loop] = "idle" /\ conn \in {"alive", "closing"}
  /\ conn' = "closed"
  /\ cmd' = "destroy"
  /\ async' = TRUE
  /\ UNCHANGED <<locks, pc, op, loop, java, queue, active, lost, told, counts, process>>

\* The schedule callback takes the mutex: called by client_long_start, or woken.
TakeCommand ==
  /\ pc[Loop] = "idle" /\ mutex = None
  /\ \/ loop = "armed" /\ loop' = "first" /\ UNCHANGED async
     \/ loop = "poll" /\ async /\ loop' = "serve" /\ async' = FALSE
  /\ mutex' = Loop
  /\ UNCHANGED <<monitor, tag, pc, op, java, queue, active, cmd, conn, lost, told,
                 counts, process>>

\* The switch looks at the slot, and c is there.
Served(c) == loop \in {"first", "serve"} /\ pc[Loop] = "idle" /\ cmd = c

\* A request is refused, and reported from inside the mutex.
Refuse == active /\ active' = FALSE /\ Upcall("error") /\ UNCHANGED loop

\* INIT_TASK: the connection is made, and may refuse the request of a 0-RTT
\* body; or it is not made, and the task is destroyed at once.
ServeInit ==
  /\ Served("init")
  /\ \/ /\ conn' = "alive"
        /\ \/ loop' = "reset" /\ UNCHANGED <<pc, op, active>>
           \/ Refuse
     \/ /\ conn' = "closed" /\ loop' = "destroyed" /\ Upcall("destroy")
        /\ UNCHANGED active
  /\ UNCHANGED <<locks, java, queue, cmd, async, lost, told, counts, process>>

\* SEND_DATA: the requests are made, or one is refused.
ServeSend ==
  /\ Served("data") /\ loop = "serve"
  /\ \/ loop' = "reset" /\ UNCHANGED <<pc, op, active>>
     \/ Refuse
  /\ UNCHANGED <<locks, java, queue, cmd, async, conn, lost, told, counts, process>>

\* SEND_PING, or a wakeup whose command was erased.
ServePing ==
  /\ Served("ping") \/ Served("none")
  /\ loop = "serve"
  /\ loop' = "reset"
  /\ UNCHANGED <<locks, pc, op, java, queue, native, told, counts, process>>

\* In place of INIT_TASK these follow the null user_conn.
ServeEarly ==
  /\ Served("ping") \/ Served("data")
  /\ loop = "first"
  /\ process' = "crashed"
  /\ UNCHANGED <<locks, pc, op, loop, java, queue, native, told, counts>>

\* CANCEL; in place of INIT_TASK there is nothing to cancel, and client_long_start
\* gives up.
ServeCancel ==
  /\ Served("cancel")
  /\ loop' = IF loop = "first" THEN "last" ELSE "reset"
  /\ conn' = IF conn = "alive" THEN "closing" ELSE conn
  /\ UNCHANGED <<locks, pc, op, java, queue, active, cmd, async, lost, told, counts,
                 process>>

\* DESTROY: the last upcall is made from inside the mutex.
ServeDestroy ==
  /\ Served("destroy")
  /\ loop' = "destroyed"
  /\ Upcall("destroy")
  /\ UNCHANGED <<locks, java, queue, native, told, counts, process>>

\* Whatever is in the slot by now is erased, and the mutex given back; a CANCEL
\* that was served has left no connection alive.
ResetCommand ==
  /\ loop \in {"reset", "last"}
  /\ loop' = IF loop = "reset" THEN "poll" ELSE "returned"
  /\ cmd' = "none"
  /\ lost' = (lost \/ (cmd = "cancel" /\ conn = "alive"))
  /\ mutex' = None
  /\ UNCHANGED <<monitor, tag, pc, op, java, queue, active, async, conn, told, counts,
                 process>>

\* The tail of the connect task.
ForgetContext ==
  /\ loop = "returned"
  /\ ctx' = "zero"
  /\ loop' = "down"
  /\ UNCHANGED <<locks, pc, op, enqueuedClose, isCallback, status, queue, native,
                 told, counts, process>>

ShutDown ==
  /\ loop = "down"
  /\ shutdown' = TRUE /\ jobs' = 0
  /\ loop' = "end"
  /\ UNCHANGED <<locks, pc, op, java, frames, accepted, handed, oversize, native,
                 told, counts, process>>

ReportEnd ==
  /\ loop = "end"
  /\ loop' = "ended"
  /\ Tell(IF status = "close" THEN "closed" ELSE "failed")
  /\ UNCHANGED <<locks, pc, op, java, queue, native, counts, process>>

-----------------------------------------------------------------------------
InMonitor(t) ==
  \/ SendRefused(t) \/ SendQueued(t) \/ CloseQueued(t) \/ CloseAgain(t)
  \/ Submit(t) \/ Execute(t)

WriterThread ==
  \/ InMonitor(Writer)
  \/ TakeJob \/ StartWriting \/ StopWriting \/ WriteMessage \/ SendByteChecked
  \/ SendByte \/ WriteClose
  \/ PingSent \/ NetworkChanged \/ NetworkCloses

LoopThread ==
  \/ InMonitor(Loop)
  \/ Deliver \/ ErrorAgain \/ ErrorFirst \/ ErrorCloses
  \/ DnsFails \/ Connect \/ Start \/ ArmTask \/ TakeCommand
  \/ ServeInit \/ ServeSend \/ ServePing \/ ServeEarly \/ ServeCancel \/ ServeDestroy
  \/ ResetCommand \/ ForgetContext \/ ShutDown \/ ReportEnd

Next ==
  /\ process = "up"
  /\ \/ \E a \in Apps : Call(a) \/ InMonitor(a)
     \/ WriterThread \/ PingStarts
     \/ LoopThread \/ Event \/ CloseNotify

Spec == Init /\ [][Next]_vars

\* Threads that are not blocked run; the application need not call, the
\* network need not do anything.  The engine releases a connection that is being
\* closed when its draining period is over.
Fairness ==
  /\ WF_vars(process = "up" /\ LoopThread)
  /\ WF_vars(process = "up" /\ WriterThread)
  /\ \A a \in Apps : WF_vars(process = "up" /\ InMonitor(a))
  /\ WF_vars(process = "up" /\ conn = "closing" /\ CloseNotify)

FairSpec == Spec /\ Fairness
==============================================================================
