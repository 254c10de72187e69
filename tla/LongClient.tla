------------------------------ MODULE LongClient ------------------------------
(***************************************************************************)
(* One native long-connection context, xqc_cli_ctx_t, from                 *)
(* client_long_conn to the return of client_long_start.                    *)
(*                                                                         *)
(* The loop thread runs client_long_start: it creates the event loop and   *)
(* the engine, serves the INIT_TASK command, runs libev until a DESTROY    *)
(* command breaks the loop, and frees the context.  API threads, Callers,  *)
(* enter client_long_send, client_long_send_ping and client_long_cancel    *)
(* as XRealWebSocket calls them.  Both sides meet in msg_data: one command *)
(* slot cmd_type, the message queue, and the libev async watcher that      *)
(* wakes the loop and coalesces wakeups.  client_long_send writes the slot *)
(* under the mutex, the loop serves it under the mutex; pings, cancels and *)
(* the close notification write it without.                                *)
(*                                                                         *)
(* The engine and the network are external: they accept or refuse          *)
(* requests, finish the handshake and close the connection when they like. *)
(* A handler is one action up to the reset of the slot: what it touches    *)
(* besides the slot is private to the loop thread or under the mutex.      *)
(***************************************************************************)
EXTENDS Integers, Sequences

CONSTANTS
  Callers,      \* the threads that call into the context
  MaxCalls,     \* bound on the number of API calls
  EarlyCalls    \* TRUE: calls start once connect returned; FALSE: after onOpen

ASSUME LongClientAssumption ==
  /\ MaxCalls \in Nat
  /\ EarlyCalls \in BOOLEAN

VARIABLES
  loop,       \* where the loop thread is
  after,      \* where it goes once the slot is reset
  cmd,        \* msg_data.cmd_type
  async,      \* 1: a wakeup of ev_task is pending
  queue,      \* msg_data.message_queue, oldest first
  accepted,   \* messages put into the queue so far; they are numbered by it
  created,    \* messages turned into requests, oldest first
  active,     \* ctx->active: 1, and -1 once the engine refused a request
  body,       \* 1: args->user_stream still holds a 0-RTT body
  conn,       \* the engine's connection
  userConn,   \* task->user_conn
  idle,       \* 1: the one-shot ev_timeout is armed
  status,     \* schedule_info.status of the only task
  told,       \* what was reported to Java
  destroyed,  \* how often MSG_TYPE_DESTROY was delivered, deleting the Java ref
  pc,         \* where each caller is
  calls,      \* API calls started so far
  handle,     \* XRealWebSocket: clientCtx "set", "closed" by its own cancel,
              \* after which it calls no more, or "returned" from start
  process     \* "crashed" once undefined behaviour took the process down

ctxVars    == <<active, body, status>>
msgVars    == <<queue, accepted, created>>
connVars   == <<conn, userConn, idle>>
javaVars   == <<told, destroyed>>
callVars   == <<pc, calls, handle>>
vars == <<loop, after, cmd, async, msgVars, ctxVars, connVars, javaVars,
          callVars, process>>

Commands == {"NONE", "INIT_TASK", "SEND_PING", "SEND_DATA", "CANCEL", "DESTROY"}
Live     == {"handshake", "open", "closing"}   \* the engine may still call back
Reports  == {"open", "send", "idle", "socket"}

TypeOK ==
  /\ loop \in {"created", "looped", "armed", "poll", "reset", "break",
               "stopped", "freed"}
  /\ after \in {"poll", "break", "stopped"}
  /\ cmd \in Commands
  /\ async \in {0, 1}
  /\ queue \in Seq(Nat) /\ accepted \in Nat /\ created \in Seq(Nat)
  /\ active \in {1, -1} /\ body \in {0, 1}
  /\ status \in {"waiting", "running", "failed", "finished"}
  /\ conn \in {"none", "closed"} \cup Live
  /\ userConn \in {"null", "alloc", "freed"}
  /\ idle \in {0, 1}
  /\ told \in SUBSET Reports /\ destroyed \in Nat
  /\ pc \in [Callers -> {"idle", "send", "ping", "cancel", "wake"}]
  /\ calls \in 0..MaxCalls
  /\ handle \in {"set", "closed", "returned"}
  /\ process \in {"up", "crashed"}

(***************************************************************************)
(* client_long_conn has returned a context: XRealWebSocket holds it and is *)
(* about to call client_long_start.                                        *)
(***************************************************************************)
Init ==
  /\ loop = "created" /\ after = "poll"
  /\ cmd = "NONE" /\ async = 0
  /\ queue = <<>> /\ accepted = 0 /\ created = <<>>
  /\ active = 1 /\ body \in {0, 1} /\ status = "waiting"
  /\ conn = "none" /\ userConn = "null" /\ idle = 0
  /\ told = {} /\ destroyed = 0
  /\ pc = [c \in Callers |-> "idle"] /\ calls = 0
  /\ handle = "set" /\ process = "up"

\* A step that is undefined behaviour if bad holds.
Dies(bad) == process' = IF bad THEN "crashed" ELSE "up"

-----------------------------------------------------------------------------
(* The loop thread before ev_run. *)

\* ev_loop_new and client_long_init_engine; a failing engine goes to fail.
StartLoop ==
  /\ loop = "created"
  /\ loop' \in {"looped", "stopped"}
  /\ UNCHANGED <<after, cmd, async, msgVars, ctxVars, connVars, javaVars,
                 callVars, process>>

\* client_long_start_task_manager up to its direct call of the schedule
\* callback: ev_async_start forgets the wakeups sent so far.
ArmTask ==
  /\ loop = "looped"
  /\ loop' = "armed"
  /\ async' = 0
  /\ cmd' = "INIT_TASK"
  /\ UNCHANGED <<after, msgVars, ctxVars, connVars, javaVars, callVars, process>>

-----------------------------------------------------------------------------
(* client_long_task_schedule_callback.  It is called directly once, in      *)
(* "armed", and then by the async watcher.                                  *)

Enter ==
  /\ loop' = "reset"
  /\ \/ loop = "armed" /\ UNCHANGED async
     \/ loop = "poll" /\ async = 1 /\ async' = 0

\* Mutant of SendRequests: a refused request is not reported.
SendRequestsSilently(q, most) ==
  IF active < 0
  THEN /\ queue' = SubSeq(q, 2, Len(q))
       /\ UNCHANGED <<created, active, told>>
  ELSE \E k \in 0..most :
       /\ created' = created \o SubSeq(q, 1, k)
       /\ queue' = SubSeq(q, k + 3, Len(q))
       /\ active' = IF k = Len(q) THEN active ELSE -1
       /\ UNCHANGED told

\* client_long_send_requests drains q: the engine takes the first k messages,
\* and can take most of them at the most.
\* The (k+1)-th, if any, is refused and deactivates the context; the one
\* popped next finds active < 0 and is dropped, and the rest stays queued.
SendRequests(q, most) ==
  IF active < 0
  THEN /\ queue' = SubSeq(q, 2, Len(q))
       /\ UNCHANGED <<created, active, told>>
  ELSE \E k \in 0..most :
       /\ created' = created \o SubSeq(q, 1, k)
       /\ queue' = SubSeq(q, k + 3, Len(q))
       /\ active' = IF k = Len(q) THEN active ELSE -1
       /\ told' = IF k = Len(q) THEN told ELSE told \cup {"send"}

\* Mutant of TaskDestroy: ev_timer_stop is forgotten.
TaskDestroyKeepsTimer ==
  /\ userConn' = IF userConn = "alloc" THEN "freed" ELSE userConn
  /\ destroyed' = destroyed + 1
  /\ UNCHANGED idle

\* client_long_close_task for the only task, then ev_break.
TaskDestroy ==
  /\ userConn' = IF userConn = "alloc" THEN "freed" ELSE userConn
  /\ idle' = 0
  /\ destroyed' = destroyed + 1

HandleNone ==
  /\ cmd = "NONE"
  /\ Enter
  /\ after' = "poll"
  /\ UNCHANGED <<cmd, msgVars, ctxVars, connVars, javaVars, callVars, process>>

\* client_long_handle_task succeeds: socket, watchers, connection, and the
\* 0-RTT body queued behind what early callers have put there.
HandleInit ==
  /\ cmd = "INIT_TASK" /\ status = "waiting"
  /\ Enter
  /\ after' = "poll"
  /\ conn' = "handshake" /\ userConn' = "alloc" /\ idle' = 1
  /\ status' = "running"
  /\ body' = 0
  /\ IF body = 1
     THEN /\ accepted' = accepted + 1
          /\ SendRequests(Append(queue, accepted + 1), Len(queue) + 1)
     ELSE UNCHANGED <<msgVars, active, told>>
  /\ UNCHANGED <<cmd, destroyed, callVars, process>>

\* client_long_handle_task fails before it sets task->user_conn (socket) or
\* after it (connect): the task is destroyed at once and ev_run is not called.
HandleInitFails ==
  /\ cmd = "INIT_TASK" /\ status = "waiting"
  /\ Enter
  /\ after' = "stopped"
  /\ userConn' \in {"null", "freed"}
  /\ destroyed' = destroyed + 1
  /\ status' = "failed"
  /\ UNCHANGED <<cmd, msgVars, active, body, conn, idle, told, callVars, process>>

\* The ping goes through task->user_conn, NULL before INIT_TASK was served.
HandlePing ==
  /\ cmd = "SEND_PING"
  /\ Enter
  /\ after' = "poll"
  /\ Dies(userConn # "alloc")
  /\ UNCHANGED <<cmd, msgVars, ctxVars, connVars, javaVars, callVars>>

HandleSendData ==
  /\ cmd = "SEND_DATA"
  /\ Enter
  /\ after' = "poll"
  /\ Dies(userConn # "alloc" /\ queue # <<>>)
  /\ SendRequests(queue, IF conn \in Live THEN Len(queue) ELSE 0)
  /\ UNCHANGED <<cmd, accepted, body, status, connVars, destroyed, callVars>>

\* Without a connection the callback returns XQC_ERROR, which only matters to
\* client_long_start: it skips ev_run.
HandleCancel ==
  /\ cmd = "CANCEL"
  /\ Enter
  /\ after' = IF userConn = "null" /\ loop = "armed" THEN "stopped" ELSE "poll"
  /\ conn' = IF userConn # "null" /\ conn \in Live THEN "closing" ELSE conn
  /\ UNCHANGED <<cmd, msgVars, ctxVars, userConn, idle, javaVars, callVars, process>>

\* Mutant of HandleDestroy: ev_break is forgotten.
HandleDestroyStays ==
  /\ cmd = "DESTROY"
  /\ Enter
  /\ after' = "poll"
  /\ TaskDestroy
  /\ UNCHANGED <<cmd, msgVars, ctxVars, conn, told, callVars, process>>

HandleDestroy ==
  /\ cmd = "DESTROY"
  /\ Enter
  /\ after' = "break"
  /\ TaskDestroy
  /\ UNCHANGED <<cmd, msgVars, ctxVars, conn, told, callVars, process>>

\* The slot is cleared and the mutex released.
ResetCommand ==
  /\ loop = "reset"
  /\ loop' = after
  /\ cmd' = "NONE"
  /\ UNCHANGED <<after, async, msgVars, ctxVars, connVars, javaVars, callVars, process>>

ServeCommand ==
  \/ HandleNone \/ HandleInit \/ HandleInitFails \/ HandlePing
  \/ HandleSendData \/ HandleCancel \/ HandleDestroy

-----------------------------------------------------------------------------
(* Other libev events.  After ev_break only the engine timer can still run  *)
(* in the same iteration; the loop leaves when the iteration is over.       *)

EngineRuns == loop \in {"poll", "break"} /\ conn \in Live

HandshakeFinished ==
  /\ EngineRuns /\ conn = "handshake"
  /\ conn' = "open"
  /\ told' = told \cup {"open"}
  /\ UNCHANGED <<loop, after, cmd, async, msgVars, ctxVars, userConn, idle,
                 destroyed, callVars, process>>

\* Mutant of CloseNotify: ev_async_send is forgotten.
CloseNotifySilent ==
  /\ EngineRuns
  /\ conn' = "closed"
  /\ status' = "finished"
  /\ cmd' = "DESTROY"
  /\ Dies(userConn # "alloc")
  /\ UNCHANGED <<loop, after, async, msgVars, active, body, userConn, idle,
                 javaVars, callVars>>

\* client_h3_conn_close_notify and its HQ twin: the slot is written without
\* the mutex.  user_conn is dereferenced.
CloseNotify ==
  /\ EngineRuns
  /\ conn' = "closed"
  /\ status' = "finished"
  /\ cmd' = "DESTROY"
  /\ async' = 1
  /\ Dies(userConn # "alloc")
  /\ UNCHANGED <<loop, after, msgVars, active, body, userConn, idle, javaVars, callVars>>

\* client_write_socket or client_socket_read_handler reports an error to Java.
SocketError ==
  /\ EngineRuns
  /\ told' = told \cup {"socket"}
  /\ UNCHANGED <<loop, after, cmd, async, msgVars, ctxVars, connVars,
                 destroyed, callVars, process>>

\* client_long_idle_callback: the timer fires once; it only acts if nothing
\* was read for conn_timeout seconds.
IdleFires ==
  /\ loop = "poll" /\ idle = 1
  /\ idle' = 0
  /\ \/ UNCHANGED <<conn, status, told>>
     \/ /\ conn' = IF conn \in Live THEN "closing" ELSE conn
        /\ status' = "failed"
        /\ told' = told \cup {"idle"}
  /\ Dies(userConn # "alloc")
  /\ UNCHANGED <<loop, after, cmd, async, msgVars, active, body, userConn,
                 destroyed, callVars>>

\* ev_run returns.
LeaveLoop ==
  /\ loop = "break"
  /\ loop' = "stopped"
  /\ UNCHANGED <<after, cmd, async, msgVars, ctxVars, connVars, javaVars,
                 callVars, process>>

\* The tail of client_long_start: loop, engine, queue and context are freed.
\* Destroying the engine closes a connection that is still alive.
FreeContext ==
  /\ loop = "stopped"
  /\ loop' = "freed"
  /\ queue' = <<>>
  /\ conn' = IF conn \in Live THEN "closed" ELSE conn
  /\ Dies(conn \in Live /\ userConn # "alloc")
  /\ UNCHANGED <<after, cmd, async, accepted, created, ctxVars, userConn, idle,
                 javaVars, callVars>>

\* XRealWebSocket.connect: start returned, clientCtx = 0.
StartReturns ==
  /\ loop = "freed" /\ handle # "returned"
  /\ handle' = "returned"
  /\ UNCHANGED <<loop, after, cmd, async, msgVars, ctxVars, connVars, javaVars,
                 pc, calls, process>>

-----------------------------------------------------------------------------
(* API calls.  A call on a freed context reads freed memory: it fails or     *)
(* takes the process down.                                                   *)

Goto(c, where) == pc' = [pc EXCEPT ![c] = where]

TouchFreed(c) ==
  /\ loop = "freed"
  /\ Goto(c, "idle")
  /\ process' \in {"up", "crashed"}
  /\ UNCHANGED <<loop, after, cmd, async, msgVars, ctxVars, connVars, javaVars>>

\* The check of ctx->active that opens all three calls; it takes no lock.
CheckActive(c, where) ==
  /\ pc[c] = "idle"
  /\ handle = "set"
  /\ EarlyCalls \/ "open" \in told
  /\ calls < MaxCalls
  /\ calls' = calls + 1
  /\ \/ TouchFreed(c)
     \/ /\ loop # "freed"
        /\ Goto(c, IF active > 0 THEN where ELSE "idle")
        /\ UNCHANGED <<loop, after, cmd, async, msgVars, ctxVars, connVars,
                       javaVars, process>>

CallSend(c)   == CheckActive(c, "send") /\ UNCHANGED handle
CallPing(c)   == CheckActive(c, "ping") /\ UNCHANGED handle
CallCancel(c) == CheckActive(c, "cancel") /\ handle' = "closed"

\* Mutant of PutMessage: the message is linked in front of the queue.
PutMessageFirst(c) ==
  /\ pc[c] = "send"
  /\ loop \notin {"freed", "reset"}
  /\ cmd' = "SEND_DATA"
  /\ accepted' = accepted + 1
  /\ queue' = <<accepted + 1>> \o queue
  /\ async' = 1
  /\ Dies(loop = "created")
  /\ Goto(c, "idle")
  /\ UNCHANGED <<loop, after, created, ctxVars, connVars, javaVars, calls, handle>>

\* client_long_send inside the mutex, which is free unless the loop thread is
\* between the switch and the reset.  ctx->eb is NULL in "created".
PutMessage(c) ==
  /\ pc[c] = "send"
  /\ \/ TouchFreed(c)
     \/ /\ loop \notin {"freed", "reset"}
        /\ cmd' = "SEND_DATA"
        /\ accepted' = accepted + 1
        /\ queue' = Append(queue, accepted + 1)
        /\ async' = 1
        /\ Dies(loop = "created")
        /\ Goto(c, "idle")
        /\ UNCHANGED <<loop, after, created, ctxVars, connVars, javaVars>>
  /\ UNCHANGED <<calls, handle>>

\* client_long_send_ping and client_long_cancel write the slot at any time...
WriteCommand(c) ==
  /\ pc[c] \in {"ping", "cancel"}
  /\ \/ TouchFreed(c)
     \/ /\ loop # "freed"
        /\ cmd' = IF pc[c] = "ping" THEN "SEND_PING" ELSE "CANCEL"
        /\ Goto(c, "wake")
        /\ UNCHANGED <<loop, after, async, msgVars, ctxVars, connVars, javaVars, process>>
  /\ UNCHANGED <<calls, handle>>

\* ...and wake the loop.
WakeLoop(c) ==
  /\ pc[c] = "wake"
  /\ \/ TouchFreed(c)
     \/ /\ loop # "freed"
        /\ async' = 1
        /\ Dies(loop = "created")
        /\ Goto(c, "idle")
        /\ UNCHANGED <<loop, after, cmd, msgVars, ctxVars, connVars, javaVars>>
  /\ UNCHANGED <<calls, handle>>

-----------------------------------------------------------------------------
Call(c) == CallSend(c) \/ CallPing(c) \/ CallCancel(c)
Finish(c) == PutMessage(c) \/ WriteCommand(c) \/ WakeLoop(c)
LoopThread == StartLoop \/ ArmTask \/ ServeCommand \/ ResetCommand
              \/ LeaveLoop \/ FreeContext \/ StartReturns
Environment == HandshakeFinished \/ CloseNotify \/ SocketError \/ IdleFires

Next == /\ process = "up"
        /\ \/ LoopThread
           \/ Environment
           \/ \E c \in Callers : Call(c) \/ Finish(c)

Spec == Init /\ [][Next]_vars

\* The threads are scheduled, and a connection that is being closed is released
\* by the engine when its draining period is over.
Fairness ==
  /\ WF_vars(process = "up" /\ LoopThread)
  /\ \A c \in Callers : WF_vars(process = "up" /\ Finish(c))
  /\ WF_vars(process = "up" /\ conn = "closing" /\ CloseNotify)

FairSpec == Spec /\ Fairness
==============================================================================
