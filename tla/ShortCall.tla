------------------------------ MODULE ShortCall ------------------------------
(***************************************************************************)
(* One call over a connection of its own: XAsyncCall on top of             *)
(* client_short_send.                                                      *)
(*                                                                         *)
(* The worker thread runs XAsyncCall.execute: it blocks in                 *)
(* client_short_send, whose libev loop delivers the answer by upcalls and  *)
(* ends when the close notification of the connection makes it serve a     *)
(* DESTROY command.  The main looper delivers the read timeout of the      *)
(* call, application threads cancel it.  A cancellation, whoever asks for  *)
(* it, ends in client_short_cancel, which writes CANCEL into the slot that *)
(* the close notification writes DESTROY into; no side takes a lock, and   *)
(* the slot is never reset.                                                *)
(*                                                                         *)
(* Only the worker runs callBackData, so the lock it takes excludes        *)
(* nobody.  What finished does to the dispatcher is modelled in module     *)
(* Dispatcher.  The engine and the network are external.                   *)
(***************************************************************************)
EXTENDS Integers

CONSTANTS
  Apps,          \* application threads that cancel the call
  Looper,        \* the main looper, which delivers the timeout
  Worker,        \* the thread of the dispatcher's pool that executes the call
  MaxCancels     \* bound on the number of XCall.cancel calls

ASSUME ShortCallAssumption ==
  /\ Looper \notin Apps /\ Worker \notin Apps /\ Looper # Worker
  /\ MaxCancels \in Nat

VARIABLES
  stage,       \* where the worker is, apart from upcalls and cancellations
  clientCtx,   \* XAsyncCall.clientCtx: "none", or "set" to the native context
  isFinish,    \* XAsyncCall.isFinish
  isCallback,  \* XAsyncCall.isCallback
  timer,       \* 1: the timeout message is pending in the looper's queue
  pc,          \* where a thread is in an upcall, the timeout or a cancellation
  report,      \* what the upcall in progress reports
  cmd,         \* msg_data.cmd_type
  async,       \* 1: a wakeup of ev_task is pending
  conn,        \* the engine's connection
  userConn,    \* task->user_conn
  idle,        \* 1: the one-shot ev_timeout is armed
  destroyed,   \* how often MSG_TYPE_DESTROY was delivered
  finals,      \* final onResponse calls the application has seen
  failures,    \* onFailure calls the application has seen
  cancels,     \* XCall.cancel calls so far
  process      \* "crashed" once undefined behaviour took the process down

callVars == <<isFinish, isCallback, timer>>
ctxVars  == <<cmd, async>>
connVars == <<conn, userConn, idle>>
toldVars == <<finals, failures>>
vars == <<stage, clientCtx, callVars, pc, report, ctxVars, connVars, destroyed,
          toldVars, cancels, process>>

Threads == Apps \cup {Looper, Worker}
Live    == {"handshake", "open", "closing"}
\* The native context is freed, or was never there.
Freed   == stage \in {"freed", "tail", "done"}

TypeOK ==
  /\ stage \in {"start", "named", "inited", "active", "armed", "poll", "break", "stopped",
                "freed", "tail", "done"}
  /\ clientCtx \in {"none", "set"}
  /\ isFinish \in BOOLEAN /\ isCallback \in BOOLEAN
  /\ timer \in {0, 1} /\ async \in {0, 1} /\ idle \in {0, 1}
  /\ pc \in [Threads -> {"idle", "late", "tell", "upcall", "deliver", "begin",
                         "check", "native", "write", "wake"}]
  /\ report \in {"none", "part", "final", "error"}
  /\ cmd \in {"NONE", "CANCEL", "DESTROY"}
  /\ conn \in {"none", "closed"} \cup Live
  /\ userConn \in {"null", "alloc", "freed"}
  /\ destroyed \in Nat /\ finals \in Nat /\ failures \in Nat
  /\ cancels \in 0..MaxCancels
  /\ process \in {"up", "crashed"}
  /\ report # "none" <=> pc[Worker] \in {"upcall", "deliver"}
  /\ clientCtx = "set" => destroyed = 0 /\ stage \notin {"start", "named"}

\* executeOn has set the timeout, if the client has one, and the pool has
\* started the worker.
Init ==
  /\ stage = "start" /\ clientCtx = "none"
  /\ isFinish = FALSE /\ isCallback = FALSE
  /\ timer \in {0, 1}
  /\ pc = [t \in Threads |-> "idle"] /\ report = "none"
  /\ cmd = "NONE" /\ async = 0
  /\ conn = "none" /\ userConn = "null" /\ idle = 0
  /\ destroyed = 0 /\ finals = 0 /\ failures = 0
  /\ cancels = 0 /\ process = "up"

Goto(t, where) == pc' = [pc EXCEPT ![t] = where]

\* The worker is at a stage of its own, not in an upcall.
WorkerAt(S) == stage \in S /\ pc[Worker] = "idle"

\* callback_data_to_client: the worker enters callBackData.
Upcall(what) == report' = what /\ Goto(Worker, "upcall")

-----------------------------------------------------------------------------
(* The worker before ev_run. *)

\* The DNS finds nothing: execute returns through its finally block, and the
\* timeout stays pending.
DnsFails ==
  /\ WorkerAt({"start"})
  /\ stage' = "done"
  /\ failures' = failures + 1
  /\ isFinish' = TRUE
  /\ UNCHANGED <<clientCtx, isCallback, timer, pc, report, ctxVars, connVars,
                 destroyed, finals, cancels, process>>

EnterNative ==
  /\ WorkerAt({"start"})
  /\ stage' = "named"
  /\ UNCHANGED <<clientCtx, callVars, pc, report, ctxVars, connVars, destroyed,
                 toldVars, cancels, process>>

\* client_parse_args cannot resolve the host and reports it: no context is made.
ParseFails ==
  /\ WorkerAt({"named"})
  /\ stage' = "freed"
  /\ Upcall("error")
  /\ UNCHANGED <<clientCtx, callVars, ctxVars, connVars, destroyed, toldVars,
                 cancels, process>>

\* client_init_engine fails: the context is freed without a word to Java.
EngineFails ==
  /\ WorkerAt({"named"})
  /\ stage' = "stopped"
  /\ UNCHANGED <<clientCtx, callVars, pc, report, ctxVars, connVars, destroyed,
                 toldVars, cancels, process>>

\* MSG_TYPE_INIT hands the context to XAsyncCall; ctx->active is set after it.
TellContext ==
  /\ WorkerAt({"named"})
  /\ stage' = "inited"
  /\ clientCtx' = "set"
  /\ UNCHANGED <<callVars, pc, report, ctxVars, connVars, destroyed, toldVars,
                 cancels, process>>

Activate ==
  /\ WorkerAt({"inited"})
  /\ stage' = "active"
  /\ UNCHANGED <<clientCtx, callVars, pc, report, ctxVars, connVars, destroyed,
                 toldVars, cancels, process>>

\* client_start_task_manager up to its direct call of the schedule callback:
\* ev_async_start forgets the wakeups sent so far.
ArmTask ==
  /\ WorkerAt({"active"})
  /\ stage' = "armed"
  /\ async' = 0
  /\ UNCHANGED <<clientCtx, callVars, pc, report, cmd, connVars, destroyed,
                 toldVars, cancels, process>>

\* The direct call finds a CANCEL: there is no user_conn yet, the callback
\* returns XQC_ERROR and ev_run is skipped.
CanceledBeforeTask ==
  /\ WorkerAt({"armed"}) /\ cmd = "CANCEL"
  /\ stage' = "stopped"
  /\ UNCHANGED <<clientCtx, callVars, pc, report, ctxVars, connVars, destroyed,
                 toldVars, cancels, process>>

\* client_handle_task cannot create the socket: the task is destroyed at once.
SocketFails ==
  /\ WorkerAt({"armed"}) /\ cmd = "NONE"
  /\ stage' = "stopped"
  /\ destroyed' = destroyed + 1
  /\ clientCtx' = "none"
  /\ UNCHANGED <<callVars, pc, report, ctxVars, connVars, toldVars, cancels, process>>

\* client_handle_task: socket and watchers are set up.  The engine connects and
\* takes the request, or refuses it, which is reported, or does not even
\* connect, which client_task_start keeps to itself.
HandleTask ==
  /\ WorkerAt({"armed"}) /\ cmd = "NONE"
  /\ stage' = "poll"
  /\ userConn' = "alloc" /\ idle' = 1
  /\ \/ conn' = "none" /\ UNCHANGED <<pc, report>>
     \/ conn' = "handshake" /\ UNCHANGED <<pc, report>>
     \/ conn' = "handshake" /\ Upcall("error")
  /\ UNCHANGED <<clientCtx, callVars, ctxVars, destroyed, toldVars, cancels, process>>

-----------------------------------------------------------------------------
(* The worker in ev_run. *)

\* A wakeup enters client_task_schedule_callback.
Woken(what) ==
  /\ WorkerAt({"poll"}) /\ async = 1 /\ cmd = what
  /\ async' = 0

\* Mutant of ServeCancel: it destroys the task without waiting for the close
\* notification.
ServeCancelDestroys ==
  /\ Woken("CANCEL")
  /\ conn' = IF conn \in Live THEN "closing" ELSE conn
  /\ userConn' = "freed" /\ idle' = 0
  /\ destroyed' = destroyed + 1
  /\ clientCtx' = "none"
  /\ UNCHANGED <<stage, callVars, pc, report, cmd, toldVars, cancels, process>>

ServeCancel ==
  /\ Woken("CANCEL")
  /\ conn' = IF conn \in Live THEN "closing" ELSE conn
  /\ UNCHANGED <<stage, clientCtx, callVars, pc, report, cmd, userConn, idle,
                 destroyed, toldVars, cancels, process>>

\* client_task_destroy: client_close_task, MSG_TYPE_DESTROY, ev_break.
ServeDestroy ==
  /\ Woken("DESTROY")
  /\ stage' = "break"
  /\ userConn' = "freed" /\ idle' = 0
  /\ destroyed' = destroyed + 1
  /\ clientCtx' = "none"
  /\ UNCHANGED <<callVars, pc, report, cmd, conn, toldVars, cancels, process>>

EngineRuns == WorkerAt({"poll", "break"}) /\ conn \in Live

HandshakeFinished ==
  /\ EngineRuns /\ conn = "handshake"
  /\ conn' = "open"
  /\ UNCHANGED <<stage, clientCtx, callVars, pc, report, ctxVars, userConn, idle,
                 destroyed, toldVars, cancels, process>>

\* Part of the body fills the receive buffer, or does not end the HQ stream.
ReceivePart ==
  /\ EngineRuns /\ conn = "open"
  /\ Upcall("part")
  /\ UNCHANGED <<stage, clientCtx, callVars, ctxVars, connVars, destroyed,
                 toldVars, cancels, process>>

\* The end of the body: it is reported, and the connection is closed.
ReceiveFinal ==
  /\ EngineRuns /\ conn = "open"
  /\ Upcall("final")
  /\ conn' = "closing"
  /\ UNCHANGED <<stage, clientCtx, callVars, ctxVars, userConn, idle, destroyed,
                 toldVars, cancels, process>>

\* client_write_socket or client_socket_read_handler reports an error.
SocketError ==
  /\ EngineRuns
  /\ Upcall("error")
  /\ UNCHANGED <<stage, clientCtx, callVars, ctxVars, connVars, destroyed,
                 toldVars, cancels, process>>

\* client_idle_callback, for a connection that has read nothing lately.
IdleFires ==
  /\ WorkerAt({"poll"}) /\ idle = 1
  /\ idle' = 0
  /\ \/ UNCHANGED <<conn, pc, report>>
     \/ /\ conn' = IF conn \in Live THEN "closing" ELSE conn
        /\ Upcall("error")
  /\ UNCHANGED <<stage, clientCtx, callVars, ctxVars, userConn, destroyed,
                 toldVars, cancels, process>>

\* Mutant of CloseNotify: ev_async_send is forgotten.
CloseNotifySilent ==
  /\ EngineRuns
  /\ conn' = "closed"
  /\ cmd' = "DESTROY"
  /\ UNCHANGED <<stage, clientCtx, callVars, pc, report, async, userConn, idle,
                 destroyed, toldVars, cancels, process>>

\* The close notification, which reads user_conn.
CloseNotify ==
  /\ EngineRuns
  /\ conn' = "closed"
  /\ cmd' = "DESTROY" /\ async' = 1
  /\ process' = IF userConn = "alloc" THEN "up" ELSE "crashed"
  /\ UNCHANGED <<stage, clientCtx, callVars, pc, report, userConn, idle,
                 destroyed, toldVars, cancels>>

LeaveLoop ==
  /\ WorkerAt({"break"})
  /\ stage' = "stopped"
  /\ UNCHANGED <<clientCtx, callVars, pc, report, ctxVars, connVars, destroyed,
                 toldVars, cancels, process>>

-----------------------------------------------------------------------------
(* The worker after ev_run. *)

\* The tail of client_short_send.  XAsyncCall still knows the address.
FreeContext ==
  /\ WorkerAt({"stopped"})
  /\ stage' = "freed"
  /\ UNCHANGED <<clientCtx, callVars, pc, report, ctxVars, connVars, destroyed,
                 toldVars, cancels, process>>

\* client_short_send has returned: the context and the timeout are forgotten.
Forget ==
  /\ WorkerAt({"freed"})
  /\ stage' = "tail"
  /\ clientCtx' = "none"
  /\ timer' = 0
  /\ UNCHANGED <<isFinish, isCallback, pc, report, ctxVars, connVars, destroyed,
                 toldVars, cancels, process>>

\* Mutant of EndExecute: the answer for a call nobody answered is missing.
EndExecuteSilently ==
  /\ WorkerAt({"tail"})
  /\ stage' = "done"
  /\ isFinish' = TRUE
  /\ UNCHANGED <<clientCtx, isCallback, timer, pc, report, ctxVars, connVars,
                 destroyed, toldVars, cancels, process>>

\* A call nobody has answered fails now, then execute is over.
EndExecute ==
  /\ WorkerAt({"tail"})
  /\ stage' = "done"
  /\ isFinish' = TRUE
  /\ failures' = IF isCallback THEN failures ELSE failures + 1
  /\ isCallback' = TRUE
  /\ UNCHANGED <<clientCtx, timer, pc, report, ctxVars, connVars, destroyed,
                 finals, cancels, process>>

-----------------------------------------------------------------------------
(* Upcalls, on the worker.  isCallback is read before the answer is given;  *)
(* that it is set only after the answer and the cancellation matters to     *)
(* nobody, the worker is its only reader.                                   *)

EnterCallBack ==
  /\ pc[Worker] = "upcall"
  /\ IF isCallback
     THEN report' = "none" /\ Goto(Worker, "idle")
     ELSE UNCHANGED report /\ Goto(Worker, "deliver")
  /\ UNCHANGED <<stage, clientCtx, callVars, ctxVars, connVars, destroyed,
                 toldVars, cancels, process>>

\* Mutant of Deliver: a failed call is not marked as answered.
DeliverUnmarked ==
  /\ pc[Worker] = "deliver"
  /\ timer' = 0
  /\ report' = "none"
  /\ isCallback' = (report = "final" \/ isCallback)
  /\ finals' = finals + (IF report = "final" THEN 1 ELSE 0)
  /\ failures' = failures + (IF report = "error" THEN 1 ELSE 0)
  /\ Goto(Worker, IF report = "error" THEN "begin" ELSE "idle")
  /\ UNCHANGED <<stage, clientCtx, isFinish, ctxVars, connVars, destroyed,
                 cancels, process>>

\* The timeout is removed and the application told; a failed call is cancelled.
Deliver ==
  /\ pc[Worker] = "deliver"
  /\ timer' = 0
  /\ report' = "none"
  /\ isCallback' = (report \in {"final", "error"} \/ isCallback)
  /\ finals' = finals + (IF report = "final" THEN 1 ELSE 0)
  /\ failures' = failures + (IF report = "error" THEN 1 ELSE 0)
  /\ Goto(Worker, IF report = "error" THEN "begin" ELSE "idle")
  /\ UNCHANGED <<stage, clientCtx, isFinish, ctxVars, connVars, destroyed,
                 cancels, process>>

-----------------------------------------------------------------------------
(* The timeout, on the looper. *)

TimeoutFires ==
  /\ pc[Looper] = "idle" /\ timer = 1
  /\ timer' = 0
  /\ Goto(Looper, "late")
  /\ UNCHANGED <<stage, clientCtx, isFinish, isCallback, report, ctxVars, connVars,
                 destroyed, toldVars, cancels, process>>

MarkLate ==
  /\ pc[Looper] = "late"
  /\ isCallback' = TRUE
  /\ Goto(Looper, "tell")
  /\ UNCHANGED <<stage, clientCtx, isFinish, timer, report, ctxVars, connVars,
                 destroyed, toldVars, cancels, process>>

TellLate ==
  /\ pc[Looper] = "tell"
  /\ failures' = failures + 1
  /\ Goto(Looper, "begin")
  /\ UNCHANGED <<stage, clientCtx, callVars, report, ctxVars, connVars, destroyed,
                 finals, cancels, process>>

-----------------------------------------------------------------------------
(* XAsyncCall.cancel and client_short_cancel, on any thread. *)

CallCancel(t) ==
  /\ t \in Apps /\ pc[t] = "idle" /\ cancels < MaxCancels
  /\ cancels' = cancels + 1
  /\ Goto(t, "begin")
  /\ UNCHANGED <<stage, clientCtx, callVars, report, ctxVars, connVars, destroyed,
                 toldVars, process>>

\* XAsyncCallCommon.cancel removes the timeout and finishes the call.
BeginCancel(t) ==
  /\ pc[t] = "begin"
  /\ timer' = 0
  /\ Goto(t, "check")
  /\ UNCHANGED <<stage, clientCtx, isFinish, isCallback, report, ctxVars, connVars,
                 destroyed, toldVars, cancels, process>>

CheckContext(t) ==
  /\ pc[t] = "check"
  /\ Goto(t, IF ~isFinish /\ clientCtx = "set" THEN "native" ELSE "idle")
  /\ UNCHANGED <<stage, clientCtx, callVars, report, ctxVars, connVars, destroyed,
                 toldVars, cancels, process>>

\* A context that is gone: the access fails or takes the process down.
TouchFreed(t) ==
  /\ Freed
  /\ Goto(t, "idle")
  /\ process' \in {"up", "crashed"}
  /\ UNCHANGED <<stage, clientCtx, callVars, report, ctxVars, connVars, destroyed,
                 toldVars, cancels>>

\* clientCtx is read again and passed down; client_short_cancel reads active,
\* of a NULL context too, to log it.
CheckActive(t) ==
  /\ pc[t] = "native"
  /\ \/ /\ clientCtx = "none"
        /\ process' = "crashed"
        /\ UNCHANGED pc
     \/ /\ clientCtx = "set" /\ ~Freed
        /\ Goto(t, IF stage = "inited" THEN "idle" ELSE "write")
        /\ UNCHANGED process
  /\ UNCHANGED <<stage, clientCtx, callVars, report, ctxVars, connVars, destroyed,
                 toldVars, cancels>>

WriteCommand(t) ==
  /\ pc[t] = "write" /\ ~Freed
  /\ cmd' = "CANCEL"
  /\ Goto(t, "wake")
  /\ UNCHANGED <<stage, clientCtx, callVars, report, async, connVars, destroyed,
                 toldVars, cancels, process>>

WakeLoop(t) ==
  /\ pc[t] = "wake" /\ ~Freed
  /\ async' = 1
  /\ Goto(t, "idle")
  /\ UNCHANGED <<stage, clientCtx, callVars, report, cmd, connVars, destroyed,
                 toldVars, cancels, process>>

LateAccess(t) ==
  /\ \/ pc[t] = "native" /\ clientCtx = "set"
     \/ pc[t] \in {"write", "wake"}
  /\ TouchFreed(t)

-----------------------------------------------------------------------------
Start == DnsFails \/ EnterNative \/ ParseFails \/ EngineFails \/ TellContext
         \/ Activate \/ ArmTask \/ CanceledBeforeTask \/ SocketFails \/ HandleTask
WorkerSteps == Start \/ ServeCancel \/ ServeDestroy \/ LeaveLoop \/ FreeContext
               \/ Forget \/ EndExecute \/ EnterCallBack \/ Deliver
Environment == HandshakeFinished \/ ReceivePart \/ ReceiveFinal \/ SocketError
               \/ IdleFires \/ CloseNotify
LooperSteps == MarkLate \/ TellLate
Cancel(t) == BeginCancel(t) \/ CheckContext(t) \/ CheckActive(t) \/ WriteCommand(t)
             \/ WakeLoop(t) \/ LateAccess(t)

Next == /\ process = "up"
        /\ \/ WorkerSteps \/ Environment \/ LooperSteps \/ TimeoutFires
           \/ \E t \in Apps : CallCancel(t)
           \/ \E t \in Threads : Cancel(t)

Spec == Init /\ [][Next]_vars

\* The threads are scheduled; libev serves a wakeup and an expired timer in its
\* next iteration, whatever else happens in it; and a connection that is being
\* closed is released by the engine when its draining period is over.
Fairness ==
  /\ WF_vars(process = "up" /\ WorkerSteps)
  /\ SF_vars(process = "up" /\ ServeCancel)
  /\ SF_vars(process = "up" /\ IdleFires)
  /\ WF_vars(process = "up" /\ LooperSteps)
  /\ \A t \in Threads : WF_vars(process = "up" /\ Cancel(t))
  /\ SF_vars(process = "up" /\ conn = "closing" /\ CloseNotify)

FairSpec == Spec /\ Fairness
==============================================================================
