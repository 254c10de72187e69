--------------------------- MODULE ShortCallProofs ---------------------------
(***************************************************************************)
(* Proofs about a call over its own connection, for any application        *)
(* threads and any number of cancellations.                                *)
(***************************************************************************)
EXTENDS ShortCallProps, TLAPS

\* The life of the native side: the stages of the worker, the connection,
\* user_conn and its timer, and the answers on their way up belong together.
Stages ==
  /\ destroyed <= 1
  /\ destroyed = 1 => stage \in {"break", "stopped"} \/ Freed
  /\ userConn = "alloc" <=> stage = "poll"
  /\ conn \in Live \/ idle = 1 => stage = "poll"
  /\ stage = "break" => destroyed = 1
  /\ stage = "break" \/ cmd = "DESTROY" => conn = "closed"
  /\ report # "none" => stage \in {"poll", "freed"} /\ destroyed = 0

\* A cancellation that saw a context passes it down while the context lives, or
\* after the message that destroyed it.
Passed ==
  \A t \in Threads : pc[t] = "native" => clientCtx = "set" \/ destroyed > 0 \/ Freed

\* Who marks the call as answered tells the application, before or right after.
Told ==
  isCallback \/ stage = "done" => finals + failures > 0 \/ pc[Looper] = "tell"

\* The worker may still give an answer.
MayAnswer ==
  stage = "start" \/ pc[Worker] = "deliver" \/ (stage # "done" /\ ~isCallback)

\* The timeout may still give an answer.
MayTimeOut == timer = 1 \/ pc[Looper] \in {"late", "tell"}

\* Every answer given is one of the two that were possible.
Budget ==
  /\ pc[Looper] \in {"late", "tell"} => timer = 0
  /\ MayAnswer => finals = 0
  /\ finals <= 1
  /\ MayAnswer /\ MayTimeOut => failures = 0
  /\ MayAnswer \/ MayTimeOut => finals + failures <= 1
  /\ finals + failures <= 2

CallInv == TypeOK /\ Stages /\ Passed /\ CrashWindow /\ Told /\ Budget

USE DEF Threads, Goto, Live, Freed, Upcall, WorkerAt

(***************************************************************************)
(* Every step preserves the invariant, one conjunct at a time.             *)
(***************************************************************************)

\* No step leaves the types; the context TellContext announces is not destroyed yet.
LEMMA TypeStep == TypeOK /\ Stages /\ [Next]_vars => TypeOK'
  <1> SUFFICES ASSUME TypeOK, Stages, [Next]_vars PROVE TypeOK'
    OBVIOUS
  <1> USE ShortCallAssumption DEF TypeOK, callVars, ctxVars, connVars, toldVars
  <1>1. CASE DnsFails
    BY <1>1 DEF DnsFails
  <1>2. CASE EnterNative \/ ParseFails \/ EngineFails
    BY <1>2 DEF EnterNative, ParseFails, EngineFails
  <1>3. CASE TellContext
    BY <1>3 DEF TellContext, Stages
  <1>4. CASE Activate \/ ArmTask \/ CanceledBeforeTask \/ LeaveLoop \/ FreeContext
    BY <1>4 DEF Activate, ArmTask, CanceledBeforeTask, LeaveLoop, FreeContext
  <1>5. CASE SocketFails \/ ServeDestroy
    BY <1>5 DEF SocketFails, ServeDestroy, Woken
  <1>6. CASE HandleTask
    BY <1>6 DEF HandleTask
  <1>7. CASE ServeCancel \/ Forget
    BY <1>7 DEF ServeCancel, Woken, Forget
  <1>8. CASE EndExecute
    BY <1>8 DEF EndExecute
  <1>9. CASE EnterCallBack
    BY <1>9 DEF EnterCallBack
  <1>10. CASE Deliver
    BY <1>10 DEF Deliver
  <1>11. CASE HandshakeFinished \/ CloseNotify
    BY <1>11 DEF HandshakeFinished, CloseNotify, EngineRuns
  <1>12. CASE ReceivePart \/ ReceiveFinal \/ SocketError
    BY <1>12 DEF ReceivePart, ReceiveFinal, SocketError, EngineRuns
  <1>13. CASE IdleFires
    BY <1>13 DEF IdleFires
  <1>14. CASE TimeoutFires \/ TellLate
    BY <1>14 DEF TimeoutFires, TellLate
  <1>15. CASE MarkLate
    BY <1>15 DEF MarkLate
  <1>16. ASSUME NEW t \in Apps, CallCancel(t) PROVE TypeOK'
    BY <1>16 DEF CallCancel
  <1>17. ASSUME NEW t \in Threads, BeginCancel(t) \/ CheckContext(t) PROVE TypeOK'
    BY <1>17 DEF BeginCancel, CheckContext
  <1>18. ASSUME NEW t \in Threads, CheckActive(t) \/ LateAccess(t) PROVE TypeOK'
    BY <1>18 DEF CheckActive, LateAccess, TouchFreed
  <1>19. ASSUME NEW t \in Threads, WriteCommand(t) \/ WakeLoop(t) PROVE TypeOK'
    BY <1>19 DEF WriteCommand, WakeLoop
  <1>20. CASE UNCHANGED vars
    BY <1>20 DEF vars
  <1> QED
    BY <1>1, <1>2, <1>3, <1>4, <1>5, <1>6, <1>7, <1>8, <1>9, <1>10, <1>11, <1>12, <1>13,
       <1>14, <1>15, <1>16, <1>17, <1>18, <1>19, <1>20
       DEF Next, WorkerSteps, Start, Environment, LooperSteps, Cancel

\* HandleTask allocates what ServeDestroy frees, and only a close notification, whose
\* connection is gone then, makes ServeDestroy possible.
LEMMA StagesStep == TypeOK /\ Stages /\ [Next]_vars => Stages'
  <1> SUFFICES ASSUME TypeOK, Stages, [Next]_vars PROVE Stages'
    OBVIOUS
  <1> USE ShortCallAssumption DEF TypeOK, Stages, callVars, ctxVars, connVars, toldVars
  <1>1. CASE DnsFails \/ EnterNative \/ ParseFails \/ EngineFails \/ TellContext
    BY <1>1 DEF DnsFails, EnterNative, ParseFails, EngineFails, TellContext
  <1>2. CASE Activate \/ ArmTask \/ CanceledBeforeTask \/ LeaveLoop \/ FreeContext
    BY <1>2 DEF Activate, ArmTask, CanceledBeforeTask, LeaveLoop, FreeContext
  <1>3. CASE SocketFails
    BY <1>3 DEF SocketFails
  <1>4. CASE HandleTask
    BY <1>4 DEF HandleTask
  <1>5. CASE ServeCancel
    BY <1>5 DEF ServeCancel, Woken
  <1>6. CASE ServeDestroy
    BY <1>6 DEF ServeDestroy, Woken
  <1>7. CASE Forget \/ EndExecute \/ EnterCallBack \/ Deliver
    BY <1>7 DEF Forget, EndExecute, EnterCallBack, Deliver
  <1>8. CASE HandshakeFinished \/ CloseNotify
    BY <1>8 DEF HandshakeFinished, CloseNotify, EngineRuns
  <1>9. CASE ReceivePart \/ ReceiveFinal \/ SocketError
    BY <1>9 DEF ReceivePart, ReceiveFinal, SocketError, EngineRuns
  <1>10. CASE IdleFires
    BY <1>10 DEF IdleFires
  <1>11. ASSUME NEW t \in Threads, WriteCommand(t) PROVE Stages'
    BY <1>11 DEF WriteCommand
  <1>12. CASE UNCHANGED <<stage, destroyed, userConn, conn, idle, cmd, report>>
    BY <1>12
  <1> QED
    BY <1>1, <1>2, <1>3, <1>4, <1>5, <1>6, <1>7, <1>8, <1>9, <1>10, <1>11, <1>12
       DEF Next, WorkerSteps, Start, Environment, LooperSteps, Cancel, vars,
           TimeoutFires, MarkLate, TellLate, CallCancel, BeginCancel, CheckContext,
           CheckActive, LateAccess, TouchFreed, WakeLoop

\* Only CheckContext sends a thread down, and clientCtx is reset only by the
\* DESTROY message or when the context is gone.
LEMMA PassedStep == TypeOK /\ Passed /\ [Next]_vars => Passed'
  <1> SUFFICES ASSUME TypeOK, Passed, [Next]_vars PROVE Passed'
    OBVIOUS
  <1> USE ShortCallAssumption DEF TypeOK, callVars, ctxVars, connVars, toldVars
  <1> DEFINE Gone == destroyed > 0 \/ Freed
  <1>1. Gone => Gone'
    BY DEF Next, WorkerSteps, Start, Environment, LooperSteps, Cancel, vars,
       DnsFails, EnterNative, ParseFails, EngineFails, TellContext, Activate,
       ArmTask, CanceledBeforeTask, SocketFails, HandleTask, ServeCancel,
       ServeDestroy, Woken, LeaveLoop, FreeContext, Forget, EndExecute,
       EnterCallBack, Deliver, HandshakeFinished, ReceivePart, ReceiveFinal,
       SocketError, IdleFires, CloseNotify, EngineRuns, TimeoutFires, MarkLate,
       TellLate, CallCancel, BeginCancel, CheckContext, CheckActive, LateAccess,
       TouchFreed, WriteCommand, WakeLoop
  <1>2. clientCtx = "set" => clientCtx' = "set" \/ Gone'
    BY DEF Next, WorkerSteps, Start, Environment, LooperSteps, Cancel, vars,
       DnsFails, EnterNative, ParseFails, EngineFails, TellContext, Activate,
       ArmTask, CanceledBeforeTask, SocketFails, HandleTask, ServeCancel,
       ServeDestroy, Woken, LeaveLoop, FreeContext, Forget, EndExecute,
       EnterCallBack, Deliver, HandshakeFinished, ReceivePart, ReceiveFinal,
       SocketError, IdleFires, CloseNotify, EngineRuns, TimeoutFires, MarkLate,
       TellLate, CallCancel, BeginCancel, CheckContext, CheckActive, LateAccess,
       TouchFreed, WriteCommand, WakeLoop
  <1>3. ASSUME NEW t \in Threads, pc'[t] = "native"
        PROVE  pc[t] = "native" \/ clientCtx = "set"
    BY <1>3 DEF Next, WorkerSteps, Start, Environment, LooperSteps, Cancel, vars,
       DnsFails, EnterNative, ParseFails, EngineFails, TellContext, Activate,
       ArmTask, CanceledBeforeTask, SocketFails, HandleTask, ServeCancel,
       ServeDestroy, Woken, LeaveLoop, FreeContext, Forget, EndExecute,
       EnterCallBack, Deliver, HandshakeFinished, ReceivePart, ReceiveFinal,
       SocketError, IdleFires, CloseNotify, EngineRuns, TimeoutFires, MarkLate,
       TellLate, CallCancel, BeginCancel, CheckContext, CheckActive, LateAccess,
       TouchFreed, WriteCommand, WakeLoop
  <1> QED
    BY <1>1, <1>2, <1>3 DEF Passed

\* The connection and the idle timer live only while the worker is in ev_run.
LEMMA Backed == TypeOK /\ Stages => ConnBacked
  BY DEF TypeOK, Stages, ConnBacked

\* Only three steps take the process down: a close notification without a
\* user_conn, which Backed rules out, a cancellation whose context is gone, and
\* an access to a freed one.
LEMMA CrashStep ==
  TypeOK /\ Stages /\ Passed /\ CrashWindow /\ [Next]_vars => CrashWindow'
  <1> SUFFICES ASSUME TypeOK, Stages, Passed, CrashWindow, [Next]_vars
               PROVE  CrashWindow'
    OBVIOUS
  <1>1. CASE UNCHANGED vars
    BY <1>1 DEF vars, CrashWindow
  <1>2. CASE CloseNotify
    BY <1>2, Backed DEF CloseNotify, EngineRuns, ConnBacked, CrashWindow
  <1>3. ASSUME NEW t \in Threads, CheckActive(t) PROVE CrashWindow'
    BY <1>3 DEF CheckActive, Passed, CrashWindow
  <1>4. ASSUME NEW t \in Threads, LateAccess(t) PROVE CrashWindow'
    BY <1>4 DEF LateAccess, TouchFreed, CrashWindow
  <1>5. CASE process = "up" /\ UNCHANGED process
    BY <1>5 DEF CrashWindow
  <1> QED
    BY <1>1, <1>2, <1>3, <1>4, <1>5
       DEF Next, WorkerSteps, Start, Environment, LooperSteps, Cancel,
           DnsFails, EnterNative, ParseFails, EngineFails, TellContext, Activate,
           ArmTask, CanceledBeforeTask, SocketFails, HandleTask, ServeCancel,
           ServeDestroy, LeaveLoop, FreeContext, Forget, EndExecute,
           EnterCallBack, Deliver, HandshakeFinished, ReceivePart, ReceiveFinal,
           SocketError, IdleFires, TimeoutFires, MarkLate, TellLate, CallCancel,
           BeginCancel, CheckContext, WriteCommand, WakeLoop

\* The call is marked as answered and the application told in one step of the worker,
\* in two of the looper.
LEMMA ToldStep == TypeOK /\ Told /\ [Next]_vars => Told'
  <1> SUFFICES ASSUME TypeOK, Told, [Next]_vars PROVE Told'
    OBVIOUS
  <1> USE ShortCallAssumption DEF TypeOK, Told, callVars, toldVars
  <1>1. CASE DnsFails
    BY <1>1 DEF DnsFails
  <1>2. CASE EndExecute
    BY <1>2 DEF EndExecute
  <1>3. CASE Deliver
    BY <1>3 DEF Deliver
  <1>4. CASE MarkLate
    BY <1>4 DEF MarkLate
  <1>5. CASE TellLate
    BY <1>5 DEF TellLate
  <1>6. ASSUME UNCHANGED <<isCallback, finals, failures>>,
               stage' = "done" => stage = "done",
               pc[Looper] = "tell" => pc'[Looper] = "tell"
        PROVE  Told'
    BY <1>6
  <1> QED
    BY <1>1, <1>2, <1>3, <1>4, <1>5, <1>6
       DEF Next, WorkerSteps, Start, Environment, LooperSteps, Cancel, vars,
           EnterNative, ParseFails, EngineFails, TellContext, Activate,
           ArmTask, CanceledBeforeTask, SocketFails, HandleTask, ServeCancel,
           ServeDestroy, Woken, LeaveLoop, FreeContext, Forget, EnterCallBack,
           HandshakeFinished, ReceivePart, ReceiveFinal, SocketError, IdleFires,
           CloseNotify, EngineRuns, TimeoutFires, CallCancel, BeginCancel,
           CheckContext, CheckActive, LateAccess, TouchFreed, WriteCommand, WakeLoop

\* An answer of the worker uses up MayAnswer, one of the timeout MayTimeOut, and
\* no step gives either back.
LEMMA BudgetStep == TypeOK /\ Stages /\ Budget /\ [Next]_vars => Budget'
  <1> SUFFICES ASSUME TypeOK, Stages, Budget, [Next]_vars PROVE Budget'
    OBVIOUS
  <1> USE ShortCallAssumption DEF TypeOK, callVars, toldVars
  <1>1. CASE DnsFails
    BY <1>1 DEF DnsFails, Budget, MayAnswer, MayTimeOut
  <1>2. CASE EndExecute
    BY <1>2 DEF EndExecute, Budget, MayAnswer, MayTimeOut
  <1>3. CASE Deliver
    <2>1. /\ MayAnswer
          /\ stage' = stage /\ stage # "start"
          /\ timer' = 0 /\ pc'[Looper] = pc[Looper] /\ pc'[Worker] # "deliver"
      BY <1>3 DEF Deliver, MayAnswer, Stages
    <2>2. MayTimeOut' => MayTimeOut
      BY <2>1 DEF MayTimeOut
    <2>3. CASE report = "part"
      <3>1. UNCHANGED <<isCallback, finals, failures>>
        BY <1>3, <2>3 DEF Deliver
      <3> QED
        BY <2>1, <2>2, <3>1 DEF Budget, MayAnswer
    <2>4. CASE report # "part"
      <3>1. isCallback'
        BY <1>3, <2>4 DEF Deliver
      <3>2. \/ finals' = finals + 1 /\ failures' = failures
            \/ finals' = finals /\ failures' = failures + 1
        BY <1>3, <2>4 DEF Deliver
      <3>3. ~MayAnswer' /\ finals = 0 /\ finals + failures <= 1
            /\ (MayTimeOut => failures = 0)
        BY <2>1, <3>1 DEF Budget, MayAnswer
      <3> QED
        BY <2>1, <2>2, <3>2, <3>3 DEF Budget
    <2> QED
      BY <2>3, <2>4
  <1>4. CASE TellLate
    BY <1>4 DEF TellLate, Budget, MayAnswer, MayTimeOut
  <1>5. CASE EnterCallBack
    BY <1>5 DEF EnterCallBack, Budget, MayAnswer, MayTimeOut, Stages
  <1>6. CASE TimeoutFires \/ MarkLate
    BY <1>6 DEF TimeoutFires, MarkLate, Budget, MayAnswer, MayTimeOut
  <1>7. ASSUME UNCHANGED <<isCallback, finals, failures>>,
               timer' = timer \/ timer' = 0,
               stage' = "start" => stage = "start",
               stage = "done" => stage' = "done",
               pc'[Looper] \in {"late", "tell"} => pc'[Looper] = pc[Looper],
               pc'[Worker] = "deliver" => pc[Worker] = "deliver"
        PROVE  Budget'
    BY <1>7 DEF Budget, MayAnswer, MayTimeOut
  <1> QED
    BY <1>1, <1>2, <1>3, <1>4, <1>5, <1>6, <1>7
       DEF Next, WorkerSteps, Start, Environment, LooperSteps, Cancel, vars,
           EnterNative, ParseFails, EngineFails, TellContext, Activate,
           ArmTask, CanceledBeforeTask, SocketFails, HandleTask, ServeCancel,
           ServeDestroy, Woken, LeaveLoop, FreeContext, Forget,
           HandshakeFinished, ReceivePart, ReceiveFinal, SocketError, IdleFires,
           CloseNotify, EngineRuns, CallCancel, BeginCancel,
           CheckContext, CheckActive, LateAccess, TouchFreed, WriteCommand, WakeLoop

(***************************************************************************)
(* The theorems.                                                           *)
(***************************************************************************)

\* The inductive invariant of a call: the life of its native context, and the
\* answers the worker and the timeout have given and may still give.
THEOREM CallInvariant == Spec => []CallInv
  <1>1. Init => CallInv
    <2> SUFFICES ASSUME Init PROVE CallInv
      OBVIOUS
    <2>1. TypeOK
      <3>1. pc \in [Threads -> {"idle"}] /\ pc[Worker] = "idle" /\ 0 \in 0..MaxCancels
        BY ShortCallAssumption DEF Init
      <3> QED
        BY <3>1 DEF Init, TypeOK
    <2>2. Stages /\ Passed /\ CrashWindow
      BY DEF Init, Stages, Passed, CrashWindow
    <2>3. Told /\ Budget
      BY ShortCallAssumption DEF Init, Told, Budget, MayAnswer, MayTimeOut
    <2> QED
      BY <2>1, <2>2, <2>3 DEF CallInv
  <1>2. CallInv /\ [Next]_vars => CallInv'
    BY TypeStep, StagesStep, PassedStep, CrashStep, ToldStep, BudgetStep DEF CallInv
  <1> QED
    BY <1>1, <1>2, PTL DEF Spec

\* Type correctness: an upcall is reported exactly while the worker is in it, and
\* clientCtx names a context only between its two messages.
THEOREM TypeCorrect == Spec => []TypeOK
  BY CallInvariant, PTL DEF CallInv

\* The engine and the idle timer never outlive the user_conn they point to.
THEOREM UserConnOutlivesUsers == Spec => []ConnBacked
  <1>1. CallInv => ConnBacked
    BY Backed DEF CallInv
  <1> QED
    BY <1>1, CallInvariant, PTL

\* Undefined behaviour happens only when the context is destroyed or freed.
THEOREM CrashOnlyInWindow == Spec => []CrashWindow
  BY CallInvariant, PTL DEF CallInv

\* MSG_TYPE_DESTROY comes at most once, and no answer after it.
THEOREM DestroyIsLast == Spec => []DestroyedLast
  <1>1. CallInv => DestroyedLast
    BY DEF CallInv, TypeOK, Stages, DestroyedLast
  <1> QED
    BY <1>1, CallInvariant, PTL

\* When execute is over the application was told, or is being told, an end.
THEOREM EveryCallAnswered == Spec => []Answered
  <1>1. CallInv => Answered
    BY DEF CallInv, Told, Answered
  <1> QED
    BY <1>1, CallInvariant, PTL

\* One answer of the worker, one of the timeout, never more.
THEOREM AtMostTwoEnds == Spec => []EndsBounded
  <1>1. CallInv => EndsBounded
    BY DEF CallInv, Budget, EndsBounded
  <1> QED
    BY <1>1, CallInvariant, PTL
\* What the worker, the engine, the timer and the cancelling threads share is not
\* used after its end, outside that window.
THEOREM NoneUsedAfterItsEnd == Spec => []LifetimesKept
  <1>1. ConnBacked /\ CrashWindow /\ DestroyedLast => LifetimesKept
    BY DEF LifetimesKept
  <1> QED
    BY <1>1, UserConnOutlivesUsers, CrashOnlyInWindow, DestroyIsLast, PTL
==============================================================================
